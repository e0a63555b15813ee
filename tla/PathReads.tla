------------------------------ MODULE PathReads ------------------------------
(***************************************************************************)
(* The operations of src/path-policy.ts that look at what is on the disk:  *)
(* reading and listing, leases of open files, revealing, and directories   *)
(* handed to processes, up to the program that is run in one by the native *)
(* launcher and host; under the tree of path authorities, one of which     *)
(* belongs to the gateway of a tool call (issueToolPathGateway).  An       *)
(* authority may be revoked, a call time out, and the disk change between  *)
(* any two steps.                                                          *)
(*                                                                         *)
(* Abstracted: one root and one object in it, known by its identity; which *)
(* roots and operations an authority has; the contents.  A look that finds *)
(* a link, a wrong type or no access is one that fails.  How an execution  *)
(* is granted and supervised is in Execution and HostProtocol.             *)
(***************************************************************************)
EXTENDS Naturals

CONSTANTS
  Readers,    \* operations
  MaxObjects  \* bound on the objects that may be at the path

ASSUME ReadAssumption == MaxObjects \in Nat \ {0}

VARIABLES
  auth,     \* authorities; gate is the gateway of a call that owns one
  object,   \* the object at the path, 0 for none
  rootHere, \* the root is the directory it was
  reading   \* the operations

readVars == <<auth, object, rootHere, reading>>

\* withReveal and withInitialCwd hand a path to their callback, withExecutionRoot a lease
\* that permits one launch; qualifyExisting is any of them without the callback.
ByPath == {"reveal", "cwd", "execute"}
ByHandle == {"read", "list", "lease"}

\* A runtime's authority, those derived from it for a run and for the file viewer, and that
\* of a tool call.
ParentOf == [runtime |-> "none", context |-> "runtime", viewer |-> "runtime", call |-> "context"]

Auths == DOMAIN ParentOf

Versions == 0..MaxObjects

ReadSteps == {"none", "issued", "located", "validated", "authorized", "opening", "opened",
              "reading", "leased", "ranging", "checked", "using", "launching", "probed",
              "held", "running", "served", "denied", "closed"}

ReadTypeOK ==
  /\ auth \in [Auths -> [active : BOOLEAN, made : BOOLEAN,
                         gate : {"none", "issued", "started", "closed"}]]
  /\ object \in Versions
  /\ rootHere \in BOOLEAN
  /\ reading \in [Readers -> [kind : ByPath \cup ByHandle, auth : Auths,
                              step : ReadSteps, seen : Versions, handle : Versions]]

ReadInit ==
  /\ auth = [a \in Auths |-> [active |-> FALSE, made |-> FALSE, gate |-> "none"]]
  /\ object = 1
  /\ rootHere = TRUE
  /\ reading = [r \in Readers |-> [kind |-> "read", auth |-> "runtime", step |-> "none",
                                    seen |-> 0, handle |-> 0]]

-----------------------------------------------------------------------------
(* The tree of authorities.                                                *)

\* record.children: a revoked child has been taken out.
ChildrenOf(a) == {c \in Auths : auth[c].active /\ ParentOf[c] = a}

Descendants(a) ==
  LET children == ChildrenOf(a)
  IN  {a} \cup children \cup UNION {ChildrenOf(c) : c \in children}

Ancestry(a) ==
  LET Up(S) == S \cup ({ParentOf[b] : b \in S} \cap Auths)
  IN  Up(Up({a}))

\* Where #verifyRoot arrives from any authority on its way up.
Topmost == "runtime"

\* #revokeRecord.
Without(a) ==
  IF auth[a].active
    THEN [b \in Auths |-> IF b \in Descendants(a) THEN [auth[b] EXCEPT !.active = FALSE] ELSE auth[b]]
    ELSE auth

CreateAuthority ==
  /\ ~auth["runtime"].made /\ rootHere
  /\ auth' = [auth EXCEPT !["runtime"].made = TRUE, !["runtime"].active = TRUE]
  /\ UNCHANGED <<object, rootHere, reading>>

\* deriveAuthority; issueToolPathGateway derives one with a gate.
DeriveAuthority(a) ==
  /\ ~auth[a].made /\ ParentOf[a] \in Auths /\ auth[ParentOf[a]].active
  /\ auth' = [auth EXCEPT ![a] = [active |-> TRUE, made |-> TRUE,
                                 gate |-> IF a = "call" THEN "issued" ELSE "none"]]
  /\ UNCHANGED <<object, rootHere, reading>>

\* invokeTool starts the executor.
InvocationStarts(a) ==
  /\ auth[a].gate = "issued" /\ auth[a].active
  /\ auth' = [auth EXCEPT ![a].gate = "started"]
  /\ UNCHANGED <<object, rootHere, reading>>

\* The call has ended or run out of time; its executor may go on.
InvocationCloses(a) ==
  /\ auth[a].gate \in {"issued", "started"}
  /\ auth' = [Without(a) EXCEPT ![a].gate = "closed"]
  /\ UNCHANGED <<object, rootHere, reading>>

\* revoke, by the end of a context or a runtime.
RevokeAuthority(a) ==
  /\ auth[a].active /\ auth[a].gate = "none"
  /\ auth' = Without(a)
  /\ UNCHANGED <<object, rootHere, reading>>

-----------------------------------------------------------------------------
(* The steps that all operations have in common.                           *)

\* assertActive.
Asserted(r) ==
  LET a == reading[r].auth
  IN  auth[a].active /\ (ParentOf[a] \in Auths => auth[ParentOf[a]].active)

ReadAt(r, step) == reading[r].step = step

ReadGoes(r, step) == reading' = [reading EXCEPT ![r].step = step]

\* The beginning of #run, for a call through requireInvocation.
Issue(r, a) ==
  /\ ReadAt(r, "none") /\ auth[a].active /\ auth[a].gate \in {"none", "started"}
  /\ \E kind \in ByPath \cup ByHandle :
       reading' = [reading EXCEPT ![r].kind = kind, ![r].auth = a, ![r].step = "issued"]
  /\ UNCHANGED <<auth, object, rootHere>>

\* #verifyRoot and #walkNoRedirect along the lexical path.
Locates(r) ==
  /\ ReadAt(r, "issued") /\ rootHere /\ Asserted(r)
  /\ ReadGoes(r, "located")
  /\ UNCHANGED <<auth, object, rootHere>>

\* The canonical path, its root, and the identity of what is there.
Validates(r) ==
  /\ ReadAt(r, "located") /\ object # 0
  /\ reading' = [reading EXCEPT ![r].step = "validated", ![r].seen = object]
  /\ UNCHANGED <<auth, object, rootHere>>

\* The authority is looked at again before the paths are walked again.
Authorizes(r) ==
  /\ ReadAt(r, "validated") /\ Asserted(r)
  /\ ReadGoes(r, "authorized")
  /\ UNCHANGED <<auth, object, rootHere>>

\* Reading and listing look at the authority a third time when they call fs.open;
\* openReadLease does so once the file is open.
Opens(r) ==
  /\ ReadAt(r, "authorized") /\ reading[r].kind \in ByHandle /\ rootHere
  /\ reading[r].kind # "lease" => Asserted(r)
  /\ reading[r].kind = "list" => object = reading[r].seen
  /\ ReadGoes(r, "opening")
  /\ UNCHANGED <<auth, object, rootHere>>

Opened(r) ==
  /\ ReadAt(r, "opening") /\ object # 0
  /\ reading' = [reading EXCEPT ![r].step = "opened", ![r].handle = object]
  /\ UNCHANGED <<auth, object, rootHere>>

\* The identity of the handle; a directory has none that could be asked for.
Identifies(r) ==
  /\ ReadAt(r, "opened")
  /\ reading[r].kind # "list" => reading[r].handle = reading[r].seen
  /\ reading[r].kind = "lease" => Asserted(r)
  /\ ReadGoes(r, IF reading[r].kind = "lease" THEN "leased" ELSE "reading")
  /\ UNCHANGED <<auth, object, rootHere>>

\* The contents, or the entries, each of which is looked at under the authority.
Reads(r) ==
  /\ ReadAt(r, "reading")
  /\ reading[r].kind = "list" => Asserted(r)
  /\ reading' = [reading EXCEPT ![r].step = "served", ![r].handle = 0]
  /\ UNCHANGED <<auth, object, rootHere>>

\* Any look may fail, and the finally blocks close what is open.  The authorities of a
\* root that is another directory are revoked from the topmost on.
Denies(r) ==
  /\ reading[r].step \in {"issued", "located", "validated", "authorized", "opening", "opened",
                          "reading", "checked"}
  /\ reading' = [reading EXCEPT ![r].step = "denied", ![r].handle = 0]
  /\ auth' \in {auth} \cup (IF rootHere THEN {} ELSE {Without(Topmost)})
  /\ UNCHANGED <<object, rootHere>>

-----------------------------------------------------------------------------
(* openReadLease: the lease keeps the file open until it is closed.        *)

\* readRange.
RangeBegins(r) ==
  /\ ReadAt(r, "leased") /\ Asserted(r)
  /\ ReadGoes(r, "ranging")
  /\ UNCHANGED <<auth, object, rootHere>>

RangeRead(r) ==
  /\ ReadAt(r, "ranging") /\ rootHere
  /\ ReadGoes(r, "leased")
  /\ UNCHANGED <<auth, object, rootHere>>

\* A range, or assertPathCurrent, notices another root.
LeaseNotices(r) ==
  /\ reading[r].step \in {"leased", "ranging"} /\ ~rootHere
  /\ ReadGoes(r, "leased")
  /\ auth' = Without(Topmost)
  /\ UNCHANGED <<object, rootHere>>

LeaseCloses(r) ==
  /\ reading[r].step \in {"leased", "ranging"}
  /\ reading' = [reading EXCEPT ![r].step = "closed", ![r].handle = 0]
  /\ UNCHANGED <<auth, object, rootHere>>

-----------------------------------------------------------------------------
(* withReveal, withInitialCwd, withExecutionRoot.                          *)

\* The last look at the identities of the root and of what the path leads to.
Rechecks(r) ==
  /\ ReadAt(r, "authorized") /\ reading[r].kind \in ByPath /\ rootHere /\ object = reading[r].seen
  /\ ReadGoes(r, "checked")
  /\ UNCHANGED <<auth, object, rootHere>>

\* The path still has its canonical name, whatever it leads to by now, and the callback
\* is called with that.
Uses(r) ==
  /\ ReadAt(r, "checked") /\ object # 0
  /\ ReadGoes(r, "using")
  /\ UNCHANGED <<auth, object, rootHere>>

\* The callback has revealed the object, or used the directory.
CallbackEnds(r) ==
  /\ ReadAt(r, "using") /\ reading[r].kind # "execute"
  /\ ReadGoes(r, "served")
  /\ UNCHANGED <<auth, object, rootHere>>

\* Fault: a lease is good although its authority is gone.
ConsumesAlways(r) ==
  /\ ReadAt(r, "using") /\ reading[r].kind = "execute"
  /\ ReadGoes(r, "launching")
  /\ UNCHANGED <<auth, object, rootHere>>

\* consumeExecutionRootLease: once, in time, and under an authority that is active.  Paths
\* and identities go to the launcher.
Consumes(r) ==
  /\ ReadAt(r, "using") /\ reading[r].kind = "execute" /\ auth[reading[r].auth].active
  /\ ReadGoes(r, "launching")
  /\ UNCHANGED <<auth, object, rootHere>>

\* A launcher or host has handles that keep the names of what they hold.
NamesHeld == \E r \in Readers : reading[r].step \in {"held", "running"} /\ reading[r].handle # 0

\* OpenTrustedRoots: probes, which share deletion, find the identities ...
Probes(r) ==
  /\ ReadAt(r, "launching") /\ rootHere /\ object = reading[r].seen
  /\ ReadGoes(r, "probed")
  /\ UNCHANGED <<auth, object, rootHere>>

\* ... and are closed; the handles that stay may delete, share deletion with no one, and
\* have to find the identities again.  (The root is opened first, and does not change until
\* the directory is.)
Holds(r) ==
  /\ ReadAt(r, "probed") /\ ~NamesHeld /\ rootHere /\ object # 0 /\ object = reading[r].seen
  /\ reading' = [reading EXCEPT ![r].step = "held", ![r].handle = object]
  /\ UNCHANGED <<auth, object, rootHere>>

\* Fault: the handles are closed when the program is resumed.
ResumesAlone(r) ==
  /\ ReadAt(r, "held") /\ rootHere /\ object = reading[r].seen
  /\ reading' = [reading EXCEPT ![r].step = "running", ![r].handle = 0]
  /\ UNCHANGED <<auth, object, rootHere>>

\* The host has inherited the handles.  It resumes the program if they and the paths
\* still have the identities.
Resumes(r) ==
  /\ ReadAt(r, "held") /\ rootHere /\ object = reading[r].seen
  /\ ReadGoes(r, "running")
  /\ UNCHANGED <<auth, object, rootHere>>

\* The job is empty, and the host ends; its handles close with it.
ProgramEnds(r) ==
  /\ ReadAt(r, "running")
  /\ reading' = [reading EXCEPT ![r].step = "served", ![r].handle = 0]
  /\ UNCHANGED <<auth, object, rootHere>>

\* The lease is stale or expired, the callback fails, or nothing is launched.
UseFails(r) ==
  /\ reading[r].step \in {"using", "launching", "probed", "held"}
  /\ reading' = [reading EXCEPT ![r].step = "denied", ![r].handle = 0]
  /\ UNCHANGED <<auth, object, rootHere>>

-----------------------------------------------------------------------------
(* The disk.                                                               *)

\* The object is removed, replaced by another, or put back.
ObjectChanges ==
  /\ ~NamesHeld /\ object' \in Versions \ {object}
  /\ UNCHANGED <<auth, rootHere, reading>>

RootChanges ==
  /\ ~NamesHeld /\ rootHere /\ rootHere' = FALSE
  /\ UNCHANGED <<auth, object, reading>>

ReadNext ==
  \/ CreateAuthority
  \/ \E a \in Auths :
       \/ DeriveAuthority(a)
       \/ InvocationStarts(a)
       \/ InvocationCloses(a)
       \/ RevokeAuthority(a)
  \/ \E r \in Readers :
       \/ \E a \in Auths : Issue(r, a)
       \/ Locates(r)
       \/ Validates(r)
       \/ Authorizes(r)
       \/ Opens(r)
       \/ Opened(r)
       \/ Identifies(r)
       \/ Reads(r)
       \/ Denies(r)
       \/ RangeBegins(r)
       \/ RangeRead(r)
       \/ LeaseNotices(r)
       \/ LeaseCloses(r)
       \/ Rechecks(r)
       \/ Uses(r)
       \/ CallbackEnds(r)
       \/ Consumes(r)
       \/ Probes(r)
       \/ Holds(r)
       \/ Resumes(r)
       \/ ProgramEnds(r)
       \/ UseFails(r)
  \/ ObjectChanges
  \/ RootChanges

ReadSpec == ReadInit /\ [][ReadNext]_readVars

-----------------------------------------------------------------------------

\* A program runs nowhere but in the directory that was validated under its root: that
\* directory keeps its name from before the program is resumed until it has ended, although
\* the path was handed on unwatched, from the last look of the policy through the lease to
\* the launcher (src/path-policy.ts:1231, execution-runtime.ts:284, sandbox-launcher.cpp:
\* 2006-2016, sandbox-host.cpp:545-556).
RunsWhereValidated ==
  \A r \in Readers : ReadAt(r, "running") => rootHere /\ object = reading[r].seen

\* What an operation of a kind begins with a step.
Begins(kind, from, to) ==
  \/ from = "none" /\ to = "issued"
  \/ from = "authorized" /\ to = "opening" /\ kind # "lease"
  \/ from = "opened" /\ to = "leased"
  \/ from = "leased" /\ to = "ranging"
  \/ from = "using" /\ to = "launching"

\* Once an authority or one above it is revoked, nothing is begun behind it: no operation,
\* no call of fs.open to read or list, no lease or range, no launch.  openReadLease still
\* opens the file, which no one gets, and a callback may still be given a path
\* (#assertActive, src/path-policy.ts:2120, consumeExecutionRootLease, :296).
NothingBehindRevocation ==
  [][\A r \in Readers :
       Begins(reading'[r].kind, reading[r].step, reading'[r].step)
         => \A a \in Ancestry(reading'[r].auth) : auth[a].active]_readVars
=============================================================================
