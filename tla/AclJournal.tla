----------------------------- MODULE AclJournal -----------------------------
(***************************************************************************)
(* The entry that gives one sandboxed execution access to its root         *)
(* directory, and the journal that lets a later launch take it away again  *)
(* when the host could not.  Hosts prepare and clean up the root           *)
(* (PrepareRoot, CleanupRoot, native/sandbox-host/sandbox-host.cpp), write *)
(* numbered journal files around each change (AtomicJournalWrite,          *)
(* journal.h), and may die between any two steps; every launch first       *)
(* recovers what dead hosts left (RecoverJournals, sandbox-launcher.cpp).  *)
(*                                                                         *)
(* Abstracted: one root, shared by all hosts, and one process tree per     *)
(* host; the DACL is the set of hosts whose entry it holds; a journal file *)
(* is its number, which determines its state.  Reading the directory of the*)
(* journal is one step.  What recovery refuses for other reasons (a root   *)
(* that is gone, another build) is Refuse.                                 *)
(***************************************************************************)
EXTENDS Integers, FiniteSets

CONSTANT Hosts   \* executions, one host process each

ASSUME AclAssumption == Hosts # {}

VARIABLES
  dacl,        \* hosts whose entry is on the root
  published,   \* per host: numbers of its .jrn files
  temporary,   \* per host: numbers of its .tmp files
  host,        \* per host: how far it is
  recovery,    \* the launch that holds the recovery mutex
  overwritten  \* somebody wrote a DACL that was no longer the one it had read

aclVars == <<dacl, published, temporary, host, recovery, overwritten>>

\* The number of the journal file that is written at each place.
Generation == [prepared |-> 1, applied |-> 2, jobZero |-> 3, removed |-> 4]

Numbers == 1..4

Before == {"none", "leased"}

Places ==
  Before \cup DOMAIN Generation \cup
    {"stable", "change", "observe", "running", "cleanup", "again", "remove", "verify",
     "delete", "gone"}

AclTypeOK ==
  /\ dacl \in SUBSET Hosts
  /\ published \in [Hosts -> SUBSET Numbers]
  /\ temporary \in [Hosts -> SUBSET Numbers]
  /\ host \in [Hosts ->
       [at : Places, seen : SUBSET Hosts, end : {"failed", "dirty", "clean"}]]
  /\ recovery \in
       [at   : {"idle", "group", "root", "again", "remove", "verify", "delete"},
        for  : Hosts,
        seen : SUBSET Hosts,
        now  : Hosts,
        todo : SUBSET Hosts,
        files : [Hosts -> [published : SUBSET Numbers, temporary : SUBSET Numbers]]]
  /\ overwritten \in BOOLEAN

NoFiles == [g \in Hosts |-> [published |-> {}, temporary |-> {}]]

Idle(h) ==
  [at |-> "idle", for |-> h, seen |-> {}, now |-> h, todo |-> {}, files |-> NoFiles]

FirstHost == CHOOSE h \in Hosts : TRUE

AclInit ==
  /\ dacl = {}
  /\ published = [h \in Hosts |-> {}]
  /\ temporary = [h \in Hosts |-> {}]
  /\ host = [h \in Hosts |-> [at |-> "none", seen |-> {}, end |-> "failed"]]
  /\ recovery = Idle(FirstHost)
  /\ overwritten = FALSE

Place(h) == host[h].at

Over == [at |-> "gone", seen |-> {}, end |-> "failed"]

Goes(h, place) ==
  host' = [host EXCEPT ![h] = IF place = "gone" THEN Over ELSE [@ EXCEPT !.at = place]]

HostAlive(h) == Place(h) \notin {"none", "gone"}

\* SetSecurityInfo on the DACL that was read.
SetDacl(seen, new) ==
  /\ dacl' = new
  /\ overwritten' = (overwritten \/ dacl # seen)

Unchanged == UNCHANGED <<dacl, published, temporary, recovery, overwritten>>

Contiguous(numbers) == numbers # {} /\ numbers = 1..Cardinality(numbers)

\* Groups of files that recovery goes on with.
Recoverable(files) ==
  /\ Contiguous(files.published)
  /\ files.temporary \subseteq {Cardinality(files.published) + 1}

-----------------------------------------------------------------------------
(* AtomicJournalWrite, and where the host goes with its result.            *)

Written(h, ok) ==
  CASE Place(h) = "prepared" -> Goes(h, IF ok THEN "stable" ELSE "cleanup")
    [] Place(h) = "applied"  -> Goes(h, IF ok THEN "running" ELSE "cleanup")
    [] Place(h) = "jobZero"  ->
         host' = [host EXCEPT ![h].at = "cleanup", ![h].end = IF ok THEN @ ELSE "dirty"]
    [] Place(h) = "removed"  ->
         Goes(h, IF ok /\ host[h].end = "clean" THEN "delete" ELSE "gone")

CreateTemporary(h) ==
  /\ Place(h) \in DOMAIN Generation /\ temporary[h] = {}
  /\ temporary' = [temporary EXCEPT ![h] = {Generation[Place(h)]}]
  /\ UNCHANGED <<dacl, published, host, recovery, overwritten>>

\* The file has its name; flushing the directory may still fail.
Publish(h) ==
  /\ Place(h) \in DOMAIN Generation /\ temporary[h] # {}
  /\ published' = [published EXCEPT ![h] = @ \cup temporary[h]]
  /\ temporary' = [temporary EXCEPT ![h] = {}]
  /\ \E ok \in BOOLEAN : Written(h, ok)
  /\ UNCHANGED <<dacl, recovery, overwritten>>

WriteFails(h) ==
  /\ Place(h) \in DOMAIN Generation
  /\ temporary' = [temporary EXCEPT ![h] = {}]
  /\ Written(h, FALSE)
  /\ UNCHANGED <<dacl, published, recovery, overwritten>>

-----------------------------------------------------------------------------
(* The host.                                                               *)

\* PrepareRoot: D0 is read.
ReadRoot(h) ==
  /\ Place(h) = "leased"
  /\ host' = [host EXCEPT ![h].at = "prepared", ![h].seen = dacl]
  /\ Unchanged

\* D0 is read again.
ReadAgain(h) ==
  /\ Place(h) = "stable"
  /\ Goes(h, IF dacl = host[h].seen THEN "change" ELSE "cleanup")
  /\ Unchanged

AddEntry(h) ==
  /\ Place(h) = "change"
  /\ \/ SetDacl(host[h].seen, host[h].seen \cup {h}) /\ Goes(h, "observe")
     \/ Goes(h, "cleanup") /\ UNCHANGED <<dacl, overwritten>>
  /\ UNCHANGED <<published, temporary, recovery>>

\* VerifyApplied: the old entries and the new one, once.
ObserveEntry(h) ==
  /\ Place(h) = "observe"
  /\ Goes(h, IF dacl = host[h].seen \cup {h} THEN "applied" ELSE "cleanup")
  /\ Unchanged

\* The job is empty, in time and with its input taken or not; or it was never started.
JobEnds(h) ==
  /\ Place(h) = "running"
  /\ \/ \E end \in {"clean", "dirty"} :
          host' = [host EXCEPT ![h].at = "jobZero", ![h].end = end]
     \/ Goes(h, "cleanup")
  /\ Unchanged

\* CleanupRoot: the entry must be there once.
ReadForCleanup(h) ==
  /\ Place(h) = "cleanup"
  /\ IF h \in dacl
       THEN host' = [host EXCEPT ![h].at = "again", ![h].seen = dacl]
       ELSE Goes(h, "gone")
  /\ Unchanged

ReadAgainForCleanup(h) ==
  /\ Place(h) = "again"
  /\ Goes(h, IF dacl = host[h].seen THEN "remove" ELSE "gone")
  /\ Unchanged

RemoveEntry(h) ==
  /\ Place(h) = "remove"
  /\ \/ SetDacl(host[h].seen, host[h].seen \ {h}) /\ Goes(h, "verify")
     \/ Goes(h, "gone") /\ UNCHANGED <<dacl, overwritten>>
  /\ UNCHANGED <<published, temporary, recovery>>

\* A host that could not start its job goes, and leaves its journal.
VerifyRemoved(h) ==
  /\ Place(h) = "verify"
  /\ Goes(h, IF dacl = host[h].seen \ {h} /\ host[h].end # "failed" THEN "removed" ELSE "gone")
  /\ Unchanged

\* DeleteJournals, in ascending order.
DeleteJournals(h) ==
  /\ Place(h) = "delete"
  /\ IF published[h] = {}
       THEN Goes(h, "gone") /\ UNCHANGED published
       ELSE \E n \in published[h] :
              /\ \A m \in published[h] : n <= m
              /\ published' = [published EXCEPT ![h] = @ \ {n}]
              /\ UNCHANGED host
  /\ UNCHANGED <<dacl, temporary, recovery, overwritten>>

HostDies(h) == HostAlive(h) /\ Goes(h, "gone") /\ Unchanged

-----------------------------------------------------------------------------
(* OpenExclusiveHostLease: every launch recovers first.                    *)

\* RecoverJournals lists the directory.
StartRecovery(h) ==
  /\ recovery.at = "idle" /\ Place(h) = "none"
  /\ recovery' = [Idle(h) EXCEPT
       !.at    = "group",
       !.todo  = {g \in Hosts : published[g] \cup temporary[g] # {}},
       !.files = [g \in Hosts |-> [published |-> published[g], temporary |-> temporary[g]]]]
  /\ UNCHANGED <<dacl, published, temporary, host, overwritten>>

\* Fault: a host is alive while its process id is in use.
NeverAlive(g) == FALSE

OwnedHostAlive(g) == HostAlive(g)

\* One group: its files are read, its host is dead.
RecoverGroup(g) ==
  /\ recovery.at = "group" /\ g \in recovery.todo
  /\ Recoverable(recovery.files[g])
  /\ recovery.files[g].published \subseteq published[g]
  /\ ~OwnedHostAlive(g)
  /\ recovery' = [recovery EXCEPT !.at = "root", !.now = g]
  /\ UNCHANGED <<dacl, published, temporary, host, overwritten>>

\* RemoveExactAce.
RecoverRoot ==
  /\ recovery.at = "root"
  /\ recovery' = [recovery EXCEPT
       !.at = IF recovery.now \in dacl THEN "again" ELSE "delete", !.seen = dacl]
  /\ UNCHANGED <<dacl, published, temporary, host, overwritten>>

RecoverAgain ==
  /\ recovery.at = "again" /\ dacl = recovery.seen
  /\ recovery' = [recovery EXCEPT !.at = "remove"]
  /\ UNCHANGED <<dacl, published, temporary, host, overwritten>>

RecoverRemove ==
  /\ recovery.at = "remove"
  /\ SetDacl(recovery.seen, recovery.seen \ {recovery.now})
  /\ recovery' = [recovery EXCEPT !.at = "verify"]
  /\ UNCHANGED <<published, temporary, host>>

RecoverVerify ==
  /\ recovery.at = "verify" /\ dacl = recovery.seen \ {recovery.now}
  /\ recovery' = [recovery EXCEPT !.at = "delete"]
  /\ UNCHANGED <<dacl, published, temporary, host, overwritten>>

\* The listed files are deleted, in ascending order and the temporary one last.
RecoverDelete ==
  LET g     == recovery.now
      files == recovery.files[g]
  IN  /\ recovery.at = "delete"
      /\ IF files.published # {}
           THEN \E n \in files.published \cap published[g] :
                  /\ \A m \in files.published : n <= m
                  /\ published' = [published EXCEPT ![g] = @ \ {n}]
                  /\ recovery' = [recovery EXCEPT !.files[g].published = @ \ {n}]
                  /\ UNCHANGED temporary
         ELSE /\ files.temporary \subseteq temporary[g]
              /\ temporary' = [temporary EXCEPT ![g] = @ \ files.temporary]
              /\ recovery' = [recovery EXCEPT !.at = "group", !.todo = @ \ {g},
                                              !.files[g].temporary = {}]
              /\ UNCHANGED published
      /\ UNCHANGED <<dacl, host, overwritten>>

\* EXEC_ACL_RECOVERY_REQUIRED, or the launcher dies.
Refuse ==
  /\ recovery.at # "idle"
  /\ recovery' = Idle(FirstHost)
  /\ UNCHANGED <<dacl, published, temporary, host, overwritten>>

\* The mutex is released and the host launched.
Recovered ==
  /\ recovery.at = "group" /\ recovery.todo = {}
  /\ Goes(recovery.for, "leased")
  /\ recovery' = Idle(FirstHost)
  /\ UNCHANGED <<dacl, published, temporary, overwritten>>

AclNext ==
  \/ \E h \in Hosts :
       \/ CreateTemporary(h)
       \/ Publish(h)
       \/ WriteFails(h)
       \/ ReadRoot(h)
       \/ ReadAgain(h)
       \/ AddEntry(h)
       \/ ObserveEntry(h)
       \/ JobEnds(h)
       \/ ReadForCleanup(h)
       \/ ReadAgainForCleanup(h)
       \/ RemoveEntry(h)
       \/ VerifyRemoved(h)
       \/ DeleteJournals(h)
       \/ HostDies(h)
       \/ StartRecovery(h)
       \/ RecoverGroup(h)
  \/ RecoverRoot
  \/ RecoverAgain
  \/ RecoverRemove
  \/ RecoverVerify
  \/ RecoverDelete
  \/ Refuse
  \/ Recovered

AclSpec == AclInit /\ [][AclNext]_aclVars

-----------------------------------------------------------------------------

\* An entry on the root is that of a living host, or a later launch can take it away:
\* its journal is on disk, without a gap and with at most the file after the last one
\* unpublished, whatever write failed, wherever host or recovery died, and whichever hosts
\* share the root.  Excepted is a DACL that changed between its last reading and its
\* writing, for which Windows has no compare-and-swap (sandbox-host.cpp:230-263,
\* sandbox-launcher.cpp:2251-2275, journal.h:149-157).
AceAccounted ==
  ~overwritten =>
    \A h \in dacl :
      HostAlive(h)
        \/ Recoverable([published |-> published[h], temporary |-> temporary[h]])
=============================================================================
