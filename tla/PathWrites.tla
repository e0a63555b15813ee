----------------------------- MODULE PathWrites -----------------------------
(***************************************************************************)
(* The operations of src/path-policy.ts that put something on the disk,    *)
(* several of them at once: createFile, createOrReplaceFile, a reserved    *)
(* write with its commit, atomicCreateOrReplaceFile and the enrollment of a*)
(* directory, with their rollback.  Between any two of their steps another *)
(* operation, the retirement of their authority or the user's own programs *)
(* may change what they have looked at.                                    *)
(*                                                                         *)
(* Abstracted: one root with one directory in it, a file in that, a file of*)
(* the root's own that is written atomically, and a temporary name per     *)
(* operation; the lexical and the canonical path of each are one, links and*)
(* wrong types being failures of the look at them.  An object is known by  *)
(* who created it, which is what its identity tells apart.  Contents are   *)
(* left out, and so is what a programme of the user's does in the interval *)
(* between a last look at a name and the call that uses it, which SEC-02   *)
(* claims nothing about (Unobserved).                                      *)
(***************************************************************************)
EXTENDS Naturals, Sequences

CONSTANTS
  Writers,      \* operations, and their temporary names
  WriteKinds,   \* the kinds of them under consideration
  MaxForeign    \* bound on the changes made by others

Kinds == {"create", "create-or-replace", "reserve", "enroll", "atomic"}

\* A temporary name is none of the others, and no operation is the user.
ASSUME WriteAssumption ==
  /\ WriteKinds \subseteq Kinds /\ MaxForeign \in Nat
  /\ Writers \cap {"dir", "file", "config", "user"} = {}

VARIABLES
  disk,       \* the object at each name
  foreign,    \* number of changes made by others
  rootSame,   \* the root is the directory it was
  allowed,    \* operations whose authority is active
  write       \* the operations

writeVars == <<disk, foreign, rootSame, allowed, write>>

Names == {"dir", "file", "config"} \cup Writers

\* Objects, by creator; the foreign ones are told apart.
Nothing == <<>>
RootObject == <<"root">>
Own(w, name) == <<w, name>>
Objects == {Nothing, RootObject} \cup {Own(w, n) : w \in Writers, n \in Names}
             \cup {<<"user", k>> : k \in 1..MaxForeign}

\* Steps at which an operation has looked at a name it is about to use, or has made
\* a directory it has not identified yet.
Unobserved == {"mkdir!", "made", "open!", "rename!", "removing"}

Steps == Unobserved \cup
  {"none", "looking", "reserved", "mkdir", "create", "opened", "writing", "written",
   "replace", "replacing", "enrolled", "prepared", "temporary", "saving", "rename", "renamed",
   "undoing", "removed", "done", "failed", "undoFailed", "unsaved"}

Ended == {"done", "failed", "undoFailed", "unsaved"}

WriteTypeOK ==
  /\ disk \in [Names -> Objects]
  /\ foreign \in 0..MaxForeign
  /\ rootSame \in BOOLEAN
  /\ allowed \in SUBSET Writers
  /\ write \in [Writers -> [kind : WriteKinds, step : Steps, seen : Objects, reserved : Objects,
                            target : Objects, exists : BOOLEAN,
                            made : Seq([name : Names, id : Objects])]]

WriteInit ==
  /\ disk = [n \in Names |-> Nothing]
  /\ foreign = 0
  /\ rootSame = TRUE
  /\ allowed = Writers
  /\ write \in [Writers -> [kind : WriteKinds, step : {"none"}, seen : {Nothing},
                            reserved : {Nothing}, target : {Nothing}, exists : {FALSE},
                            made : {<<>>}]]

At(w, step) == write[w].step = step

Go(w, step) == write' = [write EXCEPT ![w].step = step]

\* assertActive and #verifyRoot.
Verified(w) == w \in allowed /\ rootSame

\* The nearest existing parent of the file, by its object.
NearestParent == IF disk["dir"] = Nothing THEN RootObject ELSE disk["dir"]

LastMade(w) == write[w].made[Len(write[w].made)]

-----------------------------------------------------------------------------
(* Failure and rollback.                                                   *)

\* An operation that has made nothing has failed; otherwise it takes back what it made.
StepAfterFailure(w) == IF write[w].made = <<>> THEN "failed" ELSE "undoing"

Rejected(w) == Go(w, StepAfterFailure(w))

\* Any look may fail: access denied, a link, a wrong type, a revoked authority.  A root
\* that is not the same any more takes all authorities with it.  A temporary file that
\* could not be written or synced stays: an error like any other for the caller, which
\* has a step of its own here.
Fails(w) ==
  /\ write[w].step \notin Ended \cup {"none", "reserved", "prepared", "temporary", "undoing",
                                      "removing", "removed"}
  /\ IF At(w, "saving") THEN Go(w, "unsaved") ELSE Rejected(w)
  /\ allowed' \in {allowed} \cup (IF rootSame THEN {} ELSE {{}})
  /\ UNCHANGED <<disk, foreign, rootSame>>

\* Fault: what stands at the name is removed without a look at its identity.
UndoUnseen(w) ==
  /\ At(w, "undoing")
  /\ Go(w, IF disk[LastMade(w).name] # Nothing THEN "removing" ELSE "undoFailed")
  /\ UNCHANGED <<disk, foreign, rootSame, allowed>>

\* #rollbackCreated, the last object first: a look at what is there ...
UndoLooks(w) ==
  /\ At(w, "undoing")
  /\ Go(w, IF disk[LastMade(w).name] = LastMade(w).id /\ LastMade(w).id # Nothing
             THEN "removing" ELSE "undoFailed")
  /\ UNCHANGED <<disk, foreign, rootSame, allowed>>

\* ... its removal, which a directory with something in it refuses ...
UndoRemoves(w) ==
  LET name == LastMade(w).name
  IN  /\ At(w, "removing")
      /\ \/ /\ disk[name] # Nothing /\ (name = "dir" => disk["file"] = Nothing)
            /\ disk' = [disk EXCEPT ![name] = Nothing]
            /\ Go(w, "removed")
         \/ Go(w, "undoFailed") /\ UNCHANGED disk
      /\ UNCHANGED <<foreign, rootSame, allowed>>

\* Fault: the rollback ends with the object made last.
UndoneOnce(w) ==
  /\ At(w, "removed")
  /\ Go(w, IF disk[LastMade(w).name] = Nothing THEN "failed" ELSE "undoFailed")
  /\ UNCHANGED <<disk, foreign, rootSame, allowed>>

\* ... and a look whether it is gone.  A file that existed is then to be replaced.
UndoVerifies(w) ==
  LET rest == SubSeq(write[w].made, 1, Len(write[w].made) - 1)
  IN  /\ At(w, "removed")
      /\ write' = [write EXCEPT ![w] =
           IF disk[LastMade(w).name] # Nothing THEN [@ EXCEPT !.step = "undoFailed"]
           ELSE [@ EXCEPT !.made = rest,
                   !.step = IF rest # <<>> THEN "undoing"
                            ELSE IF write[w].exists THEN "replace" ELSE "failed"]]
      /\ UNCHANGED <<disk, foreign, rootSame, allowed>>

-----------------------------------------------------------------------------
(* #createFileInternal and createDirectoryEnrollment.                      *)

Begin(w) ==
  /\ At(w, "none") /\ w \in allowed /\ write[w].kind # "reserve"
  /\ Go(w, "looking")
  /\ UNCHANGED <<disk, foreign, rootSame, allowed>>

\* preflightWrite remembers the file, or the parent that it would be created under.
Reserve(w) ==
  /\ At(w, "none") /\ write[w].kind = "reserve" /\ Verified(w)
  /\ write' = [write EXCEPT ![w].step = "reserved", ![w].target = disk["file"],
                            ![w].reserved = NearestParent]
  /\ UNCHANGED <<disk, foreign, rootSame, allowed>>

\* commitPreflightWrite; the reservation may have expired.
CommitReserved(w) ==
  /\ At(w, "reserved")
  /\ \/ w \in allowed /\ Go(w, IF write[w].target = Nothing THEN "looking" ELSE "replace")
     \/ Go(w, "failed")
  /\ UNCHANGED <<disk, foreign, rootSame, allowed>>

\* The nearest existing parent; a reservation has to find what it remembers.
Locate(w) ==
  /\ At(w, "looking") /\ Verified(w) /\ write[w].kind # "atomic"
  /\ write[w].kind = "reserve" => disk["file"] = Nothing /\ NearestParent = write[w].reserved
  /\ write' = [write EXCEPT ![w].seen = NearestParent,
       ![w].step = IF NearestParent = RootObject THEN "mkdir"
                   ELSE IF write[w].kind = "enroll" THEN "prepared" ELSE "create"]
  /\ UNCHANGED <<disk, foreign, rootSame, allowed>>

MkdirChecked(w) ==
  /\ At(w, "mkdir") /\ Verified(w)
  /\ Go(w, "mkdir!")
  /\ UNCHANGED <<disk, foreign, rootSame, allowed>>

Mkdir(w) ==
  /\ At(w, "mkdir!")
  /\ IF disk["dir"] = Nothing
       THEN /\ disk' = [disk EXCEPT !["dir"] = Own(w, "dir")]
            /\ write' = [write EXCEPT ![w].step = "made",
                           ![w].made = Append(@, [name |-> "dir", id |-> Nothing])]
       ELSE Rejected(w) /\ UNCHANGED disk
  /\ UNCHANGED <<foreign, rootSame, allowed>>

IdentifyDirectory(w) ==
  /\ At(w, "made") /\ disk["dir"] # Nothing
  /\ write' = [write EXCEPT ![w].made = <<[name |-> "dir", id |-> disk["dir"]]>>,
       ![w].seen = disk["dir"],
       ![w].step = IF write[w].kind = "enroll" THEN "enrolled" ELSE "create"]
  /\ UNCHANGED <<disk, foreign, rootSame, allowed>>

CreateChecked(w) ==
  /\ At(w, "create") /\ Verified(w) /\ disk["dir"] = write[w].seen
  /\ Go(w, "open!")
  /\ UNCHANGED <<disk, foreign, rootSame, allowed>>

\* Fault: a file that exists is opened like one that was created.
OpenShared(w) ==
  /\ At(w, "open!") /\ disk["dir"] # Nothing
  /\ disk' = [disk EXCEPT !["file"] = IF @ = Nothing THEN Own(w, "file") ELSE @]
  /\ write' = [write EXCEPT ![w].step = "opened", ![w].target = disk'["file"],
                 ![w].made = Append(@, [name |-> "file", id |-> Nothing])]
  /\ UNCHANGED <<foreign, rootSame, allowed>>

\* The exclusive open, in whatever directory has the name by now.
Open(w) ==
  /\ At(w, "open!") /\ disk["dir"] # Nothing
  /\ IF disk["file"] = Nothing
       THEN /\ disk' = [disk EXCEPT !["file"] = Own(w, "file")]
            /\ write' = [write EXCEPT ![w].step = "opened", ![w].target = Own(w, "file"),
                           ![w].made = Append(@, [name |-> "file", id |-> Nothing])]
       ELSE /\ write' = [write EXCEPT ![w].exists = write[w].kind = "create-or-replace",
                 ![w].step = IF write[w].kind = "create-or-replace" /\ write[w].made = <<>>
                               THEN "replace" ELSE StepAfterFailure(w)]
            /\ UNCHANGED disk
  /\ UNCHANGED <<foreign, rootSame, allowed>>

\* The identity comes from the handle.
IdentifyFile(w) ==
  /\ At(w, "opened")
  /\ write' = [write EXCEPT ![w].step = "writing",
                 ![w].made[Len(write[w].made)].id = write[w].target]
  /\ UNCHANGED <<disk, foreign, rootSame, allowed>>

WriteFile(w) ==
  /\ At(w, "writing") /\ Verified(w) /\ disk["file"] = write[w].target
  /\ Go(w, "written")
  /\ UNCHANGED <<disk, foreign, rootSame, allowed>>

WriteEnds(w) ==
  /\ At(w, "written")
  /\ Go(w, "done")
  /\ UNCHANGED <<disk, foreign, rootSame, allowed>>

EnrollChecked(w) ==
  /\ At(w, "enrolled") /\ Verified(w) /\ disk["dir"] = write[w].seen
  /\ Go(w, "prepared")
  /\ UNCHANGED <<disk, foreign, rootSame, allowed>>

\* commit or rollback of the enrollment, with the settings change it is part of.
EnrollEnds(w) ==
  /\ At(w, "prepared")
  /\ Go(w, "done") \/ Rejected(w)
  /\ UNCHANGED <<disk, foreign, rootSame, allowed>>

-----------------------------------------------------------------------------
(* #replaceFileInternal: the file is opened where it was seen, and written *)
(* through the handle while it still stands there.                         *)

Replace(w) ==
  /\ At(w, "replace") /\ Verified(w) /\ disk["file"] # Nothing
  /\ write[w].kind = "reserve" => disk["file"] = write[w].target
  /\ write' = [write EXCEPT ![w].step = "replacing", ![w].target = disk["file"]]
  /\ UNCHANGED <<disk, foreign, rootSame, allowed>>

Rewrite(w) ==
  /\ At(w, "replacing") /\ Verified(w) /\ disk["file"] = write[w].target
  /\ Go(w, "written")
  /\ UNCHANGED <<disk, foreign, rootSame, allowed>>

-----------------------------------------------------------------------------
(* atomicCreateOrReplaceFile.                                              *)

LocateAtomic(w) ==
  /\ At(w, "looking") /\ write[w].kind = "atomic" /\ Verified(w)
  /\ write' = [write EXCEPT ![w].seen = disk["config"], ![w].step = "temporary"]
  /\ UNCHANGED <<disk, foreign, rootSame, allowed>>

\* Until the temporary file is written its failure leaves it behind.
OpenTemporary(w) ==
  /\ At(w, "temporary")
  /\ IF Verified(w) THEN /\ disk' = [disk EXCEPT ![w] = Own(w, w)]
                         /\ Go(w, "saving")
                    ELSE Go(w, "failed") /\ UNCHANGED disk
  /\ UNCHANGED <<foreign, rootSame, allowed>>

SaveTemporary(w) ==
  /\ At(w, "saving")
  /\ write' = [write EXCEPT ![w].step = "rename", ![w].made = <<[name |-> w, id |-> Own(w, w)]>>]
  /\ UNCHANGED <<disk, foreign, rootSame, allowed>>

RenameChecked(w) ==
  /\ At(w, "rename") /\ Verified(w) /\ disk["config"] = write[w].seen
  /\ Go(w, "rename!")
  /\ UNCHANGED <<disk, foreign, rootSame, allowed>>

Rename(w) ==
  /\ At(w, "rename!")
  /\ IF disk[w] # Nothing
       THEN disk' = [disk EXCEPT !["config"] = disk[w], ![w] = Nothing] /\ Go(w, "renamed")
       ELSE Rejected(w) /\ UNCHANGED disk
  /\ UNCHANGED <<foreign, rootSame, allowed>>

\* Whoever has renamed another file to the name meanwhile makes the rollback fail.
Published(w) ==
  /\ At(w, "renamed")
  /\ IF disk["config"] = Own(w, w) THEN Go(w, "done") ELSE Rejected(w)
  /\ UNCHANGED <<disk, foreign, rootSame, allowed>>

-----------------------------------------------------------------------------
(* Others.                                                                 *)

\* revoke of an operation's authority or of its ancestor.
Revoke ==
  /\ \E S \in {{w} : w \in Writers} \cup {Writers} : S \cap allowed # {} /\ allowed' = allowed \ S
  /\ UNCHANGED <<disk, foreign, rootSame, write>>

\* What stood at the name is gone, with what was in it, and may have been replaced.
ForeignChange ==
  /\ foreign < MaxForeign /\ \A w \in Writers : write[w].step \notin Unobserved
  /\ foreign' = foreign + 1
  /\ \E name \in Names, object \in {Nothing, <<"user", foreign + 1>>} :
       /\ disk[name] # object
       /\ name = "file" => disk["dir"] # Nothing
       /\ disk' = [n \in Names |-> IF n = name THEN object
                                   ELSE IF n = "file" /\ name = "dir" THEN Nothing ELSE disk[n]]
  /\ UNCHANGED <<rootSame, allowed, write>>

\* Another directory has the name of the root.
ForeignRoot ==
  /\ foreign < MaxForeign /\ \A w \in Writers : write[w].step \notin Unobserved
  /\ rootSame /\ rootSame' = FALSE
  /\ foreign' = foreign + 1
  /\ disk' = [n \in Names |-> Nothing]
  /\ UNCHANGED <<allowed, write>>

WriteNext ==
  \/ \E w \in Writers :
       \/ Fails(w)
       \/ UndoLooks(w)
       \/ UndoRemoves(w)
       \/ UndoVerifies(w)
       \/ Begin(w)
       \/ Reserve(w)
       \/ CommitReserved(w)
       \/ Locate(w)
       \/ MkdirChecked(w)
       \/ Mkdir(w)
       \/ IdentifyDirectory(w)
       \/ CreateChecked(w)
       \/ Open(w)
       \/ IdentifyFile(w)
       \/ WriteFile(w)
       \/ WriteEnds(w)
       \/ EnrollChecked(w)
       \/ EnrollEnds(w)
       \/ Replace(w)
       \/ Rewrite(w)
       \/ LocateAtomic(w)
       \/ OpenTemporary(w)
       \/ SaveTemporary(w)
       \/ RenameChecked(w)
       \/ Rename(w)
       \/ Published(w)
  \/ Revoke
  \/ ForeignChange
  \/ ForeignRoot

WriteSpec == WriteInit /\ [][WriteNext]_writeVars

-----------------------------------------------------------------------------

\* An operation that fails and does not report its rollback as failed leaves nothing of
\* its own behind, but for the temporary file of an atomic write that could not be written
\* or synced: that file stays (src/path-policy.ts:1672-1681), which SEC-02's invariant of
\* conservative rollback does not say.  What a rollback is about to remove is its own.
\* However the operations on one directory interleave and whatever others do between two
\* looks (#rollbackCreated, src/path-policy.ts:2236).
ConservativeRollback ==
  \A w \in Writers :
    /\ write[w].step \in {"failed", "unsaved"}
         => \A n \in Names, m \in Names : disk[n] = Own(w, m) => At(w, "unsaved") /\ n = w
    /\ At(w, "removing") => disk[LastMade(w).name] \in {Nothing, Own(w, LastMade(w).name)}
=============================================================================
