------------------------------ MODULE MCServices ------------------------------
(***************************************************************************)
(* The components below the broker that share no state with each other, in *)
(* one instance: part is the one that moves in a behaviour.                *)
(***************************************************************************)
EXTENDS Execution, HostProtocol, PathReads, PathWrites, Watches, AclJournal, Scheduler,
        Configuration

VARIABLE part

vars == <<execVars, hostVars, readVars, writeVars, watchVars, aclVars, cronVars, configVars, part>>

\* What the parts that do not move start with; profiles and settings differ by
\* nothing but their names, so that the configuration starts with one of each.
Some(S) == CHOOSE x \in S : TRUE

\* The kinds of writes in an order: writers differ by nothing but their names, so
\* that one of them may always have the first of their kinds.
Kind(i) == <<"create", "create-or-replace", "reserve", "enroll", "atomic">>[i]

Init ==
  /\ part \in {"execution", "host", "reads", "writes", "watches", "journal", "scheduler",
              "config"}
  /\ ExecInit /\ HostInit /\ ReadInit /\ WriteInit /\ WatchInit /\ AclInit /\ CronInit
  /\ ConfigInit
  /\ part # "execution" => \A s \in Launches : launch[s].owner = Some(Owners)
  /\ part # "writes" => \A w \in Writers : write[w].kind = Some(WriteKinds)
  /\ LET v == Some(Writers) IN
     \A w \in Writers : \E i \in 1..5 : \E j \in i..5 :
       write[v].kind = Kind(i) /\ write[w].kind = Kind(j)
  /\ part # "scheduler" => \A j \in Jobs : row[j].tag = Some(Tags)
  /\ currentProfile = Some(Profiles) /\ memory.settings = Some(Roots)

Next ==
  /\ UNCHANGED part
  /\ \/ /\ part = "execution" /\ ExecNext
        /\ UNCHANGED <<hostVars, readVars, writeVars, watchVars, aclVars, cronVars, configVars>>
     \/ /\ part = "host" /\ HostNext
        /\ UNCHANGED <<execVars, readVars, writeVars, watchVars, aclVars, cronVars, configVars>>
     \/ /\ part = "reads" /\ ReadNext
        /\ UNCHANGED <<execVars, hostVars, writeVars, watchVars, aclVars, cronVars, configVars>>
     \/ /\ part = "writes" /\ WriteNext
        /\ UNCHANGED <<execVars, hostVars, readVars, watchVars, aclVars, cronVars, configVars>>
     \/ /\ part = "watches" /\ WatchNext
        /\ UNCHANGED <<execVars, hostVars, readVars, writeVars, aclVars, cronVars, configVars>>
     \/ /\ part = "journal" /\ AclNext
        /\ UNCHANGED <<execVars, hostVars, readVars, writeVars, watchVars, cronVars, configVars>>
     \/ /\ part = "scheduler" /\ CronNext
        /\ UNCHANGED <<execVars, hostVars, readVars, writeVars, watchVars, aclVars, configVars>>
     \/ /\ part = "config" /\ ConfigNext
        /\ UNCHANGED <<execVars, hostVars, readVars, writeVars, watchVars, aclVars, cronVars>>

Spec == Init /\ [][Next]_vars

\* States differ in nothing but the part that moves.
Moving ==
  CASE part = "execution" -> <<part, execVars>>
    [] part = "host" -> <<part, hostVars>>
    [] part = "reads" -> <<part, readVars>>
    [] part = "writes" -> <<part, writeVars>>
    [] part = "watches" -> <<part, watchVars>>
    [] part = "journal" -> <<part, aclVars>>
    [] part = "scheduler" -> <<part, cronVars>>
    [] part = "config" -> <<part, configVars>>

\* A part that does not move keeps the values it starts with.
ServicesTypeOK ==
  CASE part = "execution" -> ExecTypeOK
    [] part = "host" -> HostTypeOK
    [] part = "reads" -> ReadTypeOK
    [] part = "writes" -> WriteTypeOK
    [] part = "watches" -> WatchTypeOK
    [] part = "journal" -> AclTypeOK
    [] part = "scheduler" -> CronTypeOK
    [] part = "config" -> ConfigTypeOK
=============================================================================
