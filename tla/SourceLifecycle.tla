---------------------------- MODULE SourceLifecycle ----------------------------
(***************************************************************************)
(* `imagetracker source add` and `source remove` of one folder, beside the *)
(* syncs of it (ManifestOutbox): the binding and the lifecycle generation  *)
(* in the CLI's state, the source of the service, and the records under    *)
(* which the service executes each command of a generation once.           *)
(*                                                                         *)
(* A command is a call and then a change of the local state; it may end    *)
(* after the call, or the answer may be lost.  Records of commands expire  *)
(* a day after the call.  The owner is taken to run one command or sync at *)
(* a time, which the lock of the syncs does not see to.                    *)
(***************************************************************************)
EXTENDS ManifestOutbox

CONSTANTS
  MaxGeneration    \* bound: removals

VARIABLES
  source,       \* MediaSource.source_status, once there is one
  bound,        \* SourceBinding of the folder
  generation,   \* LocalSetting source-lifecycle
  command,      \* what the running command has to do locally
  done          \* idempotency records of the commands

lifecycleVars == <<source, bound, generation, command, done>>
ownerVars == <<vars, lifecycleVars>>

LifecycleTypeOK ==
  /\ TypeOK
  /\ source \in {"None", "Active", "Removed"}
  /\ bound \in BOOLEAN
  /\ generation \in 0..MaxGeneration
  /\ command \in {"None", "Bind", "Unbind"}
  /\ done \subseteq {"add", "remove"} \X (0..MaxGeneration)

LifecycleInit ==
  /\ Init
  /\ source = "None" /\ bound = FALSE /\ generation = 0
  /\ command = "None" /\ done = {}

-----------------------------------------------------------------------------
(* The commands. *)

AddKey == <<"add", generation>>
RemoveKey == <<"remove", generation>>

Free == command = "None" /\ sending = Idle

\* The answer to a call leads to the local change, or is not waited for.
Answered(change) == command' \in {change, "None"}

\* SourceRepository.create: a new source, the same again, or a removed one
\* that becomes active.
CreateOrReactivate ==
  /\ AddKey \notin done
  /\ source' = "Active"
  /\ done' = done \cup {AddKey}

SourceAdd ==
  /\ Free
  /\ CreateOrReactivate \/ (AddKey \in done /\ UNCHANGED <<source, done>>)
  /\ Answered("Bind")
  /\ UNCHANGED <<vars, bound, generation>>

\* What is known of an earlier binding of the same source stays.
BindSource ==
  /\ command = "Bind"
  /\ bound' = TRUE
  /\ command' = "None"
  /\ UNCHANGED <<vars, source, generation, done>>

\* remove_source deletes the occurrences, which then stand for no state of
\* their files; a removed source is not found.
DeleteSource ==
  /\ RemoveKey \notin done
  /\ source = "Active"
  /\ source' = "Removed"
  /\ done' = done \cup {RemoveKey}
  /\ server' = [i \in Items |-> [content |-> Absent, at |-> 0]]

SourceRemove ==
  /\ Free
  /\ bound /\ generation < MaxGeneration
  /\ DeleteSource \/ (RemoveKey \in done /\ UNCHANGED <<source, done, server>>)
  /\ Answered("Unbind")
  /\ UNCHANGED <<hist, cliVars, net, answer, spent, bound, generation>>

RemoveBinding ==
  /\ command = "Unbind"
  /\ known' = [i \in Items |-> Absent]
  /\ outbox' = {} /\ failures' = <<>>
  /\ bound' = FALSE
  /\ generation' = generation + 1
  /\ command' = "None"
  /\ UNCHANGED <<hist, keys, sending, upgraded, net, serviceVars, spent, source, done>>

\* After a day; no call is waited for that long.
RecordExpires(key) ==
  /\ key \in done
  /\ Free
  /\ done' = done \ {key}
  /\ UNCHANGED <<vars, source, bound, generation, command>>

-----------------------------------------------------------------------------
(* The syncs. *)

\* A sync starts from a binding.
Sync ==
  /\ command = "None" /\ bound
  /\ \/ \E unread \in SUBSET Items : Scan(unread)
     \/ Send \/ Pause \/ Receive

\* The manifest of a removed source is refused, and the batch set aside.
SourceNotFound ==
  /\ sending # Idle /\ source = "Removed"
  /\ sending.key \notin DOMAIN answer
  /\ failures' = Append(failures, sending.entries)
  /\ outbox' = {b \in outbox : b.key # sending.key}
  /\ sending' = Idle
  /\ UNCHANGED <<hist, known, keys, upgraded, net, serviceVars, spent>>

Service ==
  \/ source = "Active" /\ \E b \in net : Execute(b) \/ Refuse(b)
  \/ \E b \in net : Lose(b)

OwnerStep ==
  \/ BindSource \/ SourceRemove \/ RemoveBinding
  \/ \E key \in done : RecordExpires(key)
  \/ /\ \/ \E i \in Items, c \in Revisions \cup {Absent} : Edit(i, c)
        \/ Sync \/ SourceNotFound \/ Service
     /\ UNCHANGED lifecycleVars

LifecycleNext == SourceAdd \/ OwnerStep

LifecycleSpec == LifecycleInit /\ [][LifecycleNext]_ownerVars

\* An owner who repeats a removal until it is answered, and adds the folder
\* again when no request of before is still on its way.
PatientAdd ==
  /\ SourceAdd
  /\ source = "Removed" => ~bound /\ net = {}

PatientSpec == LifecycleInit /\ [][PatientAdd \/ OwnerStep]_ownerVars

-----------------------------------------------------------------------------
\* What the inventory of a removal is deleted for: keeping it "would make a
\* later reactivation falsely look unchanged and prevent those occurrences
\* from being restored".
ReactivationNoticed ==
  bound /\ source = "Active" =>
    \A i \in Items :
      known[i] # Absent /\ server[i].content = Absent => Pending(i)

\* Of a source that is there, what the CLI takes for accepted is what the
\* service has, except for items that are pending: also of one that was
\* removed and added again.
KnownWhileActive == bound /\ source = "Active" => KnownIsStored
=============================================================================
