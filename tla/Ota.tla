-------------------------------- MODULE Ota ---------------------------------
(***************************************************************************)
(* The firmware update: ota_task (src/components/ota/native_ota.cpp), a    *)
(* task of its own for each $95:9, its report by machine_run               *)
(* (sys_fw_update_ans_async_, src/main/acionna/acionna.cpp), and restarts. *)
(*                                                                         *)
(* An image is a number of blocks, downloaded one after another into one   *)
(* static buffer and written to the partition that is not running.  Any    *)
(* step may fail, power may fail between any two, and nothing stops a      *)
(* second request while one is under way.                                  *)
(*                                                                         *)
(* Left out: the texts of the report and the percentage, the certificate   *)
(* and the digests.  The use of the client after its release when the      *)
(* version is the last invalid one is one of the failures.  Operators      *)
(* marked "mutant" are mistakes that no specification makes.               *)
(***************************************************************************)
EXTENDS Integers

CONSTANTS
  Tasks,      \* update tasks that may be alive at once
  Versions,   \* firmware versions that the server may offer
  Size,       \* blocks of an image
  Erased      \* what is in a block that holds no part of an image

Slots == {0, 1}

ASSUME OtaAssumption ==
  /\ Size \in Nat \ {0}
  /\ Versions # {}
  /\ Erased \notin Versions \X (1..Size)

VARIABLES
  at,         \* what each task does next; "none": it does not exist
  off,        \* blocks it has written
  version,    \* the version it downloads
  buffer,     \* ota_write_data: the block that was read last
  update,     \* OTA_update.state
  content,    \* the blocks of the two partitions
  running,    \* the partition that runs
  boot,       \* the one that the next start takes
  connected,  \* ws_server_client_state
  mixed       \* history: an update was asked for while another was under way
              \* or waiting for its restart

tasks == <<at, off, version>>
flash == <<content, running, boot>>
vars  == <<tasks, buffer, update, flash, connected, mixed>>

Steps  == {"open", "read", "check", "write", "end", "set_boot", "finish"}
Blocks == (Versions \X (1..Size)) \cup {Erased}

Image(v)  == [n \in 1..Size |-> <<v, n>>]
Whole(s)  == \E v \in Versions : content[s] = Image(v)

\* esp_ota_get_next_update_partition
TargetBoot == boot  \* mutant: the partition to be started is overwritten
Target == 1 - running

Alive == {t \in Tasks : at[t] # "none"}

Go(t, step) == at' = [at EXCEPT ![t] = step]

-----------------------------------------------------------------------------
(* A task.                                                                 *)

\* ota_start(): nothing asks whether an update is under way.
Start(t) ==
  /\ at[t] = "none"
  /\ Go(t, "open")
  /\ off' = [off EXCEPT ![t] = 0]
  /\ \E v \in Versions : version' = [version EXCEPT ![t] = v]
  /\ mixed' = (mixed \/ Alive # {} \/ boot # running)
  /\ UNCHANGED <<buffer, update, flash, connected>>

\* Every error ends the task and leaves the state as it is (task_fatal_error).
Fail(t) ==
  /\ at[t] \in Steps \ {"finish"}
  /\ Go(t, "none")
  /\ UNCHANGED <<off, version, buffer, update, flash, connected, mixed>>

Open(t) ==
  /\ at[t] = "open"
  /\ Go(t, "read")
  /\ UNCHANGED <<off, version, buffer, update, flash, connected, mixed>>

Read(t) ==
  /\ at[t] = "read"
  /\ buffer' = <<version[t], off[t] + 1>>
  /\ Go(t, IF off[t] = 0 THEN "check" ELSE "write")
  /\ UNCHANGED <<off, version, update, flash, connected, mixed>>

CheckSetsBoot(t) ==  \* mutant: the new image is chosen before it is there
  /\ at[t] = "check"
  /\ IF buffer = content[running][1]
     THEN Go(t, "none") /\ UNCHANGED <<update, boot>>
     ELSE Go(t, "write") /\ update' = "updating" /\ boot' = Target
  /\ UNCHANGED <<off, version, buffer, content, running, connected, mixed>>

\* The header of the first block tells the version: not the one that runs.
Check(t) ==
  /\ at[t] = "check"
  /\ IF buffer = content[running][1]
     THEN Go(t, "none") /\ UNCHANGED update
     ELSE Go(t, "write") /\ update' = "updating"
  /\ UNCHANGED <<off, version, buffer, flash, connected, mixed>>

\* esp_ota_write takes what is in the buffer by now, and may be cut off; where
\* a sector begins it erases the blocks that follow.
Write(t) ==
  /\ at[t] = "write"
  /\ LET n == off[t] + 1 IN
       /\ \E keep \in BOOLEAN, piece \in {buffer, Erased} :
            content' = [content EXCEPT ![Target] =
              [i \in 1..Size |-> IF i = n THEN piece
                                 ELSE IF i > n /\ ~keep THEN Erased
                                 ELSE content[Target][i]]]
       /\ off' = [off EXCEPT ![t] = n]
       /\ Go(t, IF n = Size THEN "end" ELSE "read")
  /\ UNCHANGED <<version, buffer, update, running, boot, connected, mixed>>

EndReports(t) ==  \* mutant: the update is reported before it takes effect
  /\ at[t] = "end"
  /\ Go(t, IF Whole(Target) THEN "set_boot" ELSE "none")
  /\ update' = IF Whole(Target) THEN "finish_update" ELSE update
  /\ UNCHANGED <<off, version, buffer, flash, connected, mixed>>

\* esp_ota_end validates the image.
End(t) ==
  /\ at[t] = "end"
  /\ Go(t, IF Whole(Target) THEN "set_boot" ELSE "none")
  /\ UNCHANGED <<off, version, buffer, update, flash, connected, mixed>>

\* esp_ota_set_boot_partition validates it once more.
SetBoot(t) ==
  /\ at[t] = "set_boot"
  /\ IF Whole(Target)
     THEN boot' = Target /\ Go(t, "finish")
     ELSE UNCHANGED boot /\ Go(t, "none")
  /\ UNCHANGED <<off, version, buffer, update, content, running, connected,
                 mixed>>

Finish(t) ==
  /\ at[t] = "finish"
  /\ update' = "finish_update"
  /\ Go(t, "none")
  /\ UNCHANGED <<off, version, buffer, flash, connected, mixed>>

TaskStep(t) ==
  \/ Open(t) \/ Read(t) \/ Check(t) \/ Write(t) \/ End(t) \/ SetBoot(t)
  \/ Finish(t)

-----------------------------------------------------------------------------
(* machine_run and the rest.                                               *)

ReportAlive ==  \* mutant: reported only while the task is still there
  /\ connected /\ Alive # {}
  /\ update = "finish_update"
  /\ update' = "idle"
  /\ UNCHANGED <<tasks, buffer, flash, connected, mixed>>

\* The end of an update is reported once, to a client that is connected.
Report ==
  /\ connected
  /\ update = "finish_update"
  /\ update' = "idle"
  /\ UNCHANGED <<tasks, buffer, flash, connected, mixed>>

ClientComesOrGoes ==
  /\ connected' = ~connected
  /\ UNCHANGED <<tasks, buffer, update, flash, mixed>>

\* All that is not in flash is lost.
Forget ==
  /\ at' = [t \in Tasks |-> "none"] /\ off' = [t \in Tasks |-> 0]
  /\ buffer' = Erased /\ update' = "idle" /\ connected' = FALSE
  /\ UNCHANGED <<version, content>>

\* $99 or a power failure.  The bootloader takes the other partition if the
\* one to be started is not whole.
Restart ==
  /\ Forget
  /\ running' \in {s \in Slots : Whole(s) /\ (s = boot \/ ~Whole(boot))}
  /\ mixed' = (mixed /\ ~Whole(boot))
  /\ UNCHANGED boot

\* $95:3, esp_ota_mark_app_invalid_rollback_and_reboot: the partition to be
\* started is given up for the other one.
MarkInvalid ==
  /\ Whole(1 - boot)
  /\ Forget
  /\ boot' = 1 - boot /\ running' = 1 - boot
  /\ mixed' = FALSE

-----------------------------------------------------------------------------

Init ==
  /\ at = [t \in Tasks |-> "none"] /\ off = [t \in Tasks |-> 0]
  /\ \E v \in Versions :
       /\ version = [t \in Tasks |-> v]
       /\ content = [s \in Slots |-> IF s = 0 THEN Image(v)
                                     ELSE [n \in 1..Size |-> Erased]]
  /\ buffer = Erased /\ update = "idle"
  /\ running = 0 /\ boot = 0
  /\ connected = FALSE /\ mixed = FALSE

Next ==
  \/ \E t \in Tasks : Start(t) \/ Fail(t) \/ TaskStep(t)
  \/ Report \/ ClientComesOrGoes \/ Restart \/ MarkInvalid

Spec == Init /\ [][Next]_vars

\* machine_run passes every second.  Nothing is assumed of the download.
FairSpec == Spec /\ WF_vars(Report)

-----------------------------------------------------------------------------
(* Properties.                                                             *)

TypeOK ==
  /\ at \in [Tasks -> Steps \cup {"none"}]
  /\ off \in [Tasks -> 0..Size] /\ version \in [Tasks -> Versions]
  /\ buffer \in Blocks
  /\ update \in {"idle", "updating", "finish_update"}
  /\ content \in [Slots -> [1..Size -> Blocks]]
  /\ running \in Slots /\ boot \in Slots
  /\ connected \in BOOLEAN /\ mixed \in BOOLEAN

\* Whatever fails, restarts or runs at the same time, there is always an image
\* that can be started: the one that runs is never written.
AlwaysBootable == Whole(running)

\* If updates are asked for one at a time, with a restart between them, the
\* partition to be started is whole at every moment.
BootIsWhole == ~mixed => Whole(boot)

\* ... and an update that counts as finished is the one that the next start
\* takes, whatever failed on the way.
FinishIsTrue ==
  update = "finish_update" /\ ~mixed => boot = Target /\ Whole(boot)

\* The end of an update is reported to a client that stays, also to one that
\* connects only later (acionna.cpp:2275).
FinishTold ==
  <>[]connected =>
    ((update = "finish_update" /\ ~mixed) ~> (update = "idle" \/ mixed))

=============================================================================
