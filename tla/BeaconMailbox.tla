---------------------------- MODULE BeaconMailbox ----------------------------
(***************************************************************************)
(* How the peers that a beacon command prints get from the thread that     *)
(* waits for the command to the main loop: FutureResult in src/beacon.rs.  *)
(* A flag and a mutex-protected list are updated one after the other, so   *)
(* the threads and the main loop interleave between the two.  Chores says  *)
(* when the main loop gets here.                                           *)
(***************************************************************************)
EXTENDS Integers, FiniteSets

CONSTANT Reader          \* bound: commands whose peers can be told apart at a time

VARIABLES
    thread,      \* read_from_cmd: where the thread of each command is
    result,      \* future_peers.result; a command's peers are named by the command
    has_result,  \* future_peers.has_result
    main,        \* housekeep: before, in or after get_cmd_results
    taken,       \* what the main loop has swapped out and not returned yet
    loaded       \* the commands whose peers get_cmd_results has returned

mailbox == <<thread, result, has_result, main, taken, loaded>>

Empty == {}       \* Vec::new(); a list is the set of the commands whose peers it holds

MailInit ==
    /\ thread = [r \in Reader |-> "unused"]
    /\ result = Empty
    /\ has_result = FALSE
    /\ main = "idle"
    /\ taken = Empty
    /\ loaded = {}

Running == {r \in Reader : thread[r] # "unused"}

-----------------------------------------------------------------------------
(* read_from_cmd.                                                           *)

\* load_beacon starts a command; its name is one that no list has any more.
read_from_cmd(r) ==
    /\ main = "beacon" /\ thread[r] = "unused" /\ r \notin result
    /\ thread' = [thread EXCEPT ![r] = "command"]
    /\ loaded' = loaded \ {r}
    /\ main' = "idle"
    /\ UNCHANGED <<result, has_result, taken>>

\* The command fails: the thread logs the error and ends.
CommandFails(r) ==
    /\ thread[r] = "command"
    /\ thread' = [thread EXCEPT ![r] = "unused"]
    /\ UNCHANGED <<result, has_result, main, taken, loaded>>

\* The command succeeds: its peers replace the list that is there.
SwapIn(r) ==
    /\ thread[r] = "command"
    /\ thread' = [thread EXCEPT ![r] = "swapped"]
    /\ result' = {r}
    /\ UNCHANGED <<has_result, main, taken, loaded>>

\* Mutant: the flag is not set.
StoreTrueNever(r) ==
    /\ thread[r] = "swapped"
    /\ thread' = [thread EXCEPT ![r] = "unused"]
    /\ UNCHANGED <<result, has_result, main, taken, loaded>>

StoreTrue(r) ==
    /\ thread[r] = "swapped"
    /\ thread' = [thread EXCEPT ![r] = "unused"]
    /\ has_result' = TRUE
    /\ UNCHANGED <<result, main, taken, loaded>>

ReaderStep(r) == CommandFails(r) \/ SwapIn(r) \/ StoreTrue(r)

-----------------------------------------------------------------------------
(* get_cmd_results, from housekeep.                                         *)

LoadFlag ==
    /\ main = "idle"
    /\ main' = IF has_result THEN "swap" ELSE "beacon"
    /\ UNCHANGED <<thread, result, has_result, taken, loaded>>

\* Mutant: the list is copied and stays in the mailbox.
SwapOutCopy ==
    /\ main = "swap"
    /\ taken' = result
    /\ main' = "store"
    /\ UNCHANGED <<thread, result, has_result, loaded>>

SwapOut ==
    /\ main = "swap"
    /\ taken' = result /\ result' = Empty
    /\ main' = "store"
    /\ UNCHANGED <<thread, has_result, loaded>>

\* The list is returned; housekeep connects to each of its peers, and ends if
\* that fails.
StoreFalse(connected) ==
    /\ main = "store"
    /\ has_result' = FALSE
    /\ loaded' = loaded \cup taken /\ taken' = Empty
    /\ main' = IF connected THEN "beacon" ELSE "idle"
    /\ UNCHANGED <<thread, result>>

\* housekeep ends without starting a command.
NoCommand ==
    /\ main = "beacon" /\ main' = "idle"
    /\ UNCHANGED <<thread, result, has_result, taken, loaded>>

-----------------------------------------------------------------------------
MailTypeOK ==
    /\ thread \in [Reader -> {"unused", "command", "swapped"}]
    /\ result \in SUBSET Reader /\ taken \in SUBSET Reader /\ loaded \in SUBSET Reader
    /\ has_result \in BOOLEAN
    /\ main \in {"idle", "swap", "store", "beacon"}

\* However the threads and the main loop interleave, the peers of a command
\* are in one place at most: in the mailbox, in the hands of the main loop, or
\* returned by one call of get_cmd_results.  housekeep never connects twice to
\* the peers of one command.  The mailbox is well typed.
InOnePlace ==
    /\ MailTypeOK
    /\ result \cap taken = {}
    /\ (result \cup taken) \cap loaded = {}
=============================================================================
