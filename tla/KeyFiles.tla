-------------------------------- MODULE KeyFiles --------------------------------
(***************************************************************************)
(* The keys of the CLI and of the machine (crypto/src/lib.rs,              *)
(* machine/src/lib.rs, cli/src/lib.rs): a signing pair and a KEM pair,     *)
(* each in two files of a key directory or, if so configured, in the       *)
(* memory of the process.                                                  *)
(*                                                                         *)
(* Programs that share a key directory run at the same time and may end    *)
(* between any two file operations.  A key is the number of the            *)
(* generate_keypair that made it; Empty is a file that was created but not *)
(* written.                                                                *)
(***************************************************************************)
EXTENDS Naturals, Sequences

CONSTANTS
    Process,
    Program,    \* the programs that use the directory
    Modes,      \* the sets of kinds that a machine may be told to keep in memory
    MaxKeys,    \* bound: how many pairs are generated
    Absent      \* no file, no key

Empty == 0
Key == 1..MaxKeys
Kind == {"sign", "kem"}

\* A command of the CLI takes the signing pair for the manifest's id, then
\* FlatbufferClient::new takes both.
CliAsks == <<"sign", "sign", "kem">>

\* The machine takes the node's pair, the KEM pair and the key it advertises;
\* with --ephemeral the node's pair is a fresh one.
MachineAsks == <<"sign", "kem", "sign">>

\* What the programs ask for, in order.
Asks(program) ==
    CASE program = "cli" -> CliAsks
      [] program = "machine" -> MachineAsks
      [] program = "ephemeral" -> <<"kem", "sign">>

ASSUME KeyAssumption ==
    /\ MaxKeys \in Nat /\ Modes \in SUBSET SUBSET Kind /\ {} \in Modes
    /\ Program \in SUBSET {"cli", "machine", "ephemeral"}
    /\ Absent \notin Nat

VARIABLES
    files,       \* the two files of each kind
    generated,   \* how many pairs have been generated
    proc,        \* the running programs
    cell,        \* EPHEMERAL_SIGNING and EPHEMERAL_KEM of each process
    returned,    \* history: the pairs that calls got from files
    overlapped   \* history: the kinds that two processes were creating at once

vars == <<files, generated, proc, cell, returned, overlapped>>

Off == [program |-> "cli", next |-> 1, step |-> "off", memory |-> {}, key |-> Absent]
NoCell == [k \in Kind |-> Absent]

Init ==
    /\ files = [k \in Kind |-> [pub |-> Absent, priv |-> Absent]]
    /\ generated = 0
    /\ proc = [p \in Process |-> Off]
    /\ cell = [p \in Process |-> NoCell]
    /\ returned = [k \in Kind |-> {}]
    /\ overlapped = {}

Asked(p) == Asks(proc[p].program)[proc[p].next]

\* The node's own pair is kept in files whatever the configured modes.
InMemory(p) ==
    /\ Asked(p) \in proc[p].memory
    /\ ~(proc[p].program = "machine" /\ proc[p].next = 1)

\* Between the decision to generate and the end of the last write.
Creating(k) ==
    {p \in Process : /\ proc[p].step \in {"create", "pub_open", "pub_done", "priv_open"}
                     /\ Asked(p) = k}

\* The program starts; set_keypair_config says which kinds stay in memory.
Start(p, program, memory) ==
    /\ proc[p].step = "off"
    /\ program = "cli" => memory = {}
    /\ proc' = [proc EXCEPT ![p] = [program |-> program, next |-> 1, step |-> "ask",
                                    memory |-> memory, key |-> Absent]]
    /\ UNCHANGED <<files, generated, cell, returned, overlapped>>

\* The process after a call: it makes the next one, or is done with keys.
Resumed(p) ==
    IF proc[p].next < Len(Asks(proc[p].program))
    THEN [proc[p] EXCEPT !.step = "ask", !.key = Absent, !.next = @ + 1]
    ELSE [proc[p] EXCEPT !.step = "ready", !.key = Absent]

\* KeypairMode::Ephemeral: the pair of the process, generated at first use.
EnsureEphemeral(p) ==
    /\ proc[p].step = "ask" /\ InMemory(p)
    /\ \/ /\ cell[p][Asked(p)] # Absent
          /\ UNCHANGED <<cell, generated>>
       \/ /\ cell[p][Asked(p)] = Absent /\ generated < MaxKeys
          /\ cell' = [cell EXCEPT ![p][Asked(p)] = generated + 1]
          /\ generated' = generated + 1
    /\ proc' = [proc EXCEPT ![p] = Resumed(p)]
    /\ UNCHANGED <<files, returned, overlapped>>

PubOnly_Exists(k) == files[k].pub # Absent

Exists(k) == files[k].pub # Absent /\ files[k].priv # Absent

\* Both files are there: they will be read.
Found(p) ==
    /\ proc[p].step = "ask" /\ ~InMemory(p) /\ Exists(Asked(p))
    /\ proc' = [proc EXCEPT ![p].step = "found"]
    /\ UNCHANGED <<files, generated, cell, returned, overlapped>>

\* One is missing: a pair is generated in memory.
Generate(p) ==
    /\ proc[p].step = "ask" /\ ~InMemory(p) /\ ~Exists(Asked(p))
    /\ generated < MaxKeys
    /\ generated' = generated + 1
    /\ proc' = [proc EXCEPT ![p].step = "create", ![p].key = generated + 1]
    /\ overlapped' = IF Creating(Asked(p)) # {} THEN overlapped \union {Asked(p)} ELSE overlapped
    /\ UNCHANGED <<files, cell, returned>>

ReadPub(p) ==
    /\ proc[p].step = "found"
    /\ proc' = [proc EXCEPT ![p].step = "read", ![p].key = files[Asked(p)].pub]
    /\ UNCHANGED <<files, generated, cell, returned, overlapped>>

\* What was read is returned, unseen.
ReadPriv(p) ==
    /\ proc[p].step = "read"
    /\ returned' = [returned EXCEPT ![Asked(p)] =
                      @ \union {[pub |-> proc[p].key, priv |-> files[Asked(p)].priv]}]
    /\ proc' = [proc EXCEPT ![p] = Resumed(p)]
    /\ UNCHANGED <<files, generated, cell, overlapped>>

KeepsPub_OpenPub(p) ==
    /\ proc[p].step = "create"
    /\ files' = [files EXCEPT ![Asked(p)].pub = IF @ = Absent THEN Empty ELSE @]
    /\ proc' = [proc EXCEPT ![p].step = IF files[Asked(p)].pub = Absent THEN "pub_open" ELSE "pub_done"]
    /\ UNCHANGED <<generated, cell, returned, overlapped>>

\* fs::write opens the file, truncated, then writes.
OpenPub(p) ==
    /\ proc[p].step = "create"
    /\ files' = [files EXCEPT ![Asked(p)].pub = Empty]
    /\ proc' = [proc EXCEPT ![p].step = "pub_open"]
    /\ UNCHANGED <<generated, cell, returned, overlapped>>

WritePub(p) ==
    /\ proc[p].step = "pub_open"
    /\ files' = [files EXCEPT ![Asked(p)].pub = proc[p].key]
    /\ proc' = [proc EXCEPT ![p].step = "pub_done"]
    /\ UNCHANGED <<generated, cell, returned, overlapped>>

OpenPriv(p) ==
    /\ proc[p].step = "pub_done"
    /\ files' = [files EXCEPT ![Asked(p)].priv = Empty]
    /\ proc' = [proc EXCEPT ![p].step = "priv_open"]
    /\ UNCHANGED <<generated, cell, returned, overlapped>>

\* The generated pair is returned.
WritePriv(p) ==
    /\ proc[p].step = "priv_open"
    /\ files' = [files EXCEPT ![Asked(p)].priv = proc[p].key]
    /\ returned' = [returned EXCEPT ![Asked(p)] =
                      @ \union {[pub |-> proc[p].key, priv |-> proc[p].key]}]
    /\ proc' = [proc EXCEPT ![p] = Resumed(p)]
    /\ UNCHANGED <<generated, cell, overlapped>>

\* The program ends, on its own or in the middle of a call.
End(p) ==
    /\ proc[p].step # "off"
    /\ proc' = [proc EXCEPT ![p] = Off]
    /\ cell' = [cell EXCEPT ![p] = NoCell]
    /\ UNCHANGED <<files, generated, returned, overlapped>>

CallStep(p) ==
    \/ EnsureEphemeral(p) \/ Found(p) \/ Generate(p) \/ ReadPub(p) \/ ReadPriv(p)
    \/ OpenPub(p) \/ WritePub(p) \/ OpenPriv(p) \/ WritePriv(p)

Next ==
    \E p \in Process :
        \/ CallStep(p) \/ End(p)
        \/ \E program \in Program, memory \in Modes : Start(p, program, memory)

Spec == Init /\ [][Next]_vars
---------------------------------------------------------------------------------
Step == {"off", "ask", "ready", "found", "read", "create", "pub_open", "pub_done", "priv_open"}

ProcType ==
    [program : {"cli", "machine", "ephemeral"}, next : 1..3, step : Step,
     memory : SUBSET Kind, key : {Absent, Empty} \union Key]

\* Types; a call only ever gets a pair it read or generated, never a file that
\* is not there.
TypeOK ==
    /\ files \in [Kind -> [pub : {Absent, Empty} \union Key, priv : {Absent, Empty} \union Key]]
    /\ generated \in 0..MaxKeys
    /\ proc \in [Process -> ProcType]
    /\ cell \in [Process -> [Kind -> {Absent} \union Key]]
    /\ returned \in [Kind -> SUBSET [pub : {Empty} \union Key, priv : {Empty} \union Key]]
    /\ overlapped \in SUBSET Kind

\* Unless two processes create the pair at the same time, every call of every
\* program, before and after any interruption, gets the same public key, with
\* its own private key or with one that is not written yet: the owner in a
\* manifest's id, the signer of its requests and the key a machine advertises
\* are one ("Compute stable manifest_id from owning public key", ensure_keypair_on_disk).
OneKey ==
    \A k \in Kind \ overlapped : \A r, s \in returned[k] :
        r.pub = s.pub /\ r.priv \in {r.pub, Empty}
=================================================================================
