----------------------------- MODULE KeyFilesProofs -----------------------------
(***************************************************************************)
(* Every call gets the same key, for any processes, programs and modes.    *)
(* The argument: the private file is opened last and never truncated       *)
(* unless two processes create at once, so once it is there the public     *)
(* file is complete and nobody will generate again; before it is there     *)
(* nobody has been given a key.                                            *)
(***************************************************************************)
EXTENDS KeyFiles, TLAPS

Asks_OK == \A p \in Process : proc[p].next \in 1..Len(Asks(proc[p].program))

\* Files that a process has found do not vanish.
Present ==
    \A p \in Process :
        /\ proc[p].step \in {"found", "read"} =>
              files[Asked(p)].pub # Absent /\ files[Asked(p)].priv # Absent
        /\ proc[p].step = "read" => proc[p].key # Absent
        /\ proc[p].step \in {"create", "pub_open", "pub_done", "priv_open"} => proc[p].key \in Key

Single(k) == \A p, q \in Creating(k) : p = q

Unborn(k) ==
    /\ returned[k] = {}
    /\ \A p \in Process : Asked(p) = k =>
          /\ proc[p].step \notin {"found", "read", "priv_open"}
          /\ proc[p].step = "pub_done" => files[k].pub = proc[p].key

Born(k) ==
    /\ files[k].pub \in Key
    /\ files[k].priv \in {files[k].pub, Empty}
    /\ \A r \in returned[k] : r.pub = files[k].pub /\ r.priv \in {r.pub, Empty}
    /\ \A p \in Process : Asked(p) = k =>
          /\ proc[p].step \notin {"create", "pub_open", "pub_done"}
          /\ proc[p].step \in {"read", "priv_open"} => proc[p].key = files[k].pub

Sound(k) == IF files[k].priv = Absent THEN Unborn(k) ELSE Born(k)

IInv ==
    /\ TypeOK
    /\ Asks_OK
    /\ Present
    /\ \A k \in Kind \ overlapped : Single(k) /\ Sound(k)

Mark == {Absent, Empty} \union Key

LEMMA AskedKind ==
    ASSUME IInv, NEW p \in Process
    PROVE  Asked(p) \in Kind
<1>1. proc[p].program \in {"cli", "machine", "ephemeral"}
  BY DEF IInv, TypeOK, ProcType
<1>2. proc[p].next \in 1..Len(Asks(proc[p].program))
  BY DEF IInv, Asks_OK
<1>3. CASE proc[p].program = "cli"
  <2>1. Asks(proc[p].program) = <<"sign", "sign", "kem">>
    BY <1>3 DEF Asks, CliAsks, MachineAsks
  <2> QED BY <1>2, <2>1 DEF Asked, Kind
<1>4. CASE proc[p].program = "machine"
  <2>1. Asks(proc[p].program) = <<"sign", "kem", "sign">>
    BY <1>4 DEF Asks, CliAsks, MachineAsks
  <2> QED BY <1>2, <2>1 DEF Asked, Kind
<1>5. CASE proc[p].program = "ephemeral"
  <2>1. Asks(proc[p].program) = <<"kem", "sign">>
    BY <1>5 DEF Asks, CliAsks, MachineAsks
  <2> QED BY <1>2, <2>1 DEF Asked, Kind
<1> QED BY <1>1, <1>3, <1>4, <1>5

LEMMA AsksLength ==
    ASSUME NEW program \in {"cli", "machine", "ephemeral"}
    PROVE  Len(Asks(program)) \in 2..3 /\ 1 \in 1..Len(Asks(program))
<1>1. CASE program = "cli"
  <2>1. Asks(program) = <<"sign", "sign", "kem">>
    BY <1>1 DEF Asks, CliAsks, MachineAsks
  <2> QED BY <2>1
<1>2. CASE program = "machine"
  <2>1. Asks(program) = <<"sign", "kem", "sign">>
    BY <1>2 DEF Asks, CliAsks, MachineAsks
  <2> QED BY <2>1
<1>3. CASE program = "ephemeral"
  <2>1. Asks(program) = <<"kem", "sign">>
    BY <1>3 DEF Asks, CliAsks, MachineAsks
  <2> QED BY <2>1
<1> QED BY <1>1, <1>2, <1>3

LEMMA Update ==
    ASSUME NEW f \in [Process -> ProcType], NEW p \in Process, NEW r \in ProcType
    PROVE  /\ [f EXCEPT ![p] = r] \in [Process -> ProcType]
           /\ [f EXCEPT ![p] = r][p] = r
           /\ \A q \in Process \ {p} : [f EXCEPT ![p] = r][q] = f[q]
OBVIOUS

\* A step within a call: p goes to step s with key v, the others stay.
LEMMA Stepped ==
    ASSUME IInv, NEW p \in Process, NEW s \in Step, NEW v \in Mark,
           proc' = [proc EXCEPT ![p] = [proc[p] EXCEPT !.step = s, !.key = v]]
    PROVE  /\ proc' \in [Process -> ProcType]
           /\ proc'[p].step = s /\ proc'[p].key = v
           /\ Asks_OK'
           /\ \A q \in Process : Asked(q)' = Asked(q)
           /\ \A q \in Process \ {p} : proc'[q] = proc[q]
<1> DEFINE r == [proc[p] EXCEPT !.step = s, !.key = v]
<1>1. proc \in [Process -> ProcType] /\ proc[p] \in ProcType
  BY DEF IInv, TypeOK
<1>2. /\ r \in ProcType /\ r.step = s /\ r.key = v
      /\ r.program = proc[p].program /\ r.next = proc[p].next
  BY <1>1, Zenon DEF ProcType, Mark
<1>3. /\ proc' \in [Process -> ProcType] /\ proc'[p] = r
      /\ \A q \in Process \ {p} : proc'[q] = proc[q]
  <2> HIDE DEF r
  <2>1. proc' = [proc EXCEPT ![p] = r]
    BY DEF r
  <2> QED BY <1>1, <1>2, <2>1, Update
<1>4. \A q \in Process : proc'[q].program = proc[q].program /\ proc'[q].next = proc[q].next
  <2> HIDE DEF r
  <2> QED BY <1>2, <1>3
<1>5. Asks_OK'
  BY <1>4 DEF IInv, Asks_OK
<1>6. \A q \in Process : Asked(q)' = Asked(q)
  BY <1>4 DEF Asked
<1> QED BY <1>2, <1>3, <1>5, <1>6

\* p is between calls after the step, or gone, and the others stay.
Quiet(p) ==
    /\ proc' \in [Process -> ProcType]
    /\ proc'[p].step \in {"off", "ask", "ready"}
    /\ Asks_OK'
    /\ \A q \in Process \ {p} : proc'[q] = proc[q] /\ Asked(q)' = Asked(q)

LEMMA Rested ==
    ASSUME IInv, NEW p \in Process, NEW r \in ProcType,
           r.step \in {"off", "ask", "ready"}, r.next \in 1..Len(Asks(r.program)),
           proc' = [proc EXCEPT ![p] = r]
    PROVE  Quiet(p)
<1>1. /\ proc' \in [Process -> ProcType] /\ proc'[p] = r
      /\ \A q \in Process \ {p} : proc'[q] = proc[q]
  BY Update DEF IInv, TypeOK
<1>2. Asks_OK'
  BY <1>1 DEF IInv, Asks_OK
<1>3. \A q \in Process \ {p} : Asked(q)' = Asked(q)
  BY <1>1 DEF Asked
<1> QED BY <1>1, <1>2, <1>3 DEF Quiet

LEMMA AfterCall ==
    ASSUME IInv, NEW p \in Process
    PROVE  /\ Resumed(p) \in ProcType
           /\ Resumed(p).step \in {"off", "ask", "ready"}
           /\ Resumed(p).next \in 1..Len(Asks(Resumed(p).program))
<1>1. proc[p] \in ProcType /\ proc[p].next \in 1..Len(Asks(proc[p].program))
  BY DEF IInv, TypeOK, Asks_OK
<1>2. Len(Asks(proc[p].program)) \in 2..3
  BY <1>1, AsksLength DEF ProcType
<1>3. CASE proc[p].next < Len(Asks(proc[p].program))
  <2>1. Resumed(p) = [proc[p] EXCEPT !.step = "ask", !.key = Absent, !.next = @ + 1]
    BY <1>3 DEF Resumed
  <2>2. /\ Resumed(p).program = proc[p].program /\ Resumed(p).next = proc[p].next + 1
        /\ Resumed(p).step = "ask"
    BY <1>1, <2>1 DEF ProcType
  <2>3. proc[p].next + 1 \in 1..3
    <3> DEFINE n == proc[p].next
               len == Len(Asks(proc[p].program))
    <3>1. n \in 1..len /\ len \in 2..3 /\ n < len
      BY <1>1, <1>2, <1>3
    <3> HIDE DEF n, len
    <3>2. n + 1 \in 1..3
      BY <3>1
    <3> QED BY <3>2 DEF n
  <2>4. Resumed(p) \in ProcType
    BY <1>1, <2>1, <2>3, Zenon DEF ProcType, Step
  <2> QED BY <1>1, <1>2, <1>3, <2>2, <2>4 DEF ProcType
<1>4. CASE ~(proc[p].next < Len(Asks(proc[p].program)))
  <2>1. Resumed(p) = [proc[p] EXCEPT !.step = "ready", !.key = Absent]
    BY <1>4 DEF Resumed
  <2>2. /\ Resumed(p).program = proc[p].program /\ Resumed(p).next = proc[p].next
        /\ Resumed(p).step = "ready"
    BY <1>1, <2>1 DEF ProcType
  <2>3. Resumed(p) \in ProcType
    BY <1>1, <2>1, Zenon DEF ProcType, Step
  <2> QED BY <1>1, <2>2, <2>3
<1> QED BY <1>3, <1>4

\* A process that comes to rest disturbs nothing.
LEMMA QuietKeeps ==
    ASSUME IInv, NEW p \in Process, Quiet(p),
           generated' \in 0..MaxKeys, cell' \in [Process -> [Kind -> {Absent} \union Key]],
           files' = files, returned' = returned, overlapped' = overlapped
    PROVE  IInv'
<1>1. TypeOK'
  BY DEF IInv, TypeOK, Quiet
<1>2. Asks_OK'
  BY DEF Quiet
<1>3. Present'
  BY DEF IInv, Present, Quiet
<1>4. ASSUME NEW k \in Kind \ overlapped PROVE Single(k)' /\ Sound(k)'
  <2>1. Single(k) /\ Sound(k)
    BY DEF IInv
  <2>2. Creating(k)' \subseteq Creating(k)
    BY DEF Creating, Quiet
  <2>3. Single(k)'
    BY <2>1, <2>2 DEF Single
  <2>4. Unborn(k) => Unborn(k)'
    BY DEF Unborn, Quiet
  <2>5. Born(k) => Born(k)'
    BY DEF Born, Quiet
  <2> QED BY <2>1, <2>3, <2>4, <2>5 DEF Sound
<1> QED BY <1>1, <1>2, <1>3, <1>4 DEF IInv

LEMMA InitIInv == Init => IInv
<1> SUFFICES ASSUME Init PROVE IInv
  OBVIOUS
<1> USE KeyAssumption DEF Init
<1>1. Off \in ProcType /\ Off.program = "cli" /\ Off.next = 1 /\ Off.step = "off"
  BY DEF Off, ProcType, Step
<1>2. \A p \in Process : proc[p] = Off
  OBVIOUS
<1>3. TypeOK
  <2>1. proc \in [Process -> ProcType]
    BY <1>1
  <2>2. cell \in [Process -> [Kind -> {Absent} \union Key]]
    BY DEF NoCell
  <2>3. generated \in 0..MaxKeys
    OBVIOUS
  <2> QED BY <2>1, <2>2, <2>3 DEF TypeOK
<1>4. Asks_OK
  <2>1. 1 \in 1..Len(Asks("cli"))
    BY AsksLength
  <2> QED BY <1>1, <1>2, <2>1 DEF Asks_OK
<1>5. Present
  BY <1>1, <1>2 DEF Present
<1>6. ASSUME NEW k \in Kind PROVE Single(k) /\ Sound(k)
  <2>1. Creating(k) = {}
    BY <1>1, <1>2 DEF Creating
  <2>2. Unborn(k)
    BY <1>1, <1>2 DEF Unborn
  <2>3. files[k].priv = Absent
    OBVIOUS
  <2> QED BY <2>1, <2>2, <2>3 DEF Single, Sound
<1> QED BY <1>3, <1>4, <1>5, <1>6 DEF IInv

LEMMA StartKeeps ==
    ASSUME IInv, NEW p \in Process, NEW program \in Program, NEW memory \in Modes,
           Start(p, program, memory)
    PROVE  IInv'
<1> DEFINE r == [program |-> program, next |-> 1, step |-> "ask",
                 memory |-> memory, key |-> Absent]
<1>1. /\ r \in ProcType /\ r.step = "ask" /\ r.next = 1 /\ r.program = program
      /\ program \in {"cli", "machine", "ephemeral"}
  <2>1. program \in {"cli", "machine", "ephemeral"} /\ memory \in SUBSET Kind
    BY KeyAssumption, Zenon
  <2> QED BY <2>1 DEF ProcType, Step
<1>2. proc' = [proc EXCEPT ![p] = r]
  BY DEF Start
<1> HIDE DEF r
<1>3. 1 \in 1..Len(Asks(program))
  BY <1>1, AsksLength
<1>4. Quiet(p)
  BY <1>1, <1>2, <1>3, Rested, Zenon
<1>5. generated' \in 0..MaxKeys /\ cell' \in [Process -> [Kind -> {Absent} \union Key]]
  BY DEF Start, IInv, TypeOK
<1> QED BY <1>4, <1>5, QuietKeeps DEF Start

LEMMA EndKeeps ==
    ASSUME IInv, NEW p \in Process, End(p)
    PROVE  IInv'
<1>1. Off \in ProcType /\ Off.program = "cli" /\ Off.next = 1 /\ Off.step = "off"
  BY DEF Off, ProcType, Step
<1>2. 1 \in 1..Len(Asks("cli"))
  BY AsksLength
<1>3. Quiet(p)
  BY <1>1, <1>2, Rested, Zenon DEF End
<1>4. generated' \in 0..MaxKeys /\ cell' \in [Process -> [Kind -> {Absent} \union Key]]
  BY DEF End, IInv, TypeOK, NoCell
<1> QED BY <1>3, <1>4, QuietKeeps DEF End

LEMMA EphemeralKeeps ==
    ASSUME IInv, NEW p \in Process, EnsureEphemeral(p)
    PROVE  IInv'
<1>1. Quiet(p)
  BY AfterCall, Rested, Zenon DEF EnsureEphemeral
<1>2. generated' \in 0..MaxKeys /\ cell' \in [Process -> [Kind -> {Absent} \union Key]]
  <2> DEFINE k == Asked(p)
  <2>1. /\ k \in Kind /\ generated \in 0..MaxKeys
        /\ cell \in [Process -> [Kind -> {Absent} \union Key]]
    BY AskedKind DEF IInv, TypeOK
  <2>2. CASE cell' = cell /\ generated' = generated
    BY <2>1, <2>2
  <2>3. CASE /\ generated < MaxKeys /\ generated' = generated + 1
             /\ cell' = [cell EXCEPT ![p][k] = generated + 1]
    <3> HIDE DEF k
    <3>1. generated + 1 \in Key /\ generated + 1 \in 0..MaxKeys
      BY <2>1, <2>3, KeyAssumption DEF Key
    <3> QED BY <2>1, <2>3, <3>1
  <2> QED BY <2>2, <2>3 DEF EnsureEphemeral
<1> QED BY <1>1, <1>2, QuietKeeps DEF EnsureEphemeral

LEMMA FoundKeeps ==
    ASSUME IInv, NEW p \in Process, Found(p)
    PROVE  IInv'
<1>1. proc[p] \in ProcType /\ proc[p].key \in Mark /\ proc[p].step = "ask"
  BY DEF IInv, TypeOK, ProcType, Mark, Found
<1>2. proc' = [proc EXCEPT ![p] = [proc[p] EXCEPT !.step = "found", !.key = proc[p].key]]
  BY <1>1, Zenon DEF Found, IInv, TypeOK, ProcType
<1>3. "found" \in Step
  BY DEF Step
<1>4. /\ proc' \in [Process -> ProcType] /\ proc'[p].step = "found" /\ Asks_OK'
      /\ \A q \in Process : Asked(q)' = Asked(q)
      /\ \A q \in Process \ {p} : proc'[q] = proc[q]
  BY <1>1, <1>2, <1>3, Stepped
<1>5. files' = files /\ returned' = returned /\ overlapped' = overlapped
  BY DEF Found
<1>6. files[Asked(p)].pub # Absent /\ files[Asked(p)].priv # Absent
  BY DEF Found, Exists
<1>7. TypeOK'
  BY <1>4, <1>5 DEF Found, IInv, TypeOK
<1>8. Present'
  BY <1>4, <1>5, <1>6 DEF IInv, Present
<1>9. ASSUME NEW k \in Kind \ overlapped PROVE Single(k)' /\ Sound(k)'
  <2>1. Single(k) /\ Sound(k)
    BY DEF IInv
  <2>2. Creating(k)' \subseteq Creating(k)
    BY <1>4 DEF Creating
  <2>3. files[k].priv = Absent => Asked(p) # k
    BY <1>6
  <2>4. files[k].priv = Absent /\ Unborn(k) => Unborn(k)'
    BY <1>4, <1>5, <2>3 DEF Unborn
  <2>5. Born(k) => Born(k)'
    BY <1>4, <1>5 DEF Born
  <2> QED BY <1>5, <2>1, <2>2, <2>4, <2>5 DEF Sound, Single
<1> QED BY <1>4, <1>5, <1>7, <1>8, <1>9 DEF IInv

LEMMA ReadPubKeeps ==
    ASSUME IInv, NEW p \in Process, ReadPub(p)
    PROVE  IInv'
<1> DEFINE a == Asked(p)
           v == files[a].pub
<1>1. /\ a \in Kind /\ v \in Mark /\ v # Absent /\ files[a].priv # Absent
      /\ proc \in [Process -> ProcType] /\ proc[p].step = "found"
  BY AskedKind DEF IInv, TypeOK, Present, Mark, ReadPub
<1>2. proc' = [proc EXCEPT ![p] = [proc[p] EXCEPT !.step = "read", !.key = v]]
  BY <1>1, Zenon DEF ReadPub
<1> HIDE DEF v
<1>3. "read" \in Step
  BY DEF Step
<1>4. /\ proc' \in [Process -> ProcType] /\ proc'[p].step = "read" /\ proc'[p].key = v
      /\ Asks_OK'
      /\ \A q \in Process : Asked(q)' = Asked(q)
      /\ \A q \in Process \ {p} : proc'[q] = proc[q]
  BY <1>1, <1>2, <1>3, Stepped
<1>5. files' = files /\ returned' = returned /\ overlapped' = overlapped
  BY DEF ReadPub
<1>6. TypeOK'
  BY <1>4, <1>5 DEF ReadPub, IInv, TypeOK
<1>7. Present'
  BY <1>1, <1>4, <1>5 DEF IInv, Present
<1>8. ASSUME NEW k \in Kind \ overlapped PROVE Single(k)' /\ Sound(k)'
  <2>1. Single(k) /\ Sound(k)
    BY DEF IInv
  <2>2. Creating(k)' \subseteq Creating(k)
    BY <1>4 DEF Creating
  <2>3. Single(k)'
    BY <2>1, <2>2 DEF Single
  <2>4. files[k].priv = Absent /\ Unborn(k) => Unborn(k)'
    BY <1>1, <1>4, <1>5 DEF Unborn
  <2>5. Born(k) => Born(k)'
    BY <1>4, <1>5 DEF Born, v
  <2> QED BY <1>5, <2>1, <2>3, <2>4, <2>5 DEF Sound
<1> QED BY <1>4, <1>5, <1>6, <1>7, <1>8 DEF IInv

LEMMA GenerateKeeps ==
    ASSUME IInv, NEW p \in Process, Generate(p)
    PROVE  IInv'
<1> DEFINE a == Asked(p)
           v == generated + 1
<1>1. /\ a \in Kind /\ v \in Key /\ v \in 0..MaxKeys /\ v \in Mark
      /\ proc \in [Process -> ProcType] /\ proc[p].step = "ask"
  BY AskedKind, KeyAssumption DEF IInv, TypeOK, Mark, Key, Generate
<1>2. proc' = [proc EXCEPT ![p] = [proc[p] EXCEPT !.step = "create", !.key = v]]
  BY <1>1, Zenon DEF Generate
<1>3. generated' = v
  BY DEF Generate
<1> HIDE DEF v
<1>4. "create" \in Step
  BY DEF Step
<1>5. /\ proc' \in [Process -> ProcType] /\ proc'[p].step = "create" /\ proc'[p].key = v
      /\ Asks_OK'
      /\ \A q \in Process : Asked(q)' = Asked(q)
      /\ \A q \in Process \ {p} : proc'[q] = proc[q]
  BY <1>1, <1>2, <1>4, Stepped
<1>6. /\ files' = files /\ returned' = returned /\ cell' = cell
      /\ overlapped' \in SUBSET Kind /\ overlapped \subseteq overlapped'
  BY <1>1 DEF Generate, IInv, TypeOK
<1>7. TypeOK'
  BY <1>1, <1>3, <1>5, <1>6 DEF IInv, TypeOK
<1>8. Present'
  BY <1>1, <1>5, <1>6 DEF IInv, Present
<1>9. ASSUME NEW k \in Kind \ overlapped' PROVE Single(k)' /\ Sound(k)'
  <2>1. Single(k) /\ Sound(k)
    BY <1>6 DEF IInv
  <2>2. CASE k # a
    <3>1. Creating(k)' \subseteq Creating(k)
      BY <1>5, <2>2 DEF Creating
    <3>2. Single(k)'
      BY <2>1, <3>1 DEF Single
    <3>3. Unborn(k) => Unborn(k)'
      BY <1>5, <1>6, <2>2 DEF Unborn
    <3>4. Born(k) => Born(k)'
      BY <1>5, <1>6, <2>2 DEF Born
    <3> QED BY <1>6, <2>1, <3>2, <3>3, <3>4 DEF Sound
  <2>3. CASE k = a
    <3>1. Creating(k) = {}
      BY <2>3 DEF Generate
    <3>2. Creating(k)' \subseteq {p}
      BY <1>5, <3>1 DEF Creating
    <3>3. ~Born(k)
      <4>1. ~Exists(k)
        BY <2>3 DEF Generate
      <4> QED BY <2>1, <4>1, KeyAssumption DEF Born, Exists, Key, Sound, Empty
    <3>4. files[k].priv = Absent /\ Unborn(k)
      BY <2>1, <3>3 DEF Sound
    <3>5. Unborn(k)'
      BY <1>5, <1>6, <3>4 DEF Unborn
    <3> QED BY <1>6, <3>2, <3>4, <3>5 DEF Single, Sound
  <2> QED BY <2>2, <2>3
<1> QED BY <1>5, <1>6, <1>7, <1>8, <1>9 DEF IInv

LEMMA OpenPubKeeps ==
    ASSUME IInv, NEW p \in Process, OpenPub(p)
    PROVE  IInv'
<1> DEFINE a == Asked(p)
           v == proc[p].key
<1>1. /\ a \in Kind /\ v \in Key /\ v \in Mark
      /\ proc \in [Process -> ProcType] /\ proc[p] \in ProcType /\ proc[p].step = "create"
  BY AskedKind DEF IInv, TypeOK, Present, Mark, OpenPub
<1>2. proc' = [proc EXCEPT ![p] = [proc[p] EXCEPT !.step = "pub_open", !.key = v]]
  BY <1>1, Zenon DEF OpenPub, ProcType
<1>3. "pub_open" \in Step
  BY DEF Step
<1>4. /\ proc' \in [Process -> ProcType] /\ proc'[p].step = "pub_open" /\ proc'[p].key = v
      /\ Asks_OK'
      /\ \A q \in Process : Asked(q)' = Asked(q)
      /\ \A q \in Process \ {p} : proc'[q] = proc[q]
  BY <1>1, <1>2, <1>3, Stepped
<1> HIDE DEF a, v
<1>5. /\ files' \in [Kind -> [pub : Mark, priv : Mark]]
      /\ files'[a].pub = Empty /\ files'[a].priv = files[a].priv
      /\ \A k \in Kind \ {a} : files'[k] = files[k]
  BY <1>1 DEF OpenPub, IInv, TypeOK, Mark, a, v
<1>6. returned' = returned /\ overlapped' = overlapped /\ generated' = generated /\ cell' = cell
  BY DEF OpenPub
<1>7. TypeOK'
  BY <1>4, <1>5, <1>6 DEF IInv, TypeOK, Mark
<1>8. Present'
  <2>1. Empty # Absent
    BY <1>1, KeyAssumption DEF Empty, Key
  <2>2. \A q \in Process : Asked(q) \in Kind
    BY AskedKind
  <2> QED BY <1>1, <1>4, <1>5, <2>1, <2>2 DEF IInv, Present
<1>9. ASSUME NEW k \in Kind \ overlapped PROVE Single(k)' /\ Sound(k)'
  <2>1. Single(k) /\ Sound(k)
    BY DEF IInv
  <2>2. Creating(k)' = Creating(k)
    BY <1>1, <1>4 DEF Creating
  <2>3. Single(k)'
    BY <2>1, <2>2 DEF Single
  <2>4. CASE k # a
    <3>1. files'[k] = files[k]
      BY <1>5, <2>4
    <3>2. Unborn(k) => Unborn(k)'
      BY <1>4, <1>6, <2>4, <3>1 DEF Unborn, a
    <3>3. Born(k) => Born(k)'
      BY <1>4, <1>6, <2>4, <3>1 DEF Born, a
    <3> QED BY <2>1, <2>3, <3>1, <3>2, <3>3 DEF Sound
  <2>5. CASE k = a
    <3>1. p \in Creating(k)
      BY <1>1, <2>5 DEF Creating, a
    <3>2. \A q \in Process \ {p} : Asked(q) = k =>
             proc[q].step \notin {"create", "pub_open", "pub_done", "priv_open"}
      BY <2>1, <3>1 DEF Single, Creating
    <3>3. files[k].priv = Absent /\ Unborn(k)
      BY <1>1, <2>1, <2>5 DEF Sound, Born, a
    <3>4. Unborn(k)'
      BY <1>4, <1>5, <1>6, <2>5, <3>2, <3>3 DEF Unborn, a
    <3> QED BY <1>5, <2>3, <2>5, <3>3, <3>4 DEF Sound
  <2> QED BY <2>4, <2>5
<1> QED BY <1>4, <1>6, <1>7, <1>8, <1>9 DEF IInv

LEMMA WritePubKeeps ==
    ASSUME IInv, NEW p \in Process, WritePub(p)
    PROVE  IInv'
<1> DEFINE a == Asked(p)
           v == proc[p].key
<1>1. /\ a \in Kind /\ v \in Key /\ v \in Mark
      /\ proc \in [Process -> ProcType] /\ proc[p] \in ProcType /\ proc[p].step = "pub_open"
  BY AskedKind DEF IInv, TypeOK, Present, Mark, WritePub
<1>2. proc' = [proc EXCEPT ![p] = [proc[p] EXCEPT !.step = "pub_done", !.key = v]]
  BY <1>1, Zenon DEF WritePub, ProcType
<1>3. "pub_done" \in Step
  BY DEF Step
<1>4. /\ proc' \in [Process -> ProcType] /\ proc'[p].step = "pub_done" /\ proc'[p].key = v
      /\ Asks_OK'
      /\ \A q \in Process : Asked(q)' = Asked(q)
      /\ \A q \in Process \ {p} : proc'[q] = proc[q]
  BY <1>1, <1>2, <1>3, Stepped
<1> HIDE DEF a, v
<1>5. /\ files' \in [Kind -> [pub : Mark, priv : Mark]]
      /\ files'[a].pub = v /\ files'[a].priv = files[a].priv
      /\ \A k \in Kind \ {a} : files'[k] = files[k]
  BY <1>1, Zenon DEF WritePub, IInv, TypeOK, Mark, a, v
<1>6. returned' = returned /\ overlapped' = overlapped /\ generated' = generated /\ cell' = cell
  BY DEF WritePub
<1>7. TypeOK'
  BY <1>4, <1>5, <1>6 DEF IInv, TypeOK, Mark
<1>8. Present'
  <2>1. v # Absent
    BY <1>1, KeyAssumption DEF Empty, Key
  <2>2. \A q \in Process : Asked(q) \in Kind
    BY AskedKind
  <2> QED BY <1>1, <1>4, <1>5, <2>1, <2>2 DEF IInv, Present
<1>9. ASSUME NEW k \in Kind \ overlapped PROVE Single(k)' /\ Sound(k)'
  <2>1. Single(k) /\ Sound(k)
    BY DEF IInv
  <2>2. Creating(k)' = Creating(k)
    BY <1>1, <1>4 DEF Creating
  <2>3. Single(k)'
    BY <2>1, <2>2 DEF Single
  <2>4. CASE k # a
    <3>1. files'[k] = files[k]
      BY <1>5, <2>4
    <3>2. Unborn(k) => Unborn(k)'
      BY <1>4, <1>6, <2>4, <3>1 DEF Unborn, a
    <3>3. Born(k) => Born(k)'
      BY <1>4, <1>6, <2>4, <3>1 DEF Born, a
    <3> QED BY <2>1, <2>3, <3>1, <3>2, <3>3 DEF Sound
  <2>5. CASE k = a
    <3>1. p \in Creating(k)
      BY <1>1, <2>5 DEF Creating, a
    <3>2. \A q \in Process \ {p} : Asked(q) = k =>
             proc[q].step \notin {"create", "pub_open", "pub_done", "priv_open"}
      BY <2>1, <3>1 DEF Single, Creating
    <3>3. files[k].priv = Absent /\ Unborn(k)
      BY <1>1, <2>1, <2>5 DEF Sound, Born, a
    <3>4. Unborn(k)'
      BY <1>4, <1>5, <1>6, <2>5, <3>2, <3>3 DEF Unborn, a
    <3> QED BY <1>5, <2>3, <2>5, <3>3, <3>4 DEF Sound
  <2> QED BY <2>4, <2>5
<1> QED BY <1>4, <1>6, <1>7, <1>8, <1>9 DEF IInv

LEMMA OpenPrivKeeps ==
    ASSUME IInv, NEW p \in Process, OpenPriv(p)
    PROVE  IInv'
<1> DEFINE a == Asked(p)
           v == proc[p].key
<1>1. /\ a \in Kind /\ v \in Key /\ v \in Mark
      /\ proc \in [Process -> ProcType] /\ proc[p] \in ProcType /\ proc[p].step = "pub_done"
  BY AskedKind DEF IInv, TypeOK, Present, Mark, OpenPriv
<1>2. proc' = [proc EXCEPT ![p] = [proc[p] EXCEPT !.step = "priv_open", !.key = v]]
  BY <1>1, Zenon DEF OpenPriv, ProcType
<1>3. "priv_open" \in Step
  BY DEF Step
<1>4. /\ proc' \in [Process -> ProcType] /\ proc'[p].step = "priv_open" /\ proc'[p].key = v
      /\ Asks_OK'
      /\ \A q \in Process : Asked(q)' = Asked(q)
      /\ \A q \in Process \ {p} : proc'[q] = proc[q]
  BY <1>1, <1>2, <1>3, Stepped
<1> HIDE DEF a, v
<1>5. /\ files' \in [Kind -> [pub : Mark, priv : Mark]]
      /\ files'[a].priv = Empty /\ files'[a].pub = files[a].pub
      /\ \A k \in Kind \ {a} : files'[k] = files[k]
  BY <1>1, Zenon DEF OpenPriv, IInv, TypeOK, Mark, a, v
<1>6. returned' = returned /\ overlapped' = overlapped /\ generated' = generated /\ cell' = cell
  BY DEF OpenPriv
<1>7. TypeOK'
  BY <1>4, <1>5, <1>6 DEF IInv, TypeOK, Mark
<1>8. Present'
  <2>1. Empty # Absent
    BY <1>1, KeyAssumption DEF Empty, Key
  <2>2. \A q \in Process : Asked(q) \in Kind
    BY AskedKind
  <2> QED BY <1>1, <1>4, <1>5, <2>1, <2>2 DEF IInv, Present
<1>9. ASSUME NEW k \in Kind \ overlapped PROVE Single(k)' /\ Sound(k)'
  <2>1. Single(k) /\ Sound(k)
    BY DEF IInv
  <2>2. Creating(k)' = Creating(k)
    BY <1>1, <1>4 DEF Creating
  <2>3. Single(k)'
    BY <2>1, <2>2 DEF Single
  <2>4. CASE k # a
    <3>1. files'[k] = files[k]
      BY <1>5, <2>4
    <3>2. Unborn(k) => Unborn(k)'
      BY <1>4, <1>6, <2>4, <3>1 DEF Unborn, a
    <3>3. Born(k) => Born(k)'
      BY <1>4, <1>6, <2>4, <3>1 DEF Born, a
    <3> QED BY <2>1, <2>3, <3>1, <3>2, <3>3 DEF Sound
  <2>5. CASE k = a
    <3>1. p \in Creating(k)
      BY <1>1, <2>5 DEF Creating, a
    <3>2. \A q \in Process \ {p} : Asked(q) = k =>
             proc[q].step \notin {"create", "pub_open", "pub_done", "priv_open"}
      BY <2>1, <3>1 DEF Single, Creating
    <3>3. files[k].priv = Absent /\ Unborn(k)
      BY <1>1, <2>1, <2>5 DEF Sound, Born, a
    <3>4. files[k].pub = v
      BY <1>1, <2>5, <3>3 DEF Unborn, a, v
    <3>5. Born(k)'
      BY <1>1, <1>4, <1>5, <1>6, <2>5, <3>2, <3>3, <3>4 DEF Unborn, Born, a
    <3>6. files'[k].priv # Absent
      BY <1>5, <2>5, KeyAssumption DEF Empty
    <3> QED BY <2>3, <3>5, <3>6 DEF Sound
  <2> QED BY <2>4, <2>5
<1> QED BY <1>4, <1>6, <1>7, <1>8, <1>9 DEF IInv

LEMMA ReadPrivKeeps ==
    ASSUME IInv, NEW p \in Process, ReadPriv(p)
    PROVE  IInv'
<1> DEFINE a == Asked(p)
           pair == [pub |-> proc[p].key, priv |-> files[a].priv]
<1>1. /\ a \in Kind /\ proc[p].step = "read"
      /\ proc[p].key \in {Empty} \union Key /\ files[a].priv \in {Empty} \union Key
  BY AskedKind, Zenon DEF IInv, TypeOK, ProcType, Present, ReadPriv
<1>2. Quiet(p)
  BY AfterCall, Rested, Zenon DEF ReadPriv
<1>3. /\ files' = files /\ overlapped' = overlapped /\ generated' = generated /\ cell' = cell
  BY DEF ReadPriv
<1>4. /\ returned' \in [Kind -> SUBSET [pub : {Empty} \union Key, priv : {Empty} \union Key]]
      /\ returned'[a] = returned[a] \union {pair}
      /\ \A k \in Kind \ {a} : returned'[k] = returned[k]
  BY <1>1 DEF ReadPriv, IInv, TypeOK
<1> HIDE DEF a
<1>5. TypeOK'
  BY <1>2, <1>3, <1>4 DEF IInv, TypeOK, Quiet
<1>6. Present'
  BY <1>2, <1>3 DEF IInv, Present, Quiet
<1>7. ASSUME NEW k \in Kind \ overlapped PROVE Single(k)' /\ Sound(k)'
  <2>1. Single(k) /\ Sound(k)
    BY DEF IInv
  <2>2. Creating(k)' \subseteq Creating(k)
    BY <1>2 DEF Creating, Quiet
  <2>3. Single(k)'
    BY <2>1, <2>2 DEF Single
  <2>4. CASE k # a
    <3>1. Unborn(k) => Unborn(k)'
      BY <1>2, <1>3, <1>4, <2>4 DEF Unborn, Quiet
    <3>2. Born(k) => Born(k)'
      BY <1>2, <1>3, <1>4, <2>4 DEF Born, Quiet
    <3> QED BY <1>3, <2>1, <2>3, <3>1, <3>2 DEF Sound
  <2>5. CASE k = a
    <3>1. files[k].priv # Absent /\ Born(k)
      BY <1>1, <2>1, <2>5 DEF Sound, Unborn, a
    <3>2. pair.pub = files[k].pub /\ pair.priv \in {pair.pub, Empty}
      BY <1>1, <2>5, <3>1 DEF Born, a
    <3>3. \A r \in returned'[k] : r.pub = files[k].pub /\ r.priv \in {r.pub, Empty}
      <4> HIDE DEF pair
      <4> QED BY <1>4, <2>5, <3>1, <3>2 DEF Born
    <3>4. Born(k)'
      BY <1>2, <1>3, <3>1, <3>3 DEF Born, Quiet
    <3> QED BY <1>3, <2>3, <3>1, <3>4 DEF Sound
  <2> QED BY <2>4, <2>5
<1> QED BY <1>2, <1>3, <1>5, <1>6, <1>7 DEF IInv, Quiet

LEMMA WritePrivKeeps ==
    ASSUME IInv, NEW p \in Process, WritePriv(p)
    PROVE  IInv'
<1> DEFINE a == Asked(p)
           v == proc[p].key
           pair == [pub |-> v, priv |-> v]
<1>1. a \in Kind /\ v \in Key /\ proc[p].step = "priv_open"
  BY AskedKind DEF IInv, Present, WritePriv
<1>2. Quiet(p)
  BY AfterCall, Rested, Zenon DEF WritePriv
<1>3. /\ overlapped' = overlapped /\ generated' = generated /\ cell' = cell
  BY DEF WritePriv
<1>4. /\ files' \in [Kind -> [pub : Mark, priv : Mark]]
      /\ files'[a].priv = v /\ files'[a].pub = files[a].pub
      /\ \A k \in Kind \ {a} : files'[k] = files[k]
  BY <1>1, Zenon DEF WritePriv, IInv, TypeOK, Mark
<1>5. /\ returned' \in [Kind -> SUBSET [pub : {Empty} \union Key, priv : {Empty} \union Key]]
      /\ returned'[a] = returned[a] \union {pair}
      /\ \A k \in Kind \ {a} : returned'[k] = returned[k]
  BY <1>1 DEF WritePriv, IInv, TypeOK
<1> HIDE DEF a, v
<1>6. TypeOK'
  BY <1>2, <1>3, <1>4, <1>5 DEF IInv, TypeOK, Quiet, Mark
<1>7. v # Absent
  BY <1>1, KeyAssumption DEF Key
<1>8. Present'
  <2>1. \A q \in Process : Asked(q) \in Kind
    BY AskedKind
  <2> QED BY <1>2, <1>4, <1>7, <2>1 DEF IInv, Present, Quiet
<1>9. ASSUME NEW k \in Kind \ overlapped PROVE Single(k)' /\ Sound(k)'
  <2>1. Single(k) /\ Sound(k)
    BY DEF IInv
  <2>2. Creating(k)' \subseteq Creating(k)
    BY <1>2 DEF Creating, Quiet
  <2>3. Single(k)'
    BY <2>1, <2>2 DEF Single
  <2>4. CASE k # a
    <3>1. Unborn(k) => Unborn(k)'
      BY <1>2, <1>4, <1>5, <2>4 DEF Unborn, Quiet
    <3>2. Born(k) => Born(k)'
      BY <1>2, <1>4, <1>5, <2>4 DEF Born, Quiet
    <3> QED BY <1>4, <2>1, <2>3, <2>4, <3>1, <3>2, Zenon DEF Sound
  <2>5. CASE k = a
    <3>1. files[k].priv # Absent /\ Born(k)
      BY <1>1, <2>1, <2>5 DEF Sound, Unborn, a
    <3>2. files[k].pub = v
      BY <1>1, <2>5, <3>1 DEF Born, a, v
    <3>3. \A r \in returned'[k] : r.pub = files[k].pub /\ r.priv \in {r.pub, Empty}
      BY <1>5, <2>5, <3>1, <3>2 DEF Born
    <3>4. Born(k)'
      BY <1>1, <1>2, <1>4, <2>5, <3>1, <3>2, <3>3 DEF Born, Quiet
    <3> QED BY <1>4, <1>7, <2>3, <2>5, <3>4 DEF Sound
  <2> QED BY <2>4, <2>5
<1> QED BY <1>2, <1>3, <1>6, <1>8, <1>9 DEF IInv, Quiet

\* Key files and calls keep their invariant: nobody holds a key before the
\* private file is there, and from then on the pair is complete but for that
\* file's contents (ensure_keypair_on_disk, ensure_kem_keypair_on_disk, start_machine).
THEOREM FilesSound == Spec => []IInv
<1>1. IInv /\ [Next]_vars => IInv'
  <2> SUFFICES ASSUME IInv, [Next]_vars PROVE IInv'
    OBVIOUS
  <2>1. ASSUME NEW p \in Process, CallStep(p) PROVE IInv'
    BY <2>1, EphemeralKeeps, FoundKeeps, GenerateKeeps, ReadPubKeeps, ReadPrivKeeps,
       OpenPubKeeps, WritePubKeeps, OpenPrivKeeps, WritePrivKeeps DEF CallStep
  <2>2. ASSUME NEW p \in Process, End(p) PROVE IInv'
    BY <2>2, EndKeeps
  <2>3. ASSUME NEW p \in Process, NEW program \in Program, NEW memory \in Modes,
               Start(p, program, memory)
        PROVE  IInv'
    BY <2>3, StartKeeps
  <2>4. CASE UNCHANGED vars
    <3> USE <2>4 DEF vars
    <3>1. TypeOK' /\ Asks_OK'
      BY Zenon DEF IInv, TypeOK, Asks_OK
    <3>2. Present'
      BY DEF IInv, Present, Asked
    <3>3. ASSUME NEW k \in Kind PROVE Single(k)' <=> Single(k)
      BY DEF Single, Creating, Asked
    <3>4. ASSUME NEW k \in Kind PROVE Sound(k)' <=> Sound(k)
      BY DEF Sound, Unborn, Born, Asked
    <3>5. overlapped' = overlapped
      OBVIOUS
    <3> QED BY <3>1, <3>2, <3>3, <3>4, <3>5 DEF IInv
  <2> QED BY <2>1, <2>2, <2>3, <2>4 DEF Next
<1> QED BY InitIInv, <1>1, PTL DEF Spec

\* Types, and no call returns a file that is not there (ensure_keypair_on_disk).
THEOREM TypeCorrect == Spec => []TypeOK
<1>1. IInv => TypeOK
  BY DEF IInv
<1> QED BY <1>1, FilesSound, PTL

\* Every call of every program that shares the directory gets the same public
\* key, unless two processes create the pair at once (ensure_keypair_on_disk,
\* "Compute stable manifest_id from owning public key").
THEOREM KeyIsOne == Spec => []OneKey
<1>1. IInv => OneKey
  BY DEF IInv, OneKey, Sound, Unborn, Born
<1> QED BY <1>1, FilesSound, PTL
=================================================================================
