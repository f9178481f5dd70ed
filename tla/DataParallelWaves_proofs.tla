---------------------- MODULE DataParallelWaves_proofs ----------------------
(***************************************************************************)
(* Proofs about data parallel deployments, for any number of engines,       *)
(* front-ends and requests and any messages under way: the engines never    *)
(* block each other in different collective operations; they, the           *)
(* coordinator and the front-ends number the waves alike; when all engines  *)
(* have paused everybody comes to know it; and unless a request is aborted   *)
(* no engine is left in a forward pass that the others do not join.          *)
(***************************************************************************)
EXTENDS DataParallelWaves, SequenceTheorems, TLAPS

-----------------------------------------------------------------------------
(* Collective operations. *)

EngineTypeOK ==
    /\ wave \in [Engines -> Nat] /\ running \in [Engines -> BOOLEAN]
    /\ counter \in [Engines -> Nat] /\ vote \in [Engines -> BOOLEAN]
    /\ epc \in [Engines -> {"input", "forward", "reduce", "decide"}]

\* The step counters are equal, and at the end of an interval while an engine is
\* in the all-reduce or acts on its result; all enter the all-reduce together.
InStep ==
    /\ \A e, f \in Engines : counter[e] = counter[f]
    /\ \A e \in Engines : epc[e] \in {"reduce", "decide"} => counter[e] = 0
    /\ \A e, f \in Engines : epc[e] = "reduce" => epc[f] = "reduce"

(* The step counter is a number. *)
LEMMA CountedType ==
    ASSUME EngineTypeOK PROVE \A e \in Engines : Counted(e) \in Nat
<1> SUFFICES ASSUME NEW e \in Engines PROVE Counted(e) \in Nat
  OBVIOUS
<1>1. counter[e] \in Nat /\ SyncInterval \in Nat \ {0}
  BY WavesAssumption DEF EngineTypeOK
<1>2. counter[e] + 1 \in Nat
  BY <1>1
<1> QED BY <1>1, <1>2 DEF Counted

(* The counters stay together. *)
LEMMA InStepInvariant ==
    ASSUME EngineTypeOK, EngineTypeOK', InStep, [Next]_vars
    PROVE  InStep'
<1> USE DEF InStep
<1>1. ASSUME UNCHANGED <<counter, epc>> PROVE InStep'
  BY <1>1
<1>2. ASSUME NEW r \in Reqs, NEW e \in Engines, AddRequest(r, e) \/ AbortRequest(r, e)
      PROVE  InStep'
  BY <1>2, <1>1 DEF AddRequest, AbortRequest, engine
<1>3. ASSUME NEW c \in Clients, ClientStep(c) PROVE InStep'
  BY <1>3, <1>1 DEF ClientStep, SendFirstReq, ReadState, engine
<1>4. CASE CoordinatorStep \/ Republish
  BY <1>4, <1>1 DEF CoordinatorStep, Coordinate, Republish, engine
<1>5. ASSUME NEW e \in Engines, NEW c \in Clients, HandleAdd(e, c) \/ HandleAbort(e, c)
      PROVE  InStep'
  BY <1>5, <1>1 DEF HandleAdd, HandleAbort, engine
<1>6. ASSUME NEW e \in Engines, HandleStart(e) PROVE InStep'
  BY <1>6, <1>1 DEF HandleStart
<1>7. ASSUME NEW e \in Engines, BeginStep(e) PROVE InStep'
  BY <1>7 DEF BeginStep, EngineTypeOK
<1>8. ASSUME NEW e \in Engines, Decide(e) PROVE InStep'
  <2>1. /\ epc[e] = "decide" /\ epc' = [epc EXCEPT ![e] = "input"] /\ counter[e] = 0
        /\ counter' = counter \/ counter' = [counter EXCEPT ![e] = 0]
    BY <1>8 DEF Decide
  <2>2. \A f \in Engines : counter'[f] = 0
    BY <2>1 DEF EngineTypeOK
  <2>3. \A f \in Engines : epc[f] # "reduce"
    BY <2>1
  <2>4. \A f \in Engines : epc'[f] # "reduce"
    BY <2>1, <2>3 DEF EngineTypeOK
  <2> QED BY <2>2, <2>4
<1>9. ASSUME NEW early \in SUBSET MayAbort, ForwardPass(early) PROVE InStep'
  <2>1. /\ counter' = [e \in Engines |-> Counted(e)]
        /\ epc' = [e \in Engines |-> IF Counted(e) = 0 THEN "reduce" ELSE "input"]
    BY <1>9 DEF ForwardPass
  <2>2. \A e, f \in Engines : Counted(e) = Counted(f)
    BY DEF Counted
  <2> QED BY <2>1, <2>2
<1>10. CASE AllReduce
  BY <1>10 DEF AllReduce
<1>11. CASE UNCHANGED vars
  BY <1>11, <1>1 DEF vars, engine
<1> QED
  BY <1>2, <1>3, <1>4, <1>5, <1>6, <1>7, <1>8, <1>9, <1>10, <1>11
     DEF Next, EngineStep, Collective

-----------------------------------------------------------------------------
(* Waves. *)

\* What is under way when the newest wave is W.
ClientMsgs(W) == [type : {"ADD", "ABORT"}, req : Reqs, wave : 0..W]
EngineMsgs(W) == [type : {"wave_complete"}, wave : {w \in Nat : w < W}]
                    \cup [type : {"start_wave"}, wave : 0..W]
StartMsgs(W)  == [wave : 0..W, exclude : Engines \cup {Nobody}]
States(w)     == {<<>>} \cup {<<m>> : m \in [wave : 0..w, running : BOOLEAN]}

\* Nobody has heard of a wave after W, the front-ends of none after the coordinator's.
KnownWaves(W) ==
    /\ co_wave \in 0..W /\ co_running \in BOOLEAN
    /\ c_wave \in [Clients -> 0..co_wave] /\ c_running \in [Clients -> BOOLEAN]
    /\ sub \in [Clients -> States(co_wave)]
    /\ from_client \in [Engines -> [Clients -> Seq(ClientMsgs(W))]]
    /\ back \in [Engines -> Seq(EngineMsgs(W))]
    /\ from_coord \in [Engines -> Seq(StartMsgs(W))]

\* An engine is in wave W, or about to enter it; as long as none has entered the
\* wave after W, all engines are about to.
EnginesAt(W) ==
    /\ \A e \in Engines : wave[e] = W \/ (wave[e] + 1 = W /\ epc[e] = "decide" /\ ~vote[e])
    /\ \E e \in Engines : wave[e] = W
    /\ \A e \in Engines : epc[e] = "decide" /\ ~vote[e] /\ wave[e] = W =>
          \A f \in Engines : epc[f] = "decide" /\ ~vote[f] /\ wave[f] = W

WaveInv == \E W \in Nat : KnownWaves(W) /\ EnginesAt(W)

(* Longer sequences of the same kind. *)
LEMMA SeqSubset == ASSUME NEW S, NEW T, S \subseteq T PROVE Seq(S) \subseteq Seq(T)
<1> SUFFICES ASSUME NEW s \in Seq(S) PROVE s \in Seq(T)
  OBVIOUS
<1>1. Len(s) \in Nat /\ s = [i \in 1..Len(s) |-> s[i]] /\ \A i \in 1..Len(s) : s[i] \in S
  BY LenProperties, ElementOfSeq
<1>2. s \in [1..Len(s) -> T]
  BY <1>1
<1> QED BY <1>1, <1>2, IsASeq

(* What is known in wave W is known in the next one. *)
LEMMA KnownWavesGrow == ASSUME NEW W \in Nat, KnownWaves(W) PROVE KnownWaves(W + 1)
<1>1. 0..W \subseteq 0..(W + 1) /\ {w \in Nat : w < W} \subseteq {w \in Nat : w < W + 1}
  OBVIOUS
<1>2. /\ ClientMsgs(W) \subseteq ClientMsgs(W + 1)
      /\ EngineMsgs(W) \subseteq EngineMsgs(W + 1)
      /\ StartMsgs(W) \subseteq StartMsgs(W + 1)
  BY <1>1 DEF ClientMsgs, EngineMsgs, StartMsgs
<1>3. /\ Seq(ClientMsgs(W)) \subseteq Seq(ClientMsgs(W + 1))
      /\ Seq(EngineMsgs(W)) \subseteq Seq(EngineMsgs(W + 1))
      /\ Seq(StartMsgs(W)) \subseteq Seq(StartMsgs(W + 1))
  BY <1>2, SeqSubset
<1>4. co_wave \in 0..(W + 1)
  BY <1>1 DEF KnownWaves
<1>5. from_client \in [Engines -> [Clients -> Seq(ClientMsgs(W + 1))]]
  BY <1>3 DEF KnownWaves
<1>6. back \in [Engines -> Seq(EngineMsgs(W + 1))]
  BY <1>3 DEF KnownWaves
<1>7. from_coord \in [Engines -> Seq(StartMsgs(W + 1))]
  BY <1>3 DEF KnownWaves
<1> QED BY <1>4, <1>5, <1>6, <1>7 DEF KnownWaves

(* The first message of a front-end to an engine, and what is left. *)
LEMMA FirstOfClient ==
    ASSUME NEW W \in Nat, KnownWaves(W), NEW e \in Engines, NEW c \in Clients,
           from_client[e][c] # <<>>
    PROVE  /\ Head(from_client[e][c]) \in ClientMsgs(W)
           /\ [from_client EXCEPT ![e][c] = Tail(@)]
                 \in [Engines -> [Clients -> Seq(ClientMsgs(W))]]
<1>1. from_client[e][c] \in Seq(ClientMsgs(W))
  BY DEF KnownWaves
<1>2. /\ Head(from_client[e][c]) \in ClientMsgs(W)
      /\ Tail(from_client[e][c]) \in Seq(ClientMsgs(W))
  BY <1>1, HeadTailProperties
<1> QED BY <1>2 DEF KnownWaves

(* Something is sent to the coordinator. *)
LEMMA ToCoordinator ==
    ASSUME NEW W \in Nat, KnownWaves(W), NEW e \in Engines, NEW m \in EngineMsgs(W)
    PROVE  [back EXCEPT ![e] = Append(@, m)] \in [Engines -> Seq(EngineMsgs(W))]
<1>1. Append(back[e], m) \in Seq(EngineMsgs(W))
  BY AppendProperties DEF KnownWaves
<1> QED BY <1>1 DEF KnownWaves

(* Only engines that are about to enter the newest wave are not in it. *)
LEMMA InNewestWave ==
    ASSUME NEW W, EnginesAt(W), NEW e \in Engines, epc[e] # "decide" \/ vote[e]
    PROVE  wave[e] = W
  BY DEF EnginesAt

\* The states that an iteration of the coordinator may go through.
CoordStates(W) == [wave : {w \in Nat : co_wave <= w /\ w <= W}, running : BOOLEAN,
                   start : Seq(StartMsgs(W)), changed : BOOLEAN]

(* Both handlers of the coordinator stay within them. *)
LEMMA CoordinatorStates ==
    ASSUME NEW W \in Nat, KnownWaves(W)
    PROVE  /\ State \in CoordStates(W)
           /\ \A s \in CoordStates(W) : \A w : OnFirstReq(s, w) \in CoordStates(W)
           /\ \A s \in CoordStates(W), m \in EngineMsgs(W), e \in Engines :
                 OnEngine(s, m, e) \in CoordStates(W)
<1>1. State \in CoordStates(W)
  <2>1. <<>> \in Seq(StartMsgs(W))
    OBVIOUS
  <2> QED BY <2>1 DEF State, CoordStates, KnownWaves
<1>2. ASSUME NEW s \in CoordStates(W), NEW x \in StartMsgs(W)
      PROVE  Append(s.start, x) \in Seq(StartMsgs(W))
  BY AppendProperties DEF CoordStates
<1>3. ASSUME NEW s \in CoordStates(W), NEW w PROVE OnFirstReq(s, w) \in CoordStates(W)
  <2>1. [wave |-> s.wave, exclude |-> Nobody] \in StartMsgs(W)
    BY DEF CoordStates, StartMsgs
  <2>2. Append(s.start, [wave |-> s.wave, exclude |-> Nobody]) \in Seq(StartMsgs(W))
    BY <2>1, <1>2
  <2> QED BY <2>2 DEF OnFirstReq, CoordStates
<1>4. ASSUME NEW s \in CoordStates(W), NEW w \in Nat, w < W
      PROVE  OnWaveComplete(s, w) \in CoordStates(W)
  <2>1. co_wave \in Nat /\ s.wave \in Nat /\ co_wave <= s.wave
    BY DEF CoordStates, KnownWaves
  <2>2. CASE s.wave <= w
    <3>1. w + 1 \in {v \in Nat : co_wave <= v /\ v <= W}
      BY <1>4, <2>1, <2>2
    <3> QED BY <3>1, <2>2 DEF OnWaveComplete, CoordStates
  <2>3. CASE ~(s.wave <= w)
    BY <2>3 DEF OnWaveComplete
  <2> QED BY <2>2, <2>3
<1>5. ASSUME NEW s \in CoordStates(W), NEW w \in 0..W, NEW e \in Engines
      PROVE  OnStartWave(s, w, e) \in CoordStates(W)
  <2>1. co_wave \in Nat /\ s.wave \in Nat /\ co_wave <= s.wave
    BY DEF CoordStates, KnownWaves
  <2>2. CASE w > s.wave \/ (w = s.wave /\ ~s.running)
    <3>1. w \in {v \in Nat : co_wave <= v /\ v <= W}
      BY <2>1, <2>2
    <3>2. [wave |-> w, exclude |-> e] \in StartMsgs(W)
      BY DEF StartMsgs
    <3>3. Append(s.start, [wave |-> w, exclude |-> e]) \in Seq(StartMsgs(W))
      BY <3>2, <1>2
    <3> QED BY <3>1, <3>3, <2>2 DEF OnStartWave, CoordStates
  <2>3. CASE ~(w > s.wave \/ (w = s.wave /\ ~s.running))
    BY <2>3 DEF OnStartWave
  <2> QED BY <2>2, <2>3
<1>6. ASSUME NEW s \in CoordStates(W), NEW m \in EngineMsgs(W), NEW e \in Engines
      PROVE  OnEngine(s, m, e) \in CoordStates(W)
  <2>1. CASE m.type = "wave_complete"
    <3>1. m.wave \in Nat /\ m.wave < W
      BY <2>1 DEF EngineMsgs
    <3> QED BY <3>1, <2>1, <1>4 DEF OnEngine
  <2>2. CASE m.type # "wave_complete"
    <3>1. m.wave \in 0..W
      BY <2>2 DEF EngineMsgs
    <3> QED BY <3>1, <2>2, <1>5 DEF OnEngine
  <2> QED BY <2>1, <2>2
<1> QED BY <1>1, <1>3, <1>6

(* The coordinator learns of no wave that does not exist. *)
LEMMA CoordinateStep ==
    ASSUME NEW W \in Nat, KnownWaves(W), NEW c \in Clients \cup {Nobody},
           NEW e \in Engines \cup {Nobody}, Coordinate(c, e)
    PROVE  KnownWaves(W)'
<1> DEFINE s1 == IF c = Nobody THEN State ELSE OnFirstReq(State, Head(front[c]))
           s2 == IF e = Nobody THEN s1 ELSE OnEngine(s1, Head(back[e]), e)
<1>1. s1 \in CoordStates(W)
  BY CoordinatorStates
<1>2. ASSUME e # Nobody
      PROVE  /\ e \in Engines /\ Head(back[e]) \in EngineMsgs(W)
             /\ Tail(back[e]) \in Seq(EngineMsgs(W))
  <2>1. e \in Engines /\ back[e] # <<>> /\ back[e] \in Seq(EngineMsgs(W))
    BY <1>2 DEF Coordinate, KnownWaves
  <2> QED BY <2>1, HeadTailProperties
<1> HIDE DEF s1
<1>3. s2 \in CoordStates(W)
  BY <1>1, <1>2, CoordinatorStates
<1>4. /\ co_wave' = s2.wave /\ co_running' = s2.running
      /\ from_coord' = [f \in Engines |-> from_coord[f] \o s2.start]
      /\ back' = IF e = Nobody THEN back ELSE [back EXCEPT ![e] = Tail(@)]
      /\ s2.changed => sub' = [d \in Clients |-> <<[wave |-> s2.wave, running |-> s2.running]>>]
      /\ ~s2.changed => sub' = sub
      /\ UNCHANGED <<c_wave, c_running, from_client>>
  BY DEF Coordinate, s1, Publish
<1> HIDE DEF s2
<1>5. /\ co_wave \in Nat /\ co_wave' \in Nat /\ co_wave <= co_wave' /\ co_wave' <= W
      /\ co_running' \in BOOLEAN
  BY <1>3, <1>4 DEF CoordStates, KnownWaves
<1>6. back' \in [Engines -> Seq(EngineMsgs(W))]
  BY <1>2, <1>4 DEF KnownWaves
<1>7. from_coord' \in [Engines -> Seq(StartMsgs(W))]
  <2>1. ASSUME NEW f \in Engines PROVE from_coord[f] \o s2.start \in Seq(StartMsgs(W))
    BY <1>3, ConcatProperties DEF KnownWaves, CoordStates
  <2> QED BY <2>1, <1>4
<1>8. 0..co_wave \subseteq 0..co_wave'
  BY <1>5
<1>9. States(co_wave) \subseteq States(co_wave')
  BY <1>8 DEF States
<1>10. sub' \in [Clients -> States(co_wave')]
  <2>1. CASE s2.changed
    <3>1. s2.wave \in 0..s2.wave /\ s2.running \in BOOLEAN
      BY <1>3 DEF CoordStates
    <3>2. <<[wave |-> s2.wave, running |-> s2.running]>> \in States(s2.wave)
      BY <3>1 DEF States
    <3> QED BY <2>1, <3>2, <1>4
  <2>2. CASE ~s2.changed
    BY <2>2, <1>4, <1>9 DEF KnownWaves
  <2> QED BY <2>1, <2>2
<1>11. c_wave' \in [Clients -> 0..co_wave']
  BY <1>4, <1>8 DEF KnownWaves
<1> QED BY <1>4, <1>5, <1>6, <1>7, <1>10, <1>11 DEF KnownWaves

(* The engines' variables keep their types. *)
LEMMA EngineTypeStep ==
    ASSUME EngineTypeOK, NEW W \in Nat, KnownWaves(W), [Next]_vars
    PROVE  EngineTypeOK'
<1> USE DEF EngineTypeOK
<1>1. ASSUME UNCHANGED engine PROVE EngineTypeOK'
  BY <1>1 DEF engine
<1>2. ASSUME NEW r \in Reqs, NEW e \in Engines, AddRequest(r, e) \/ AbortRequest(r, e)
      PROVE  EngineTypeOK'
  BY <1>2, <1>1 DEF AddRequest, AbortRequest
<1>3. ASSUME NEW c \in Clients, ClientStep(c) PROVE EngineTypeOK'
  BY <1>3, <1>1 DEF ClientStep, SendFirstReq, ReadState
<1>4. CASE CoordinatorStep \/ Republish
  BY <1>4, <1>1 DEF CoordinatorStep, Coordinate, Republish
<1>5. ASSUME NEW e \in Engines, NEW c \in Clients, HandleAdd(e, c) PROVE EngineTypeOK'
  <2>1. Head(from_client[e][c]) \in ClientMsgs(W)
    BY <1>5, FirstOfClient DEF HandleAdd
  <2>2. Head(from_client[e][c]).wave \in Nat
    BY <2>1 DEF ClientMsgs
  <2> QED BY <1>5, <2>2 DEF HandleAdd
<1>6. ASSUME NEW e \in Engines, NEW c \in Clients, HandleAbort(e, c) PROVE EngineTypeOK'
  BY <1>6, <1>1 DEF HandleAbort
<1>7. ASSUME NEW e \in Engines, HandleStart(e) PROVE EngineTypeOK'
  <2>1. Head(from_coord[e]) \in StartMsgs(W)
    BY <1>7, HeadTailProperties DEF HandleStart, KnownWaves
  <2>2. Head(from_coord[e]).wave \in Nat
    BY <2>1 DEF StartMsgs
  <2>3. wave' \in [Engines -> Nat]
    BY <1>7, <2>2 DEF HandleStart
  <2>4. running' \in [Engines -> BOOLEAN]
    <3>1. (running[e] \/ Starts(e, Head(from_coord[e]))) \in BOOLEAN
      OBVIOUS
    <3> QED BY <1>7, <3>1 DEF HandleStart
  <2> QED BY <1>7, <2>3, <2>4 DEF HandleStart
<1>8. ASSUME NEW e \in Engines, BeginStep(e) PROVE EngineTypeOK'
  BY <1>8 DEF BeginStep
<1>9. ASSUME NEW e \in Engines, Decide(e) PROVE EngineTypeOK'
  <2>1. vote[e] \in BOOLEAN /\ wave[e] + 1 \in Nat
    OBVIOUS
  <2>2. running' \in [Engines -> BOOLEAN] /\ vote' \in [Engines -> BOOLEAN]
    BY <1>9, <2>1 DEF Decide
  <2>3. epc' \in [Engines -> {"input", "forward", "reduce", "decide"}]
    BY <1>9 DEF Decide
  <2>4. wave' \in [Engines -> Nat] /\ counter' \in [Engines -> Nat]
    <3>1. CASE vote[e]
      BY <1>9, <3>1 DEF Decide
    <3>2. CASE ~vote[e]
      BY <1>9, <2>1, <3>2 DEF Decide
    <3> QED BY <3>1, <3>2
  <2> QED BY <2>2, <2>3, <2>4
<1>10. ASSUME NEW early \in SUBSET MayAbort, ForwardPass(early) PROVE EngineTypeOK'
  <2>1. wave' = wave /\ counter' \in [Engines -> Nat]
    BY <1>10, CountedType DEF ForwardPass
  <2>2. epc' \in [Engines -> {"input", "forward", "reduce", "decide"}]
    BY <1>10 DEF ForwardPass
  <2>3. running' \in [Engines -> BOOLEAN] /\ vote' \in [Engines -> BOOLEAN]
    BY <1>10 DEF ForwardPass
  <2> QED BY <2>1, <2>2, <2>3
<1>11. CASE AllReduce
  BY <1>11 DEF AllReduce
<1>12. CASE UNCHANGED vars
  BY <1>12, <1>1 DEF vars
<1> QED
  BY <1>2, <1>3, <1>4, <1>5, <1>6, <1>7, <1>8, <1>9, <1>10, <1>11, <1>12
     DEF Next, EngineStep, Collective

(* Front-ends: what they send and read is within what is known. *)
LEMMA ClientWaves ==
    ASSUME NEW W \in Nat, KnownWaves(W), UNCHANGED engine,
           \/ \E r \in Reqs, e \in Engines : AddRequest(r, e) \/ AbortRequest(r, e)
           \/ \E c \in Clients : ClientStep(c)
    PROVE  KnownWaves(W)'
<1>1. ASSUME NEW r \in Reqs, NEW e \in Engines, AddRequest(r, e) \/ AbortRequest(r, e)
      PROVE  KnownWaves(W)'
  <2>1. ClientOf[r] \in Clients
    BY WavesAssumption
  <2>2. PICK m : /\ from_client' = [from_client EXCEPT ![e][ClientOf[r]] = Append(@, m)]
                 /\ m = [type |-> "ADD", req |-> r, wave |-> c_wave[ClientOf[r]]]
                    \/ m = [type |-> "ABORT", req |-> r, wave |-> 0]
                 /\ UNCHANGED <<c_wave, c_running, sub, coord, from_coord>>
    BY <1>1 DEF AddRequest, AbortRequest, client
  <2>3. c_wave[ClientOf[r]] \in 0..W
    BY <2>1 DEF KnownWaves
  <2>4. m \in ClientMsgs(W)
    BY <2>2, <2>3 DEF ClientMsgs
  <2>5. Append(from_client[e][ClientOf[r]], m) \in Seq(ClientMsgs(W))
    BY <2>1, <2>4, AppendProperties DEF KnownWaves
  <2>6. from_client' \in [Engines -> [Clients -> Seq(ClientMsgs(W))]]
    BY <2>1, <2>2, <2>5 DEF KnownWaves
  <2> QED BY <2>2, <2>6 DEF KnownWaves, coord
<1>2. ASSUME NEW c \in Clients, SendFirstReq(c) PROVE KnownWaves(W)'
  BY <1>2 DEF SendFirstReq, KnownWaves, to_engine
<1>3. ASSUME NEW c \in Clients, ReadState(c) PROVE KnownWaves(W)'
  <2>1. PICK m \in [wave : 0..co_wave, running : BOOLEAN] : sub[c] = <<m>>
    BY <1>3 DEF ReadState, KnownWaves, States
  <2>2. sub[c][1] = m
    BY <2>1
  <2>3. c_wave' \in [Clients -> 0..co_wave] /\ c_running' \in [Clients -> BOOLEAN]
    BY <1>3, <2>2 DEF ReadState, KnownWaves
  <2>4. sub' \in [Clients -> States(co_wave)]
    BY <1>3 DEF ReadState, KnownWaves, States
  <2> QED BY <1>3, <2>3, <2>4 DEF ReadState, KnownWaves, coord, to_engine
<1> QED BY <1>1, <1>2, <1>3 DEF ClientStep

(* No message takes an engine out of the newest wave. *)
LEMMA MessageWaves ==
    ASSUME EngineTypeOK, NEW W \in Nat, KnownWaves(W), EnginesAt(W), NEW e \in Engines,
           HandleStart(e) \/ \E c \in Clients : HandleAdd(e, c) \/ HandleAbort(e, c)
    PROVE  KnownWaves(W)' /\ UNCHANGED <<wave, epc, vote>>
<1>1. wave[e] = W /\ epc[e] = "input"
  BY InNewestWave DEF HandleStart, HandleAdd, HandleAbort
<1>2. ASSUME NEW c \in Clients, HandleAdd(e, c)
      PROVE  KnownWaves(W)' /\ UNCHANGED <<wave, epc, vote>>
  <2> DEFINE m == Head(from_client[e][c])
  <2>1. m \in ClientMsgs(W) /\ from_client' \in [Engines -> [Clients -> Seq(ClientMsgs(W))]]
    BY <1>2, FirstOfClient DEF HandleAdd
  <2>2. m.wave \in Nat /\ m.wave <= W
    BY <2>1 DEF ClientMsgs
  <2>3. wave' = wave
    BY <1>1, <1>2, <2>2, SMTT(20) DEF HandleAdd, EngineTypeOK
  <2>4. [type |-> "start_wave", wave |-> W] \in EngineMsgs(W)
    BY DEF EngineMsgs
  <2>5. \/ back' = [back EXCEPT ![e] = Append(@, [type |-> "start_wave", wave |-> W])]
        \/ back' = back
    BY <1>1, <1>2 DEF HandleAdd, KnownWaves
  <2>6. back' \in [Engines -> Seq(EngineMsgs(W))]
    <3>1. back \in [Engines -> Seq(EngineMsgs(W))]
      BY DEF KnownWaves
    <3>2. [back EXCEPT ![e] = Append(@, [type |-> "start_wave", wave |-> W])]
             \in [Engines -> Seq(EngineMsgs(W))]
      BY <2>4, ToCoordinator
    <3> QED BY <2>5, <3>1, <3>2
  <2> QED BY <1>2, <2>1, <2>3, <2>6 DEF HandleAdd, KnownWaves, client
<1>3. ASSUME NEW c \in Clients, HandleAbort(e, c)
      PROVE  KnownWaves(W)' /\ UNCHANGED <<wave, epc, vote>>
  <2>1. from_client' \in [Engines -> [Clients -> Seq(ClientMsgs(W))]]
    BY <1>3, FirstOfClient DEF HandleAbort
  <2> QED BY <1>3, <2>1 DEF HandleAbort, KnownWaves, client, coord, engine
<1>4. ASSUME HandleStart(e) PROVE KnownWaves(W)' /\ UNCHANGED <<wave, epc, vote>>
  <2> DEFINE m == Head(from_coord[e])
  <2>1. m \in StartMsgs(W) /\ Tail(from_coord[e]) \in Seq(StartMsgs(W))
    BY <1>4, HeadTailProperties DEF HandleStart, KnownWaves
  <2>2. m.wave \in Nat /\ m.wave <= W
    BY <2>1 DEF StartMsgs
  <2>3. wave' = wave
    BY <1>1, <1>4, <2>2 DEF HandleStart, Starts, EngineTypeOK
  <2>4. from_coord' \in [Engines -> Seq(StartMsgs(W))]
    BY <1>4, <2>1 DEF HandleStart, KnownWaves
  <2> QED BY <1>4, <2>3, <2>4 DEF HandleStart, KnownWaves, client, coord
<1> QED BY <1>2, <1>3, <1>4

(* An engine that acts on the result of the all-reduce enters the newest wave, or *)
(* is the first to enter the next one, or stays in the newest one.          *)
LEMMA DecideWaves ==
    ASSUME EngineTypeOK, NEW W \in Nat, KnownWaves(W), EnginesAt(W), NEW e \in Engines, Decide(e)
    PROVE  WaveInv'
<1> USE DEF EngineTypeOK
<1>1. /\ epc[e] = "decide" /\ epc'[e] = "input"
      /\ \A f \in Engines \ {e} : epc'[f] = epc[f] /\ vote'[f] = vote[f] /\ wave'[f] = wave[f]
      /\ UNCHANGED <<client, co_wave, co_running, to_engine>>
  BY DEF Decide
<1>2. CASE vote[e]
  <2>1. UNCHANGED <<wave, back>>
    BY <1>2 DEF Decide
  <2>2. KnownWaves(W)'
    BY <2>1, <1>1 DEF KnownWaves, client, to_engine
  <2>3. wave[e] = W
    BY <1>2, InNewestWave
  <2>4. \A f \in Engines \ {e} : ~(epc[f] = "decide" /\ ~vote[f] /\ wave[f] = W)
    BY <1>2 DEF EnginesAt
  <2>5. EnginesAt(W)'
    BY <2>1, <2>3, <2>4, <1>1 DEF EnginesAt
  <2> QED BY <2>2, <2>5 DEF WaveInv
<1>3. CASE ~vote[e]
  <2>1. /\ wave'[e] = wave[e] + 1 /\ wave[e] \in Nat
        /\ \/ back' = [back EXCEPT ![e] =
                          Append(@, [type |-> "wave_complete", wave |-> wave[e]])]
           \/ back' = back
    BY <1>3 DEF Decide
  <2>2. ASSUME NEW V \in Nat, KnownWaves(V), wave[e] < V PROVE KnownWaves(V)'
    <3>1. [type |-> "wave_complete", wave |-> wave[e]] \in EngineMsgs(V)
      BY <2>1, <2>2 DEF EngineMsgs
    <3>2. back' \in [Engines -> Seq(EngineMsgs(V))]
      <4>1. back \in [Engines -> Seq(EngineMsgs(V))]
        BY <2>2 DEF KnownWaves
      <4>2. [back EXCEPT ![e] = Append(@, [type |-> "wave_complete", wave |-> wave[e]])]
               \in [Engines -> Seq(EngineMsgs(V))]
        BY <2>2, <3>1, ToCoordinator
      <4> QED BY <2>1, <4>1, <4>2
    <3> QED BY <2>2, <3>2, <1>1 DEF KnownWaves, client, to_engine
  <2>3. CASE wave[e] = W
    <3>1. KnownWaves(W + 1)'
      BY <2>2, <2>3, KnownWavesGrow
    <3>2. \A f \in Engines : epc[f] = "decide" /\ ~vote[f] /\ wave[f] = W
      BY <1>1, <1>3, <2>3 DEF EnginesAt
    <3>3. \A f \in Engines \ {e} : epc'[f] = "decide" /\ ~vote'[f] /\ wave'[f] + 1 = W + 1
                                   /\ wave'[f] # W + 1
      BY <3>2, <1>1
    <3>4. wave'[e] = W + 1 /\ epc'[e] # "decide"
      BY <2>1, <2>3, <1>1
    <3>5. EnginesAt(W + 1)'
      BY <3>3, <3>4 DEF EnginesAt
    <3> QED BY <3>1, <3>5 DEF WaveInv
  <2>4. CASE wave[e] # W
    <3>1. wave[e] + 1 = W
      BY <2>4 DEF EnginesAt
    <3>2. KnownWaves(W)'
      BY <2>1, <2>2, <3>1
    <3>3. \A f \in Engines : ~(epc[f] = "decide" /\ ~vote[f] /\ wave[f] = W)
      BY <2>4 DEF EnginesAt
    <3>4. EnginesAt(W)'
      BY <1>1, <2>1, <3>1, <3>3 DEF EnginesAt
    <3> QED BY <3>2, <3>4 DEF WaveInv
  <2> QED BY <2>3, <2>4
<1> QED BY <1>2, <1>3

(* One step per action. *)
LEMMA WaveInvStep ==
    ASSUME EngineTypeOK, InStep, WaveInv, [Next]_vars
    PROVE  WaveInv'
<1>1. PICK W \in Nat : KnownWaves(W) /\ EnginesAt(W)
  BY DEF WaveInv
<1>2. ASSUME UNCHANGED <<wave, epc, vote>> PROVE EnginesAt(W)'
  BY <1>1, <1>2 DEF EnginesAt
<1>3. ASSUME UNCHANGED <<client, coord, to_engine>> PROVE KnownWaves(W)'
  BY <1>1, <1>3 DEF KnownWaves, client, coord, to_engine
<1>4. CASE \/ \E r \in Reqs, e \in Engines : AddRequest(r, e) \/ AbortRequest(r, e)
           \/ \E c \in Clients : ClientStep(c)
  <2>1. UNCHANGED engine
    BY <1>4 DEF AddRequest, AbortRequest, ClientStep, SendFirstReq, ReadState
  <2>2. KnownWaves(W)'
    BY <1>1, <1>4, <2>1, ClientWaves
  <2> QED BY <2>1, <2>2, <1>2 DEF engine, WaveInv
<1>5. CASE CoordinatorStep
  <2>1. UNCHANGED engine
    BY <1>5 DEF CoordinatorStep, Coordinate
  <2>2. KnownWaves(W)'
    BY <1>1, <1>5, CoordinateStep DEF CoordinatorStep
  <2> QED BY <2>1, <2>2, <1>2 DEF engine, WaveInv
<1>6. CASE Republish
  <2>1. /\ UNCHANGED <<c_wave, c_running, coord, engine, to_engine>>
        /\ sub' = [d \in Clients |-> <<[wave |-> co_wave, running |-> co_running]>>]
    BY <1>6 DEF Republish, Publish
  <2>2. <<[wave |-> co_wave, running |-> co_running]>> \in States(co_wave)
    <3>1. co_wave \in 0..co_wave /\ co_running \in BOOLEAN
      BY <1>1 DEF KnownWaves
    <3> QED BY <3>1 DEF States
  <2>3. KnownWaves(W)'
    BY <2>1, <2>2, <1>1 DEF KnownWaves, coord, to_engine
  <2> QED BY <2>1, <2>3, <1>2 DEF engine, WaveInv
<1>7. ASSUME NEW e \in Engines,
             HandleStart(e) \/ \E c \in Clients : HandleAdd(e, c) \/ HandleAbort(e, c)
      PROVE  WaveInv'
  BY <1>1, <1>2, <1>7, MessageWaves DEF WaveInv
<1>8. ASSUME NEW e \in Engines, BeginStep(e) PROVE WaveInv'
  <2>1. /\ epc[e] = "input" /\ UNCHANGED <<client, coord, wave, vote, to_engine>>
        /\ \A f \in Engines \ {e} : epc'[f] = epc[f]
        /\ epc'[e] = "forward"
    BY <1>8 DEF BeginStep, EngineTypeOK
  <2>2. EnginesAt(W)'
    BY <1>1, <2>1 DEF EnginesAt
  <2> QED BY <2>1, <2>2, <1>3 DEF WaveInv
<1>9. ASSUME NEW e \in Engines, Decide(e) PROVE WaveInv'
  BY <1>1, <1>9, DecideWaves
<1>10. ASSUME NEW early \in SUBSET MayAbort, ForwardPass(early) PROVE WaveInv'
  <2>1. /\ \A e \in Engines : epc[e] = "forward" /\ epc'[e] # "decide"
        /\ UNCHANGED <<client, coord, wave, to_engine>>
    BY <1>10 DEF ForwardPass
  <2>2. \A e \in Engines : wave[e] = W
    BY <1>1, <2>1, InNewestWave
  <2>3. EnginesAt(W)'
    BY <1>1, <2>1, <2>2 DEF EnginesAt
  <2> QED BY <2>1, <2>3, <1>3 DEF WaveInv
<1>11. CASE AllReduce
  <2>1. /\ \A e \in Engines : epc[e] = "reduce"
        /\ UNCHANGED <<client, coord, wave, to_engine>>
        /\ vote' = [e \in Engines |-> \E f \in Engines : vote[f]]
        /\ epc' = [e \in Engines |-> "decide"]
    BY <1>11 DEF AllReduce
  <2>2. \A e \in Engines : wave[e] = W
    BY <1>1, <2>1, InNewestWave
  <2>3. \A e, f \in Engines : ~vote'[e] => ~vote'[f]
    BY <2>1
  <2>4. EnginesAt(W)'
    BY <1>1, <2>1, <2>2, <2>3 DEF EnginesAt
  <2> QED BY <2>1, <2>4, <1>3 DEF WaveInv
<1>12. CASE UNCHANGED vars
  BY <1>2, <1>3, <1>12 DEF vars, engine, WaveInv
<1> QED
  BY <1>4, <1>5, <1>6, <1>7, <1>8, <1>9, <1>10, <1>11, <1>12 DEF Next, EngineStep, Collective

(* Initially all are in wave 0. *)
LEMMA WavesInit == ASSUME Init PROVE EngineTypeOK /\ InStep /\ WaveInv
<1>1. EngineTypeOK /\ InStep
  BY DEF Init, EngineTypeOK, InStep
<1>2. KnownWaves(0)
  <2>1. co_wave \in 0..0 /\ co_running \in BOOLEAN
    <3>1. co_wave \in 0..0
      BY DEF Init
    <3>2. co_running \in BOOLEAN
      BY DEF Init
    <3> QED BY <3>1, <3>2
  <2>2. c_wave \in [Clients -> 0..co_wave] /\ c_running \in [Clients -> BOOLEAN]
    BY DEF Init
  <2>3. sub \in [Clients -> States(co_wave)]
    BY DEF Init, States
  <2>4. from_client \in [Engines -> [Clients -> Seq(ClientMsgs(0))]]
    BY DEF Init
  <2>5. back \in [Engines -> Seq(EngineMsgs(0))] /\ from_coord \in [Engines -> Seq(StartMsgs(0))]
    BY DEF Init
  <2> QED BY <2>1, <2>2, <2>3, <2>4, <2>5 DEF KnownWaves
<1>3. EnginesAt(0)
  BY WavesAssumption DEF Init, EnginesAt
<1> QED BY <1>1, <1>2, <1>3 DEF WaveInv

(* The invariant of engines and waves. *)
LEMMA WavesInvariant == Spec => [](EngineTypeOK /\ InStep /\ WaveInv)
<1>1. Init => EngineTypeOK /\ InStep /\ WaveInv
  BY WavesInit
<1>2. (EngineTypeOK /\ InStep /\ WaveInv) /\ [Next]_vars => (EngineTypeOK /\ InStep /\ WaveInv)'
  <2> SUFFICES ASSUME EngineTypeOK, InStep, WaveInv, [Next]_vars
               PROVE  EngineTypeOK' /\ InStep' /\ WaveInv'
    OBVIOUS
  <2>1. EngineTypeOK'
    BY EngineTypeStep DEF WaveInv
  <2>2. InStep'
    BY <2>1, InStepInvariant
  <2>3. WaveInv'
    BY WaveInvStep
  <2> QED BY <2>1, <2>2, <2>3
<1> QED BY <1>1, <1>2, PTL DEF Spec

(* No engine is ever in the forward pass while another one is in the all-reduce, *)
(* where each would wait for the other for ever.                            *)
THEOREM CollectivesAlwaysMatch == Spec => []CollectivesMatch
<1>1. EngineTypeOK /\ InStep /\ WaveInv => CollectivesMatch
  BY DEF InStep, CollectivesMatch
<1> QED BY <1>1, WavesInvariant, PTL

(* Engines between waves have the same wave number; the coordinator is never *)
(* ahead of the engines, nor a front-end ahead of the coordinator, whatever is *)
(* still under way between them.                                           *)
THEOREM WavesAlwaysAgree == Spec => []WavesAgree
<1>1. EngineTypeOK /\ InStep /\ WaveInv => WavesAgree
  <2> SUFFICES ASSUME EngineTypeOK, WaveInv PROVE WavesAgree
    OBVIOUS
  <2>1. PICK W \in Nat : KnownWaves(W) /\ EnginesAt(W)
    BY DEF WaveInv
  <2>2. \A e, f \in Engines : epc[e] # "decide" /\ epc[f] # "decide" => wave[e] = wave[f]
    BY <2>1, InNewestWave
  <2>3. \E e \in Engines : co_wave <= wave[e]
    BY <2>1 DEF KnownWaves, EnginesAt
  <2>4. \A c \in Clients : c_wave[c] <= co_wave
    BY <2>1 DEF KnownWaves
  <2> QED BY <2>2, <2>3, <2>4 DEF WavesAgree
<1> QED BY <1>1, WavesInvariant, PTL

-----------------------------------------------------------------------------
(* Who knows what. *)

\* The messages of a queue.
Msgs(s) == {s[i] : i \in 1..Len(s)}

(* What is in a queue after a message is sent, several are sent, or one is *)
(* received.                                                               *)
LEMMA MsgsFacts ==
    ASSUME NEW S, NEW s \in Seq(S)
    PROVE  /\ Msgs(s) \subseteq S
           /\ \A m \in S : Msgs(Append(s, m)) = Msgs(s) \cup {m}
           /\ \A t \in Seq(S) : Msgs(s \o t) = Msgs(s) \cup Msgs(t)
           /\ s # <<>> => /\ Head(s) \in Msgs(s) /\ Tail(s) \in Seq(S)
                          /\ Msgs(s) = Msgs(Tail(s)) \cup {Head(s)}
<1>1. Msgs(s) \subseteq S
  BY ElementOfSeq DEF Msgs
<1>2. ASSUME NEW m \in S PROVE Msgs(Append(s, m)) = Msgs(s) \cup {m}
  <2>1. /\ Len(s) \in Nat /\ Len(Append(s, m)) = Len(s) + 1 /\ Append(s, m)[Len(s) + 1] = m
        /\ \A i \in 1..Len(s) : Append(s, m)[i] = s[i]
    BY AppendProperties, LenProperties
  <2>2. 1..(Len(s) + 1) = (1..Len(s)) \cup {Len(s) + 1}
    BY <2>1
  <2> QED BY <2>1, <2>2 DEF Msgs
<1>3. ASSUME NEW t \in Seq(S) PROVE Msgs(s \o t) = Msgs(s) \cup Msgs(t)
  <2>1. /\ Len(s) \in Nat /\ Len(t) \in Nat /\ Len(s \o t) = Len(s) + Len(t)
        /\ \A i \in 1..(Len(s) + Len(t)) :
              (s \o t)[i] = IF i <= Len(s) THEN s[i] ELSE t[i - Len(s)]
    BY ConcatProperties, LenProperties
  <2>2. ASSUME NEW x \in Msgs(s \o t) PROVE x \in Msgs(s) \cup Msgs(t)
    <3>1. PICK i \in 1..(Len(s) + Len(t)) : x = (s \o t)[i]
      BY <2>1 DEF Msgs
    <3>2. CASE i <= Len(s)
      <4>1. i \in 1..Len(s) /\ x = s[i]
        BY <2>1, <3>1, <3>2
      <4> QED BY <4>1 DEF Msgs
    <3>3. CASE ~(i <= Len(s))
      <4>1. i - Len(s) \in 1..Len(t) /\ x = t[i - Len(s)]
        BY <2>1, <3>1, <3>3
      <4> QED BY <4>1 DEF Msgs
    <3> QED BY <3>2, <3>3
  <2>3. ASSUME NEW x \in Msgs(s) PROVE x \in Msgs(s \o t)
    <3>1. PICK i \in 1..Len(s) : x = s[i]
      BY DEF Msgs
    <3>2. i \in 1..(Len(s) + Len(t)) /\ i <= Len(s)
      BY <2>1
    <3>3. x = (s \o t)[i]
      BY <2>1, <3>1, <3>2
    <3> QED BY <2>1, <3>2, <3>3 DEF Msgs
  <2>4. ASSUME NEW x \in Msgs(t) PROVE x \in Msgs(s \o t)
    <3>1. PICK i \in 1..Len(t) : x = t[i]
      BY DEF Msgs
    <3>2. /\ i + Len(s) \in 1..(Len(s) + Len(t)) /\ ~(i + Len(s) <= Len(s))
          /\ (i + Len(s)) - Len(s) = i
      BY <2>1
    <3>3. x = (s \o t)[i + Len(s)]
      BY <2>1, <3>1, <3>2
    <3> QED BY <2>1, <3>2, <3>3 DEF Msgs
  <2> QED BY <2>2, <2>3, <2>4
<1>4. ASSUME s # <<>>
      PROVE  /\ Head(s) \in Msgs(s) /\ Tail(s) \in Seq(S)
             /\ Msgs(s) = Msgs(Tail(s)) \cup {Head(s)}
  <2>1. /\ Len(s) \in Nat /\ Len(s) >= 1 /\ Head(s) = s[1] /\ Tail(s) \in Seq(S)
        /\ Len(Tail(s)) = Len(s) - 1
    BY <1>4, LenProperties, EmptySeq, HeadTailProperties
  <2>2. \A i \in 1..(Len(s) - 1) : Tail(s)[i] = s[i + 1]
    BY <1>4, HeadTailProperties, <2>1
  <2>3. ASSUME NEW x \in Msgs(s) PROVE x \in Msgs(Tail(s)) \cup {Head(s)}
    <3>1. PICK i \in 1..Len(s) : x = s[i]
      BY DEF Msgs
    <3>2. CASE i = 1
      BY <3>1, <3>2, <2>1
    <3>3. CASE i # 1
      <4>1. i - 1 \in 1..(Len(s) - 1) /\ (i - 1) + 1 = i
        BY <2>1, <3>3
      <4>2. x = Tail(s)[i - 1]
        BY <2>2, <3>1, <4>1
      <4> QED BY <2>1, <4>1, <4>2 DEF Msgs
    <3> QED BY <3>2, <3>3
  <2>4. ASSUME NEW x \in Msgs(Tail(s)) PROVE x \in Msgs(s)
    <3>1. PICK i \in 1..(Len(s) - 1) : x = Tail(s)[i]
      BY <2>1 DEF Msgs
    <3>2. i + 1 \in 1..Len(s) /\ x = s[i + 1]
      BY <2>1, <2>2, <3>1
    <3> QED BY <3>2 DEF Msgs
  <2>5. Head(s) \in Msgs(s)
    BY <2>1 DEF Msgs
  <2> QED BY <2>1, <2>3, <2>4, <2>5
<1> QED BY <1>1, <1>2, <1>3, <1>4

\* The types of the front-ends' messages and of the requests.
RequestTypeOK ==
    /\ first_req \in [Clients -> Nat] /\ front \in [Clients -> Seq(Nat)]
    /\ status \in [Reqs -> {"new", "sent", "queued", "done", "aborted"}]

\* The engine has voted to pause and the others as well.
Down(e) == epc[e] = "decide" /\ ~vote[e]

\* The wave that runs or is the next to run.
Coming == IF Down(0) THEN wave[0] + 1 ELSE wave[0]

(* All engines agree on it, and nobody has heard of a later one. *)
LEMMA ComingFacts ==
    ASSUME EngineTypeOK, WaveInv
    PROVE  /\ Coming \in Nat /\ KnownWaves(Coming)
           /\ \A e \in Engines : Coming = IF Down(e) THEN wave[e] + 1 ELSE wave[e]
<1>1. PICK W \in Nat : KnownWaves(W) /\ EnginesAt(W)
  BY DEF WaveInv
<1>2. 0 \in Engines /\ wave \in [Engines -> Nat]
  BY WavesAssumption DEF EngineTypeOK
<1>3. CASE \E e \in Engines : Down(e) /\ wave[e] = W
  <2>1. \A f \in Engines : Down(f) /\ wave[f] = W
    BY <1>1, <1>3 DEF EnginesAt, Down
  <2>2. Coming = W + 1
    BY <1>2, <2>1 DEF Coming
  <2> QED BY <1>1, <1>2, <2>1, <2>2, KnownWavesGrow
<1>4. CASE ~\E e \in Engines : Down(e) /\ wave[e] = W
  <2>1. \A f \in Engines : W = IF Down(f) THEN wave[f] + 1 ELSE wave[f]
    BY <1>1, <1>4 DEF EnginesAt, Down
  <2>2. Coming = W
    BY <1>2, <2>1 DEF Coming
  <2> QED BY <1>1, <2>1, <2>2
<1> QED BY <1>3, <1>4

\* What an iteration of the coordinator that takes a message of c and one of e may
\* do; N are the messages that it sends to every engine.
Outcome(c, e, N) ==
    /\ co_wave <= co_wave' /\ (co_running /\ co_wave' = co_wave => co_running')
    /\ IF co_wave' = co_wave /\ co_running' = co_running
       THEN sub' = sub \/ sub' = [d \in Clients |-> <<[wave |-> co_wave', running |-> co_running']>>]
       ELSE sub' = [d \in Clients |-> <<[wave |-> co_wave', running |-> co_running']>>]
    /\ \A f \in Engines : Msgs(from_coord'[f]) = Msgs(from_coord[f]) \cup N
    /\ \A m \in N : m.wave <= co_wave' /\ (m.wave = co_wave' => co_running')
    /\ c # Nobody /\ co_wave' = co_wave => co_running'
    /\ e # Nobody => LET m == Head(back[e]) IN
          /\ m.type = "start_wave" =>
                m.wave < co_wave' \/ (m.wave = co_wave' /\ co_running')
          /\ m.type = "wave_complete" => m.wave < co_wave'
    /\ co_running' /\ ~(co_running /\ co_wave' = co_wave) =>
          \E m \in N : /\ m.wave = co_wave'
                       /\ \/ m.exclude = Nobody
                          \/ /\ m.exclude = e /\ e # Nobody
                             /\ Head(back[e]) = [type |-> "start_wave", wave |-> co_wave']

(* OnFirstReq starts the current wave or finds that it runs already. *)
LEMMA FirstReqOutcome ==
    ASSUME NEW w
    PROVE  \/ OnFirstReq(State, w) = State /\ co_running
           \/ /\ ~co_running
              /\ OnFirstReq(State, w) =
                    [wave |-> co_wave, running |-> TRUE,
                     start |-> <<[wave |-> co_wave, exclude |-> Nobody]>>, changed |-> TRUE]
<1>1. CASE co_running
  BY <1>1 DEF OnFirstReq, State
<1>2. CASE ~co_running
  <2>1. OnFirstReq(State, w) =
            [State EXCEPT !.running = TRUE, !.changed = TRUE,
                          !.start = Append(@, [wave |-> co_wave, exclude |-> Nobody])]
    BY <1>2 DEF OnFirstReq, State
  <2>2. Append(<<>>, [wave |-> co_wave, exclude |-> Nobody])
            = <<[wave |-> co_wave, exclude |-> Nobody]>>
    OBVIOUS
  <2> QED BY <1>2, <2>1, <2>2 DEF State
<1> QED BY <1>1, <1>2

(* What the two messages of an iteration lead to. *)
LEMMA CoordinateOutcome ==
    ASSUME NEW W \in Nat, KnownWaves(W), RequestTypeOK, NEW c \in Clients \cup {Nobody},
           NEW e \in Engines \cup {Nobody}, Coordinate(c, e)
    PROVE  \E N : Outcome(c, e, N)
<1> DEFINE s1 == IF c = Nobody THEN State ELSE OnFirstReq(State, Head(front[c]))
           s2 == IF e = Nobody THEN s1 ELSE OnEngine(s1, Head(back[e]), e)
           first == [wave |-> co_wave, exclude |-> Nobody]
           m == Head(back[e])
           pub(w, r) == [d \in Clients |-> <<[wave |-> w, running |-> r]>>]
<1>1. /\ co_wave' = s2.wave /\ co_running' = s2.running
      /\ from_coord' = [f \in Engines |-> from_coord[f] \o s2.start]
      /\ IF s2.changed THEN sub' = pub(s2.wave, s2.running) ELSE sub' = sub
      /\ e # Nobody => back[e] # <<>>
  BY DEF Coordinate, Publish
<1>2. co_wave \in 0..W /\ co_running \in BOOLEAN /\ co_wave \in Nat
  BY DEF KnownWaves
<1>3. \/ s1 = State /\ (c # Nobody => co_running)
      \/ /\ ~co_running
         /\ s1 = [wave |-> co_wave, running |-> TRUE, start |-> <<first>>, changed |-> TRUE]
  BY FirstReqOutcome
<1>4. State = [wave |-> co_wave, running |-> co_running, start |-> <<>>, changed |-> FALSE]
  BY DEF State
<1>5. e # Nobody => /\ m \in EngineMsgs(W) /\ m.wave \in Nat
                    /\ \/ m.type = "wave_complete"
                       \/ m.type = "start_wave" /\ m = [type |-> "start_wave", wave |-> m.wave]
  <2> SUFFICES ASSUME e # Nobody PROVE <1>5!2
    OBVIOUS
  <2>1. e \in Engines /\ back[e] \in Seq(EngineMsgs(W)) /\ back[e] # <<>>
    BY <1>1 DEF KnownWaves
  <2>2. m \in EngineMsgs(W)
    BY <2>1
  <2> QED BY <2>2 DEF EngineMsgs
<1>6. Msgs(<<>>) = {} /\ (\A x : Msgs(<<x>>) = {x})
  <2>1. Msgs(<<>>) = {}
    BY DEF Msgs
  <2>2. ASSUME NEW x PROVE Msgs(<<x>>) = {x}
    BY DEF Msgs
  <2> QED BY <2>1, <2>2
<1>7. s1 \in CoordStates(W) /\ s2 \in CoordStates(W)
  <2>1. s1 \in CoordStates(W)
    BY CoordinatorStates
  <2>2. e # Nobody => OnEngine(s1, m, e) \in CoordStates(W)
    BY <1>5, <2>1, CoordinatorStates
  <2> QED BY <2>1, <2>2
<1> DEFINE N == Msgs(s2.start)
<1>8. \A f \in Engines : Msgs(from_coord'[f]) = Msgs(from_coord[f]) \cup N
  <2> SUFFICES ASSUME NEW f \in Engines PROVE Msgs(from_coord'[f]) = Msgs(from_coord[f]) \cup N
    OBVIOUS
  <2>1. s2.start \in Seq(StartMsgs(W)) /\ from_coord[f] \in Seq(StartMsgs(W))
    BY <1>7 DEF CoordStates, KnownWaves
  <2>2. from_coord'[f] = from_coord[f] \o s2.start
    BY <1>1
  <2> HIDE DEF s2
  <2> QED BY <2>1, <2>2, MsgsFacts
<1>9. \/ /\ s1.wave = co_wave /\ s1.running = co_running /\ s1.start = <<>> /\ s1.changed = FALSE
         /\ (c # Nobody => co_running)
      \/ /\ s1.wave = co_wave /\ s1.running = TRUE /\ s1.start = <<first>> /\ s1.changed = TRUE
         /\ ~co_running
  <2> HIDE DEF s1
  <2>1. CASE s1 = State /\ (c # Nobody => co_running)
    <3>1. /\ s1.wave = co_wave /\ s1.running = co_running /\ s1.start = <<>>
          /\ s1.changed = FALSE
      BY <2>1, <1>4
    <3> QED BY <3>1, <2>1
  <2>2. CASE /\ ~co_running
             /\ s1 = [wave |-> co_wave, running |-> TRUE, start |-> <<first>>, changed |-> TRUE]
    <3>1. s1.wave = co_wave /\ s1.running = TRUE /\ s1.start = <<first>> /\ s1.changed = TRUE
      BY <2>2
    <3> QED BY <3>1, <2>2
  <2> QED BY <2>1, <2>2, <1>3
<1>10. \/ s2 = s1 /\ e = Nobody
       \/ s2 = s1 /\ e # Nobody /\ m.wave < s1.wave
       \/ s2 = s1 /\ e # Nobody /\ m.type = "start_wave" /\ m.wave = s1.wave /\ s1.running
       \/ /\ e # Nobody /\ m.type = "wave_complete" /\ s1.wave <= m.wave
          /\ s2 = [s1 EXCEPT !.wave = m.wave + 1, !.running = FALSE, !.changed = TRUE]
       \/ /\ e # Nobody /\ m.type = "start_wave"
          /\ m.wave > s1.wave \/ (m.wave = s1.wave /\ ~s1.running)
          /\ s2 = [s1 EXCEPT !.wave = m.wave, !.running = TRUE, !.changed = TRUE,
                             !.start = Append(@, [wave |-> m.wave, exclude |-> e])]
  <2> HIDE DEF s1
  <2>1. s1.wave \in Nat /\ s1.running \in BOOLEAN
    BY <1>9, <1>2
  <2>2. CASE e = Nobody
    BY <2>2
  <2>3. CASE e # Nobody /\ m.type = "wave_complete"
    <3>1. s2 = OnWaveComplete(s1, m.wave)
      BY <2>3 DEF OnEngine
    <3>2. m.wave \in Nat
      BY <2>3, <1>5
    <3> HIDE DEF m, s2
    <3> QED BY <2>1, <2>3, <3>1, <3>2 DEF OnWaveComplete
  <2>4. CASE e # Nobody /\ m.type = "start_wave"
    <3>1. s2 = OnStartWave(s1, m.wave, e)
      BY <2>4 DEF OnEngine
    <3>2. m.wave \in Nat
      BY <2>4, <1>5
    <3> HIDE DEF m, s2
    <3> QED BY <2>1, <2>4, <3>1, <3>2 DEF OnStartWave
  <2> QED BY <2>2, <2>3, <2>4, <1>5
<1>11. s1 = [wave |-> s1.wave, running |-> s1.running, start |-> s1.start, changed |-> s1.changed]
  <2> HIDE DEF s1
  <2>1. s1 \in [wave : {s1.wave}, running : {s1.running}, start : {s1.start}, changed : {s1.changed}]
    BY <1>3, <1>4
  <2> QED BY <2>1
<1> DEFINE own == [wave |-> m.wave, exclude |-> e]
<1>12. e # Nobody /\ m.type = "start_wave" =>
          Msgs(Append(s1.start, own)) = Msgs(s1.start) \cup {own}
  <2> SUFFICES ASSUME e # Nobody, m.type = "start_wave"
               PROVE  Msgs(Append(s1.start, own)) = Msgs(s1.start) \cup {own}
    OBVIOUS
  <2>1. s1.start \in Seq(StartMsgs(W))
    BY <1>7 DEF CoordStates
  <2>2. m.wave \in 0..W
    BY <1>5 DEF EngineMsgs
  <2>3. own \in StartMsgs(W)
    BY <2>2 DEF StartMsgs
  <2> HIDE DEF own, s1
  <2> QED BY <2>1, <2>3, MsgsFacts
<1> HIDE DEF s1, s2, m, N
<1>14. CASE s2 = s1
  <2>1. /\ co_wave' = co_wave /\ co_running' = s1.running
        /\ N = IF s1.start = <<>> THEN {} ELSE {first}
    BY <1>1, <1>14, <1>9, <1>6 DEF N
  <2>2. IF co_running' = co_running THEN sub' = sub \/ sub' = pub(co_wave', co_running')
        ELSE sub' = pub(co_wave', co_running')
    BY <1>1, <1>14, <1>9
  <2>3. first.wave = co_wave /\ first.exclude = Nobody
    OBVIOUS
  <2>4. c # Nobody => co_running'
    BY <2>1, <1>9
  <2>5. e # Nobody => /\ m.type = "start_wave" =>
                             m.wave < co_wave' \/ (m.wave = co_wave' /\ co_running')
                      /\ m.type = "wave_complete" => m.wave < co_wave'
    <3> SUFFICES ASSUME e # Nobody, ~(m.wave < co_wave')
                 PROVE  m.type = "start_wave" /\ m.wave = co_wave' /\ co_running'
      BY <1>5
    <3>1. m.wave \in Nat /\ s1.wave = co_wave
      BY <1>5, <1>9
    <3>2. ~(m.wave < s1.wave)
      BY <2>1, <3>1
    <3>3. m.type = "start_wave" /\ m.wave = s1.wave /\ s1.running
      <4>1. ASSUME s2 = [s1 EXCEPT !.wave = m.wave + 1, !.running = FALSE, !.changed = TRUE] PROVE FALSE
        <5>1. s1.wave = m.wave + 1
          BY <4>1, <1>14, <1>11
        <5> QED BY <5>1, <3>1, <3>2
      <4>2. ASSUME s2 = [s1 EXCEPT !.wave = m.wave, !.running = TRUE, !.changed = TRUE,
                                   !.start = Append(@, [wave |-> m.wave, exclude |-> e])]
            PROVE  m.wave = s1.wave /\ s1.running
        <5>1. s1.wave = m.wave /\ s1.running = TRUE
          BY <4>2, <1>14, <1>11
        <5> QED BY <5>1
      <4> QED BY <1>10, <3>2, <4>1, <4>2
    <3> QED BY <2>1, <3>1, <3>3
  <2>6. co_running => co_running'
    BY <2>1, <1>9
  <2>7. \A x \in N : x.wave <= co_wave' /\ (x.wave = co_wave' => co_running')
    BY <2>1, <2>3, <1>9, <1>2
  <2>8. co_running' /\ ~co_running => \E x \in N : x.wave = co_wave' /\ x.exclude = Nobody
    <3> SUFFICES ASSUME co_running', ~co_running
                 PROVE  \E x \in N : x.wave = co_wave' /\ x.exclude = Nobody
      OBVIOUS
    <3>1. s1.running
      BY <2>1
    <3>2. s1.start = <<first>>
      BY <3>1, <1>9
    <3>3. N = {first}
      BY <2>1, <3>2
    <3> QED BY <2>1, <2>3, <3>3
  <2>9. Outcome(c, e, N)
    BY <2>1, <2>2, <2>4, <2>5, <2>6, <2>7, <2>8, <1>2, <1>8 DEF Outcome, m
  <2> QED BY <2>9
<1>15. CASE /\ e # Nobody /\ m.type = "wave_complete" /\ s1.wave <= m.wave
            /\ s2 = [s1 EXCEPT !.wave = m.wave + 1, !.running = FALSE, !.changed = TRUE]
  <2>1. s2.wave = m.wave + 1 /\ s2.running = FALSE /\ s2.changed = TRUE /\ s2.start = s1.start
    BY <1>15, <1>11
  <2>2. /\ co_wave' = m.wave + 1 /\ co_running' = FALSE /\ m.wave \in Nat /\ co_wave <= m.wave
        /\ N = IF s1.start = <<>> THEN {} ELSE {first}
    BY <1>1, <1>5, <1>9, <1>6, <1>15, <2>1 DEF N
  <2>3. sub' = pub(co_wave', co_running')
    BY <1>1, <2>1
  <2>4. first.wave = co_wave
    OBVIOUS
  <2>5. \A x \in N : x.wave <= co_wave' /\ x.wave # co_wave'
    BY <2>2, <2>4, <1>2
  <2>6. co_wave <= co_wave' /\ co_wave' # co_wave /\ m.wave < co_wave'
    BY <2>2, <1>2
  <2>7. Outcome(c, e, N)
    BY <2>2, <2>3, <2>5, <2>6, <1>8, <1>15 DEF Outcome, m
  <2> QED BY <2>7
<1>16. CASE /\ e # Nobody /\ m.type = "start_wave"
            /\ m.wave > s1.wave \/ (m.wave = s1.wave /\ ~s1.running)
            /\ s2 = [s1 EXCEPT !.wave = m.wave, !.running = TRUE, !.changed = TRUE,
                               !.start = Append(@, [wave |-> m.wave, exclude |-> e])]
  <2>1. /\ s2.wave = m.wave /\ s2.running = TRUE /\ s2.changed = TRUE
        /\ s2.start = Append(s1.start, own)
    BY <1>16, <1>11
  <2>2. N = Msgs(s1.start) \cup {own}
    BY <1>12, <1>16, <2>1 DEF N
  <2>3. /\ co_wave' = m.wave /\ co_running' = TRUE /\ m.wave \in Nat /\ co_wave <= m.wave
        /\ Msgs(s1.start) \subseteq {first}
    <3>1. co_wave' = m.wave /\ co_running' = TRUE /\ m.wave \in Nat
      BY <1>1, <1>5, <1>16, <2>1
    <3>2. s1.wave = co_wave
      BY <1>9
    <3>3. co_wave <= m.wave
      BY <1>2, <1>16, <3>1, <3>2
    <3>4. s1.start = <<>> \/ s1.start = <<first>>
      BY <1>9
    <3>5. Msgs(s1.start) \subseteq {first}
      <4> HIDE DEF first
      <4> QED BY <3>4, <1>6
    <3> QED BY <3>1, <3>3, <3>5
  <2>4. sub' = pub(co_wave', co_running')
    BY <1>1, <2>1
  <2>5. first.wave = co_wave /\ own.wave = co_wave' /\ own.exclude = e
    BY <2>3
  <2>6. \A x \in N : x.wave <= co_wave'
    BY <2>2, <2>3, <2>5, <1>2
  <2>7. own \in N /\ m = [type |-> "start_wave", wave |-> co_wave']
    BY <2>2, <2>3, <1>5, <1>16
  <2>8. co_wave <= co_wave'
    BY <2>3, <1>2
  <2> HIDE DEF own, first
  <2>9. Outcome(c, e, N)
    BY <2>3, <2>4, <2>5, <2>6, <2>7, <2>8, <1>8, <1>16 DEF Outcome, m
  <2> QED BY <2>9
<1> QED BY <1>10, <1>14, <1>15, <1>16

(* The types of the front-ends' messages and of the requests are kept. *)
LEMMA RequestTypeStep ==
    ASSUME RequestTypeOK, NEW W \in Nat, KnownWaves(W), [Next]_vars
    PROVE  RequestTypeOK'
<1> USE DEF RequestTypeOK
<1>1. ASSUME UNCHANGED <<first_req, front, status>> PROVE RequestTypeOK'
  BY <1>1
<1>2. ASSUME NEW r \in Reqs, NEW e \in Engines, AddRequest(r, e) PROVE RequestTypeOK'
  <2>1. /\ status' = [status EXCEPT ![r] = "sent"] /\ front' = front
        /\ first_req' = [first_req EXCEPT ![ClientOf[r]] =
                            @ + IF c_running[ClientOf[r]] THEN 0 ELSE 1]
    BY <1>2 DEF AddRequest, coord
  <2>2. ClientOf[r] \in Clients
    BY WavesAssumption
  <2>3. \A b \in BOOLEAN : first_req[ClientOf[r]] + (IF b THEN 0 ELSE 1) \in Nat
    BY <2>2
  <2>4. c_running[ClientOf[r]] \in BOOLEAN
    BY <2>2 DEF KnownWaves
  <2>5. first_req[ClientOf[r]] + (IF c_running[ClientOf[r]] THEN 0 ELSE 1) \in Nat
    BY <2>3, <2>4
  <2> QED BY <2>1, <2>2, <2>5
<1>3. ASSUME NEW r \in Reqs, NEW e \in Engines, AbortRequest(r, e) PROVE RequestTypeOK'
  BY <1>1, <1>3 DEF AbortRequest, client, coord, request
<1>4. ASSUME NEW c \in Clients, SendFirstReq(c) PROVE RequestTypeOK'
  <2>1. /\ first_req[c] > 0 /\ first_req' = [first_req EXCEPT ![c] = @ - 1]
        /\ front' = [front EXCEPT ![c] = Append(@, c_wave[c])] /\ status' = status
    BY <1>4 DEF SendFirstReq, request
  <2>2. first_req[c] \in Nat /\ c_wave[c] \in Nat
    BY DEF KnownWaves
  <2>3. first_req[c] - 1 \in Nat /\ Append(front[c], c_wave[c]) \in Seq(Nat)
    BY <2>1, <2>2, AppendProperties
  <2> QED BY <2>1, <2>3
<1>5. ASSUME NEW c \in Clients, ReadState(c) PROVE RequestTypeOK'
  BY <1>1, <1>5 DEF ReadState, coord, request
<1>6. ASSUME NEW c \in Clients \cup {Nobody}, NEW e \in Engines \cup {Nobody}, Coordinate(c, e)
      PROVE  RequestTypeOK'
  <2>1. /\ UNCHANGED <<first_req, status>>
        /\ front' = front \/ (c \in Clients /\ front[c] # <<>>
                              /\ front' = [front EXCEPT ![c] = Tail(@)])
    BY <1>6 DEF Coordinate, request
  <2>2. c \in Clients /\ front[c] # <<>> => Tail(front[c]) \in Seq(Nat)
    BY HeadTailProperties
  <2> QED BY <2>1, <2>2
<1>7. CASE Republish
  BY <1>1, <1>7 DEF Republish, coord, request
<1>8. ASSUME NEW e \in Engines, NEW c \in Clients, HandleAdd(e, c) \/ HandleAbort(e, c)
      PROVE  RequestTypeOK'
  <2>1. from_client[e][c] # <<>> /\ UNCHANGED <<first_req, front>>
    BY <1>8 DEF HandleAdd, HandleAbort, client, coord
  <2>2. Head(from_client[e][c]) \in ClientMsgs(W)
    BY <2>1, FirstOfClient
  <2>3. Head(from_client[e][c]).req \in Reqs
    BY <2>2 DEF ClientMsgs
  <2> QED BY <1>8, <2>1, <2>3 DEF HandleAdd, HandleAbort, Aborted
<1>9. ASSUME NEW e \in Engines, HandleStart(e) \/ BeginStep(e) \/ Decide(e)
      PROVE  RequestTypeOK'
  BY <1>1, <1>9 DEF HandleStart, BeginStep, Decide, client, coord, request
<1>10. ASSUME NEW early, ForwardPass(early) PROVE RequestTypeOK'
  <2>1. UNCHANGED <<first_req, front>> /\ status' \in [Reqs -> {"new", "sent", "queued", "done", "aborted"}]
    BY <1>10 DEF ForwardPass, client, coord
  <2> QED BY <2>1
<1>11. CASE AllReduce
  BY <1>1, <1>11 DEF AllReduce, client, coord, request
<1>12. CASE UNCHANGED vars
  BY <1>1, <1>12 DEF vars, client, coord, request
<1> QED BY <1>2, <1>3, <1>4, <1>5, <1>6, <1>7, <1>8, <1>9, <1>10, <1>11, <1>12
    DEF Next, ClientStep, CoordinatorStep, EngineStep, Collective

\* What front-ends take for the state of the coordinator: it is what they read next,
\* or what they have read, or they have announced a request.
Beliefs ==
    \A c \in Clients :
        /\ sub[c] = <<>> =>
              /\ c_wave[c] = co_wave
              /\ c_running[c] = co_running \/ (c_running[c] /\ front[c] # <<>>)
        /\ sub[c] # <<>> => sub[c][1] = [wave |-> co_wave, running |-> co_running]
        /\ c_running[c] /\ c_wave[c] = co_wave => co_running \/ front[c] # <<>>

(* The front-ends' beliefs stay like that. *)
LEMMA BeliefsStep ==
    ASSUME Beliefs, RequestTypeOK, NEW W \in Nat, KnownWaves(W), [Next]_vars
    PROVE  Beliefs'
<1>1. ASSUME UNCHANGED <<sub, c_wave, c_running, co_wave, co_running, front>> PROVE Beliefs'
  BY <1>1 DEF Beliefs
<1>2. ASSUME NEW r \in Reqs, NEW e \in Engines, AddRequest(r, e) \/ AbortRequest(r, e)
      PROVE  Beliefs'
  BY <1>1, <1>2 DEF AddRequest, AbortRequest, client, coord
<1>3. ASSUME NEW c \in Clients, SendFirstReq(c) PROVE Beliefs'
  <2>1. /\ c_running' = [c_running EXCEPT ![c] = TRUE]
        /\ front' = [front EXCEPT ![c] = Append(@, c_wave[c])]
        /\ UNCHANGED <<c_wave, sub, co_wave, co_running>>
    BY <1>3 DEF SendFirstReq
  <2>2. c_running \in [Clients -> BOOLEAN] /\ c_wave[c] \in Nat /\ front[c] \in Seq(Nat)
    BY DEF KnownWaves, RequestTypeOK
  <2>3. Append(front[c], c_wave[c]) # <<>>
    BY <2>2, AppendProperties
  <2>4. front'[c] # <<>> /\ c_running'[c] /\ \A d \in Clients \ {c} : front'[d] = front[d] /\ c_running'[d] = c_running[d]
    BY <2>1, <2>2, <2>3 DEF RequestTypeOK
  <2> QED BY <2>1, <2>4 DEF Beliefs
<1>4. ASSUME NEW c \in Clients, ReadState(c) PROVE Beliefs'
  <2>1. /\ sub[c] # <<>>
        /\ c_wave' = [c_wave EXCEPT ![c] = sub[c][1].wave]
        /\ c_running' = [c_running EXCEPT ![c] = sub[c][1].running]
        /\ sub' = [sub EXCEPT ![c] = <<>>]
        /\ UNCHANGED <<co_wave, co_running, front>>
    BY <1>4 DEF ReadState, coord
  <2>2. sub[c][1].wave = co_wave /\ sub[c][1].running = co_running
    BY <2>1 DEF Beliefs
  <2>3. /\ sub'[c] = <<>> /\ c_wave'[c] = co_wave /\ c_running'[c] = co_running
        /\ \A d \in Clients \ {c} : sub'[d] = sub[d] /\ c_wave'[d] = c_wave[d] /\ c_running'[d] = c_running[d]
    BY <2>1, <2>2 DEF KnownWaves
  <2> QED BY <2>1, <2>3 DEF Beliefs
<1>5. ASSUME NEW c \in Clients \cup {Nobody}, NEW e \in Engines \cup {Nobody}, Coordinate(c, e)
      PROVE  Beliefs'
  <2>1. PICK N : Outcome(c, e, N)
    BY <1>5, CoordinateOutcome
  <2>2. /\ UNCHANGED <<c_wave, c_running>>
        /\ \A d \in Clients : front'[d] = front[d] \/ (d = c /\ c # Nobody)
    BY <1>5 DEF Coordinate, RequestTypeOK
  <2>3. /\ co_wave \in Nat /\ co_wave' \in Nat /\ co_running \in BOOLEAN /\ co_running' \in BOOLEAN
        /\ c_wave \in [Clients -> 0..co_wave] /\ c_running \in [Clients -> BOOLEAN]
    <3>1. KnownWaves(W)'
      BY <1>5, CoordinateStep
    <3>2. co_wave \in 0..W /\ co_running \in BOOLEAN /\ co_wave' \in 0..W /\ co_running' \in BOOLEAN
      BY <3>1 DEF KnownWaves
    <3>3. c_wave \in [Clients -> 0..co_wave] /\ c_running \in [Clients -> BOOLEAN]
      BY DEF KnownWaves
    <3> QED BY <3>2, <3>3
  <2> SUFFICES ASSUME NEW d \in Clients
               PROVE  /\ sub'[d] = <<>> =>
                            /\ c_wave[d] = co_wave'
                            /\ c_running[d] = co_running' \/ (c_running[d] /\ front'[d] # <<>>)
                      /\ sub'[d] # <<>> => sub'[d][1] = [wave |-> co_wave', running |-> co_running']
                      /\ c_running[d] /\ c_wave[d] = co_wave' => co_running' \/ front'[d] # <<>>
    BY <2>2 DEF Beliefs
  <2>4. /\ sub[d] = <<>> =>
              /\ c_wave[d] = co_wave
              /\ c_running[d] = co_running \/ (c_running[d] /\ front[d] # <<>>)
        /\ sub[d] # <<>> => sub[d][1] = [wave |-> co_wave, running |-> co_running]
        /\ c_running[d] /\ c_wave[d] = co_wave => co_running \/ front[d] # <<>>
    BY DEF Beliefs
  <2>5. ASSUME c_running[d], c_wave[d] = co_wave' PROVE co_running' \/ front'[d] # <<>>
    <3>1. co_wave' = co_wave
      BY <2>1, <2>3, <2>5 DEF Outcome
    <3>2. co_running => co_running'
      BY <2>1, <3>1 DEF Outcome
    <3>3. d = c /\ c # Nobody => co_running'
      BY <2>1, <3>1 DEF Outcome
    <3> QED BY <2>2, <2>4, <2>5, <3>1, <3>2, <3>3
  <2>6. CASE sub' = [x \in Clients |-> <<[wave |-> co_wave', running |-> co_running']>>]
    <3>1. sub'[d] = <<[wave |-> co_wave', running |-> co_running']>>
      BY <2>6
    <3> QED BY <3>1, <2>5
  <2>7. CASE sub' = sub /\ co_wave' = co_wave /\ co_running' = co_running
    <3>1. d = c /\ c # Nobody => co_running
      BY <2>1, <2>7 DEF Outcome
    <3>2. c_running[d] \in BOOLEAN
      BY <2>3
    <3> QED BY <2>2, <2>3, <2>4, <2>5, <2>7, <3>1, <3>2
  <2> QED BY <2>1, <2>6, <2>7 DEF Outcome
<1>6. CASE Republish
  <2>1. sub' = [d \in Clients |-> <<[wave |-> co_wave, running |-> co_running]>>]
        /\ UNCHANGED <<c_wave, c_running, co_wave, co_running, front>>
    BY <1>6 DEF Republish, Publish, coord
  <2>2. \A d \in Clients : sub'[d] = <<[wave |-> co_wave, running |-> co_running]>>
    BY <2>1
  <2> QED BY <2>1, <2>2 DEF Beliefs
<1>7. ASSUME NEW e \in Engines, EngineStep(e) PROVE Beliefs'
  BY <1>1, <1>7 DEF EngineStep, HandleAdd, HandleAbort, HandleStart, BeginStep, Decide, client, coord
<1>8. CASE Collective
  BY <1>1, <1>8 DEF Collective, ForwardPass, AllReduce, client, coord
<1>9. CASE UNCHANGED vars
  BY <1>1, <1>9 DEF vars, client, coord
<1> QED BY <1>2, <1>3, <1>4, <1>5, <1>6, <1>7, <1>8, <1>9
    DEF Next, ClientStep, CoordinatorStep

\* The engine takes part in the wave.
Going(e) == \/ epc[e] \in {"forward", "reduce"}
            \/ epc[e] = "decide" /\ vote[e]
            \/ epc[e] = "input" /\ running[e]

\* A step in which all engines learn that the wave is over.
Ends == AllReduce /\ \A e \in Engines : Down(e)'

(* A wave ends in no other way, and until then who takes part in it goes on. *)
LEMMA ComingStep ==
    ASSUME EngineTypeOK, EngineTypeOK', InStep, WaveInv, [Next]_vars, ~Ends
    PROVE  Coming' = Coming /\ \A e \in Engines : Going(e) => Going(e)'
<1>1. PICK W \in Nat : KnownWaves(W) /\ EnginesAt(W)
  BY DEF WaveInv
<1>2. 0 \in Engines
  BY WavesAssumption
<1>3. ASSUME UNCHANGED <<wave, epc, vote>>, \A e \in Engines : running[e] => running'[e]
      PROVE  Coming' = Coming /\ \A e \in Engines : Going(e) => Going(e)'
  BY <1>3 DEF Coming, Down, Going
<1>4. ASSUME NEW r \in Reqs, NEW e \in Engines, AddRequest(r, e) \/ AbortRequest(r, e)
      PROVE  UNCHANGED engine
  BY <1>4 DEF AddRequest, AbortRequest, engine
<1>5. ASSUME NEW c \in Clients, ClientStep(c) PROVE UNCHANGED engine
  BY <1>5 DEF ClientStep, SendFirstReq, ReadState
<1>6. ASSUME CoordinatorStep \/ Republish PROVE UNCHANGED engine
  BY <1>6 DEF CoordinatorStep, Coordinate, Republish
<1>7. ASSUME NEW e \in Engines, HandleStart(e) \/ \E c \in Clients : HandleAdd(e, c) \/ HandleAbort(e, c)
      PROVE  Coming' = Coming /\ \A f \in Engines : Going(f) => Going(f)'
  <2>1. UNCHANGED <<wave, epc, vote>>
    BY <1>1, <1>7, MessageWaves
  <2>2. \A f \in Engines : running[f] => running'[f]
    BY <1>7 DEF HandleStart, HandleAdd, HandleAbort, engine, EngineTypeOK
  <2> QED BY <2>1, <2>2, <1>3
<1>8. ASSUME NEW e \in Engines, BeginStep(e)
      PROVE  Coming' = Coming /\ \A f \in Engines : Going(f) => Going(f)'
  <2>1. epc[e] = "input" /\ epc'[e] = "forward" /\ UNCHANGED <<wave, running, vote>>
        /\ \A f \in Engines \ {e} : epc'[f] = epc[f]
    BY <1>8 DEF BeginStep, EngineTypeOK
  <2> QED BY <1>2, <2>1 DEF Coming, Down, Going
<1>9. ASSUME NEW e \in Engines, Decide(e)
      PROVE  Coming' = Coming /\ \A f \in Engines : Going(f) => Going(f)'
  <2>1. /\ epc[e] = "decide" /\ epc'[e] = "input" /\ running'[e] = vote[e]
        /\ wave'[e] = IF vote[e] THEN wave[e] ELSE wave[e] + 1
        /\ \A f \in Engines \ {e} : /\ epc'[f] = epc[f] /\ running'[f] = running[f]
                                    /\ vote'[f] = vote[f] /\ wave'[f] = wave[f]
    BY <1>9 DEF Decide, EngineTypeOK
  <2> QED BY <1>2, <2>1 DEF Coming, Down, Going
<1>10. ASSUME NEW early, ForwardPass(early)
       PROVE  Coming' = Coming /\ \A f \in Engines : Going(f) => Going(f)'
  <2>1. /\ \A e \in Engines : epc[e] = "forward" /\ UNCHANGED wave
        /\ \A e \in Engines : /\ epc'[e] = "reduce" \/ (epc'[e] = "input" /\ running'[e])
    BY <1>10 DEF ForwardPass
  <2> QED BY <1>2, <2>1 DEF Coming, Down, Going
<1>11. ASSUME AllReduce
       PROVE  Coming' = Coming /\ \A f \in Engines : Going(f) => Going(f)'
  <2>1. /\ \A e \in Engines : epc[e] = "reduce" /\ epc'[e] = "decide"
        /\ \A e \in Engines : vote'[e] = \E f \in Engines : vote[f]
        /\ wave' = wave
    BY <1>11 DEF AllReduce
  <2>2. PICK e \in Engines : ~Down(e)'
    BY <1>11 DEF Ends
  <2>3. vote'[e]
    BY <2>1, <2>2 DEF Down
  <2>4. \A f \in Engines : vote'[f]
    BY <2>1, <2>3
  <2> QED BY <1>2, <2>1, <2>4 DEF Coming, Down, Going
<1>12. ASSUME UNCHANGED vars PROVE UNCHANGED engine
  BY <1>12 DEF vars
<1>13. ASSUME UNCHANGED engine PROVE Coming' = Coming /\ \A e \in Engines : Going(e) => Going(e)'
  BY <1>3, <1>13 DEF engine
<1> QED BY <1>4, <1>5, <1>6, <1>7, <1>8, <1>9, <1>10, <1>11, <1>12, <1>13
    DEF Next, EngineStep, Collective

(* At the end of a wave nobody has heard of the next one. *)
LEMMA EndOfWave ==
    ASSUME EngineTypeOK, InStep, WaveInv, Ends
    PROVE  /\ Coming' = Coming + 1 /\ \A e \in Engines : ~Going(e)' /\ epc'[e] = "decide"
           /\ UNCHANGED <<client, coord, wave, to_engine, request>>
<1>1. /\ \A e \in Engines : epc[e] = "reduce" /\ epc'[e] = "decide" /\ ~vote'[e]
      /\ UNCHANGED <<client, coord, wave, to_engine, request>> /\ 0 \in Engines
  BY WavesAssumption DEF AllReduce, Ends, Down
<1> QED BY <1>1 DEF Coming, Down, Going

Completed(w) == [type |-> "wave_complete", wave |-> w]
StartOf(w)   == [type |-> "start_wave", wave |-> w]

\* The coordinator knows of every wave that rank 0 has ended, or will be told.
Reported == \A w \in Nat : co_wave <= w /\ w < wave[0] => Completed(w) \in Msgs(back[0])

\* The engine will read that it has to start the coming wave.
Told(e) == \E m \in Msgs(from_coord[e]) : m.wave = Coming /\ m.exclude # e

\* A wave that the coordinator has started has an engine that takes part in it.
StartedGoes == co_running /\ co_wave = Coming => \E e \in Engines : Going(e) \/ Told(e)

(* What happens to the messages for the coordinator in a step of an engine. *)
LEMMA ToCoordinatorStays ==
    ASSUME NEW W \in Nat, KnownWaves(W), NEW e \in Engines, NEW m \in EngineMsgs(W),
           back' = [back EXCEPT ![e] = Append(@, m)]
    PROVE  /\ \A f \in Engines \ {e} : back'[f] = back[f]
           /\ Msgs(back'[e]) = Msgs(back[e]) \cup {m}
<1>1. back[e] \in Seq(EngineMsgs(W)) /\ back'[e] = Append(back[e], m)
  BY DEF KnownWaves
<1> QED BY <1>1, MsgsFacts DEF KnownWaves

(* What rank 0 reports reaches the coordinator. *)
LEMMA ReportedStep ==
    ASSUME EngineTypeOK, InStep, WaveInv, RequestTypeOK, Reported, [Next]_vars
    PROVE  Reported'
<1>1. PICK W \in Nat : KnownWaves(W) /\ EnginesAt(W)
  BY DEF WaveInv
<1>2. 0 \in Engines /\ Nobody \notin Engines
  BY WavesAssumption
<1>3. ASSUME wave'[0] = wave[0], co_wave' = co_wave, Msgs(back[0]) \subseteq Msgs(back'[0])
      PROVE  Reported'
  BY <1>3 DEF Reported
<1>4. ASSUME UNCHANGED <<wave, co_wave, back>> PROVE Reported'
  BY <1>3, <1>4
<1>5. ASSUME NEW r \in Reqs, NEW e \in Engines, AddRequest(r, e) \/ AbortRequest(r, e)
      PROVE  Reported'
  BY <1>4, <1>5 DEF AddRequest, AbortRequest, coord, engine
<1>6. ASSUME NEW c \in Clients, ClientStep(c) PROVE Reported'
  BY <1>4, <1>6 DEF ClientStep, SendFirstReq, ReadState, coord, engine
<1>7. ASSUME NEW c \in Clients \cup {Nobody}, NEW e \in Engines \cup {Nobody}, Coordinate(c, e)
      PROVE  Reported'
  <2>1. PICK N : Outcome(c, e, N)
    BY <1>1, <1>7, CoordinateOutcome
  <2>2. /\ wave' = wave
        /\ e # Nobody => back[e] # <<>>
        /\ back' = IF e = Nobody THEN back ELSE [back EXCEPT ![e] = Tail(@)]
    BY <1>7 DEF Coordinate, engine
  <2>3. co_wave \in Nat /\ co_wave' \in Nat /\ co_wave <= co_wave' /\ back[0] \in Seq(EngineMsgs(W))
    <3>1. KnownWaves(W)'
      BY <1>1, <1>7, CoordinateStep
    <3>2. co_wave \in 0..W /\ co_wave' \in 0..W
      BY <1>1, <3>1 DEF KnownWaves
    <3>3. co_wave <= co_wave'
      BY <2>1 DEF Outcome
    <3> QED BY <1>1, <1>2, <3>2, <3>3 DEF KnownWaves
  <2>4. CASE e # 0
    <3>1. back'[0] = back[0]
      BY <1>1, <1>2, <2>2, <2>4 DEF KnownWaves
    <3> QED BY <2>2, <2>3, <3>1 DEF Reported
  <2>5. CASE e = 0
    <3>1. back[0] # <<>> /\ back'[0] = Tail(back[0]) /\ e # Nobody
      BY <1>1, <1>2, <2>2, <2>5 DEF KnownWaves
    <3>2. Msgs(back[0]) = Msgs(back'[0]) \cup {Head(back[0])}
      BY <2>3, <3>1, MsgsFacts
    <3>3. Head(back[0]).type = "wave_complete" => Head(back[0]).wave < co_wave'
      BY <2>1, <2>5, <3>1 DEF Outcome
    <3> SUFFICES ASSUME NEW w \in Nat, co_wave' <= w, w < wave[0]
                 PROVE  Completed(w) \in Msgs(back'[0])
      BY <2>2 DEF Reported
    <3>4. co_wave <= w
      BY <2>3
    <3>5. Completed(w) \in Msgs(back[0])
      BY <3>4 DEF Reported
    <3>6. Completed(w) # Head(back[0])
      <4> SUFFICES ASSUME Completed(w) = Head(back[0]) PROVE FALSE
        OBVIOUS
      <4>1. Head(back[0]).type = "wave_complete" /\ Head(back[0]).wave = w
        BY DEF Completed
      <4>2. w < co_wave'
        BY <3>3, <4>1
      <4> QED BY <4>2, <2>3
    <3> QED BY <3>2, <3>5, <3>6
  <2> QED BY <2>4, <2>5
<1>8. CASE Republish
  BY <1>4, <1>8 DEF Republish, coord, engine
<1>9. ASSUME NEW e \in Engines, NEW c \in Clients, HandleAdd(e, c) PROVE Reported'
  <2>1. UNCHANGED <<wave, co_wave>> /\ wave[e] = W
    <3>1. UNCHANGED wave
      BY <1>1, <1>9, MessageWaves
    <3>2. wave[e] = W
      BY <1>1, <1>9, InNewestWave DEF HandleAdd
    <3> QED BY <1>9, <3>1, <3>2 DEF HandleAdd
  <2>2. CASE back' = back
    BY <2>1, <2>2, <1>4
  <2>3. CASE back' = [back EXCEPT ![e] = Append(@, StartOf(W))]
    <3>1. StartOf(W) \in EngineMsgs(W)
      BY DEF StartOf, EngineMsgs
    <3>2. Msgs(back[0]) \subseteq Msgs(back'[0])
      BY <1>1, <1>2, <2>3, <3>1, ToCoordinatorStays
    <3> QED BY <1>3, <2>1, <3>2
  <2>4. back' = back \/ back' = [back EXCEPT ![e] = Append(@, StartOf(W))]
    <3>1. back' = [back EXCEPT ![e] = back[e]] \/ back' = [back EXCEPT ![e] = Append(@, StartOf(W))]
      BY <1>9, <2>1 DEF HandleAdd, StartOf
    <3>2. [back EXCEPT ![e] = back[e]] = back
      BY <1>1 DEF KnownWaves
    <3> QED BY <3>1, <3>2
  <2> QED BY <2>2, <2>3, <2>4
<1>10. ASSUME NEW e \in Engines, NEW c \in Clients, HandleAbort(e, c) PROVE Reported'
  BY <1>4, <1>10 DEF HandleAbort, coord, engine
<1>11. ASSUME NEW e \in Engines, HandleStart(e) PROVE Reported'
  <2>1. UNCHANGED wave
    BY <1>1, <1>11, MessageWaves
  <2> QED BY <1>4, <1>11, <2>1 DEF HandleStart, coord
<1>12. ASSUME NEW e \in Engines, BeginStep(e) PROVE Reported'
  BY <1>4, <1>12 DEF BeginStep, coord
<1>13. ASSUME NEW e \in Engines, Decide(e) PROVE Reported'
  <2>1. co_wave' = co_wave
    BY <1>13 DEF Decide
  <2>2. CASE e # 0 \/ vote[e]
    <3>1. wave'[0] = wave[0] /\ back' = back
      BY <1>2, <1>13, <2>2 DEF Decide, EngineTypeOK
    <3> QED BY <1>3, <2>1, <3>1
  <2>3. CASE e = 0 /\ ~vote[e]
    <3>1. /\ wave'[0] = wave[0] + 1 /\ back' = [back EXCEPT ![0] = Append(@, Completed(wave[0]))]
          /\ wave[0] \in Nat /\ epc[0] = "decide" /\ wave[0] \in Nat
      BY <1>2, <1>13, <2>3 DEF Decide, EngineTypeOK, Completed
    <3>2. wave[0] <= W
      BY <1>1, <1>2, <3>1 DEF EnginesAt
    <3>3. PICK V \in Nat : KnownWaves(V) /\ Completed(wave[0]) \in EngineMsgs(V)
      <4>1. KnownWaves(W + 1) /\ Completed(wave[0]) \in EngineMsgs(W + 1) /\ W + 1 \in Nat
        BY <1>1, <3>1, <3>2, KnownWavesGrow DEF Completed, EngineMsgs
      <4> QED BY <4>1
    <3>4. Msgs(back'[0]) = Msgs(back[0]) \cup {Completed(wave[0])}
      BY <1>2, <3>1, <3>3, ToCoordinatorStays
    <3>5. \A w \in Nat : w < wave[0] + 1 => w < wave[0] \/ w = wave[0]
      BY <3>1
    <3> QED BY <2>1, <3>1, <3>4, <3>5 DEF Reported
  <2> QED BY <2>2, <2>3
<1>14. CASE Collective
  BY <1>4, <1>14 DEF Collective, ForwardPass, AllReduce, coord
<1>15. CASE UNCHANGED vars
  BY <1>4, <1>15 DEF vars, coord, engine
<1> QED BY <1>5, <1>6, <1>7, <1>8, <1>9, <1>10, <1>11, <1>12, <1>13, <1>14, <1>15
    DEF Next, CoordinatorStep, EngineStep

(* The next message of the coordinator to an engine. *)
LEMMA FirstOfCoordinator ==
    ASSUME NEW W \in Nat, KnownWaves(W), NEW e \in Engines, from_coord[e] # <<>>,
           from_coord' = [from_coord EXCEPT ![e] = Tail(@)]
    PROVE  /\ \A f \in Engines \ {e} : from_coord'[f] = from_coord[f]
           /\ Msgs(from_coord[e]) = Msgs(from_coord'[e]) \cup {Head(from_coord[e])}
           /\ Head(from_coord[e]) \in StartMsgs(W)
<1>1. from_coord[e] \in Seq(StartMsgs(W)) /\ from_coord'[e] = Tail(from_coord[e])
  BY DEF KnownWaves
<1>2. /\ Msgs(from_coord[e]) = Msgs(from_coord'[e]) \cup {Head(from_coord[e])}
      /\ Msgs(from_coord[e]) \subseteq StartMsgs(W)
  BY <1>1, MsgsFacts
<1> QED BY <1>2 DEF KnownWaves

(* An engine that reads that it has to start does so. *)
LEMMA StartsWhenTold ==
    ASSUME EngineTypeOK, WaveInv, NEW e \in Engines, HandleStart(e)
    PROVE  /\ from_coord[e] # <<>> /\ from_coord' = [from_coord EXCEPT ![e] = Tail(@)]
           /\ LET m == Head(from_coord[e]) IN
                /\ m.wave = Coming /\ m.exclude # e => Going(e)'
                /\ ~running[e] /\ running'[e] => m.wave = Coming
           /\ \A f \in Engines \ {e} : running'[f] = running[f]
           /\ UNCHANGED <<wave, epc, vote>>
<1>1. PICK W \in Nat : KnownWaves(W) /\ EnginesAt(W)
  BY DEF WaveInv
<1>2. UNCHANGED <<wave, epc, vote>>
  BY <1>1, MessageWaves
<1>3. /\ epc[e] = "input" /\ from_coord[e] # <<>>
      /\ running' = [running EXCEPT ![e] = @ \/ Starts(e, Head(from_coord[e]))]
      /\ from_coord' = [from_coord EXCEPT ![e] = Tail(@)]
  BY DEF HandleStart
<1>4. Coming \in Nat /\ KnownWaves(Coming) /\ wave[e] = Coming
  BY <1>3, ComingFacts DEF Down
<1>5. Head(from_coord[e]) \in StartMsgs(Coming)
  BY <1>3, <1>4, FirstOfCoordinator
<1>6. Head(from_coord[e]).wave \in 0..Coming
  BY <1>5 DEF StartMsgs
<1>7. Starts(e, Head(from_coord[e])) <=>
          Head(from_coord[e]).exclude # e /\ Head(from_coord[e]).wave = Coming
  BY <1>4, <1>6 DEF Starts
<1>8. running'[e] = (running[e] \/ Starts(e, Head(from_coord[e])))
  BY <1>3 DEF EngineTypeOK
<1>9. \A f \in Engines \ {e} : running'[f] = running[f]
  BY <1>3 DEF EngineTypeOK
<1> QED BY <1>2, <1>3, <1>7, <1>8, <1>9 DEF Going

\* Data parallelism has more than one rank; only then is there a coordinator.
TwoEngines == \E e, f \in Engines : e # f

(* A started wave has an engine that takes part in it, or will. *)
LEMMA StartedGoesStep ==
    ASSUME TwoEngines, EngineTypeOK, EngineTypeOK', InStep, WaveInv, RequestTypeOK, StartedGoes,
           [Next]_vars
    PROVE  StartedGoes'
<1>1. Coming \in Nat /\ KnownWaves(Coming)
  BY ComingFacts
<1>2. 0 \in Engines /\ Nobody \notin Engines
  BY WavesAssumption
<1>3. CASE Ends
  <2>1. Coming' = Coming + 1 /\ co_wave' = co_wave
    BY <1>3, EndOfWave DEF coord
  <2>2. co_wave \in 0..Coming
    BY <1>1 DEF KnownWaves
  <2>3. co_wave' # Coming'
    BY <1>1, <2>1, <2>2
  <2> QED BY <2>3 DEF StartedGoes
<1>4. CASE ~Ends
  <2>1. Coming' = Coming /\ \A e \in Engines : Going(e) => Going(e)'
    BY <1>4, ComingStep
  <2>2. ASSUME UNCHANGED <<co_wave, co_running, from_coord>> PROVE StartedGoes'
    <3>1. \A e \in Engines : Told(e) => Told(e)'
      BY <2>1, <2>2 DEF Told
    <3> QED BY <2>1, <2>2, <3>1 DEF StartedGoes
  <2>3. ASSUME NEW r \in Reqs, NEW e \in Engines, AddRequest(r, e) \/ AbortRequest(r, e)
        PROVE  StartedGoes'
    BY <2>2, <2>3 DEF AddRequest, AbortRequest, coord
  <2>4. ASSUME NEW c \in Clients, ClientStep(c) PROVE StartedGoes'
    BY <2>2, <2>4 DEF ClientStep, SendFirstReq, ReadState, coord, to_engine
  <2>5. ASSUME NEW c \in Clients \cup {Nobody}, NEW e \in Engines \cup {Nobody}, Coordinate(c, e)
        PROVE  StartedGoes'
    <3>1. PICK N : Outcome(c, e, N)
      BY <1>1, <2>5, CoordinateOutcome
    <3>2. \A f \in Engines : Told(f) => Told(f)'
      BY <2>1, <3>1 DEF Told, Outcome
    <3> SUFFICES ASSUME co_running', co_wave' = Coming PROVE \E f \in Engines : Going(f)' \/ Told(f)'
      BY <2>1 DEF StartedGoes
    <3>3. CASE co_running /\ co_wave' = co_wave
      BY <2>1, <3>2, <3>3 DEF StartedGoes
    <3>4. CASE ~(co_running /\ co_wave' = co_wave)
      <4>1. PICK m \in N : m.wave = co_wave' /\ (m.exclude = Nobody \/ m.exclude = e)
        BY <3>1, <3>4 DEF Outcome
      <4>2. PICK f \in Engines : f # m.exclude
        BY <1>2, <4>1 DEF TwoEngines
      <4>3. m \in Msgs(from_coord'[f])
        BY <3>1 DEF Outcome
      <4>4. Told(f)'
        BY <2>1, <4>1, <4>2, <4>3 DEF Told
      <4> QED BY <4>4
    <3> QED BY <3>3, <3>4
  <2>6. CASE Republish
    BY <2>2, <2>6 DEF Republish, coord, to_engine
  <2>7. ASSUME NEW e \in Engines, HandleStart(e) PROVE StartedGoes'
    <3>1. /\ \A f \in Engines \ {e} : from_coord'[f] = from_coord[f]
          /\ Msgs(from_coord[e]) = Msgs(from_coord'[e]) \cup {Head(from_coord[e])}
      BY <1>1, <2>7, StartsWhenTold, FirstOfCoordinator
    <3>2. \A f \in Engines : Told(f) => Told(f)' \/ Going(f)'
      BY <2>1, <2>7, <3>1, StartsWhenTold DEF Told
    <3>3. UNCHANGED <<co_wave, co_running>>
      BY <2>7 DEF HandleStart, coord
    <3> QED BY <2>1, <3>2, <3>3 DEF StartedGoes
  <2>8. ASSUME NEW e \in Engines, BeginStep(e) \/ Decide(e)
                  \/ \E c \in Clients : HandleAdd(e, c) \/ HandleAbort(e, c)
        PROVE  StartedGoes'
    BY <2>2, <2>8 DEF BeginStep, Decide, HandleAdd, HandleAbort, coord, to_engine
  <2>9. CASE Collective
    BY <2>2, <2>9 DEF Collective, ForwardPass, AllReduce, coord, to_engine
  <2>10. CASE UNCHANGED vars
    BY <2>2, <2>10 DEF vars, coord, to_engine
  <2> QED BY <2>3, <2>4, <2>5, <2>6, <2>7, <2>8, <2>9, <2>10 DEF Next, CoordinatorStep, EngineStep
<1> QED BY <1>3, <1>4

\* What front-ends, coordinator and rank 0 know of each other.
KnowInv == RequestTypeOK /\ Beliefs /\ Reported /\ StartedGoes

(* It holds all along. *)
LEMMA KnowInvariant ==
    ASSUME TwoEngines
    PROVE  Spec => [](EngineTypeOK /\ InStep /\ WaveInv /\ KnowInv)
<1>1. Init => KnowInv
  <2> SUFFICES ASSUME Init PROVE KnowInv
    OBVIOUS
  <2>1. 0 \in Engines
    BY WavesAssumption
  <2>2. RequestTypeOK
    BY DEF Init, RequestTypeOK
  <2>3. Beliefs
    BY DEF Init, Beliefs
  <2>4. Reported
    BY <2>1 DEF Init, Reported
  <2>5. StartedGoes
    BY DEF Init, StartedGoes
  <2> QED BY <2>2, <2>3, <2>4, <2>5 DEF KnowInv
<1>2. /\ EngineTypeOK /\ InStep /\ WaveInv /\ (EngineTypeOK /\ InStep /\ WaveInv)'
      /\ KnowInv /\ [Next]_vars
      => KnowInv'
  <2> SUFFICES ASSUME EngineTypeOK, InStep, WaveInv, EngineTypeOK', KnowInv, [Next]_vars
               PROVE  KnowInv'
    OBVIOUS
  <2>1. PICK W \in Nat : KnownWaves(W)
    BY DEF WaveInv
  <2>2. RequestTypeOK /\ Beliefs /\ Reported /\ StartedGoes
    BY DEF KnowInv
  <2>3. RequestTypeOK' /\ Beliefs'
    BY <2>1, <2>2, RequestTypeStep, BeliefsStep
  <2>4. Reported' /\ StartedGoes'
    BY <2>2, ReportedStep, StartedGoesStep
  <2> QED BY <2>3, <2>4 DEF KnowInv
<1> QED BY <1>1, <1>2, WavesInvariant, PTL DEF Spec

(* Spec => []BeliefsConverge for two or more engines: when every message has *)
(* arrived and the engines have paused, coordinator and front-ends know it,  *)
(* and the number of the next wave, also after aborts.                       *)
THEOREM BeliefsAlwaysConverge == ASSUME TwoEngines PROVE Spec => []BeliefsConverge
<1>1. EngineTypeOK /\ InStep /\ WaveInv /\ KnowInv => BeliefsConverge
  <2> SUFFICES ASSUME EngineTypeOK, WaveInv, KnowInv, AtRest, NoneLeftWaiting
               PROVE  /\ ~co_running /\ \A e \in Engines : wave[e] = co_wave
                      /\ \A c \in Clients : ~c_running[c] /\ c_wave[c] = co_wave
    BY DEF BeliefsConverge
  <2>1. /\ \A e \in Engines : epc[e] = "input" /\ ~running[e] /\ back[e] = <<>> /\ from_coord[e] = <<>>
        /\ \A c \in Clients : front[c] = <<>> /\ sub[c] = <<>>
    BY DEF AtRest, NoneLeftWaiting, Delivered, Blocked
  <2>2. /\ Coming \in Nat /\ KnownWaves(Coming) /\ \A e \in Engines : wave[e] = Coming
        /\ 0 \in Engines
    BY <2>1, ComingFacts, WavesAssumption DEF Down
  <2>3. co_wave \in 0..Coming
    BY <2>2 DEF KnownWaves
  <2>4. Msgs(<<>>) = {}
    BY DEF Msgs
  <2>5. co_wave = Coming
    <3> SUFFICES ASSUME co_wave # Coming PROVE FALSE
      OBVIOUS
    <3>1. co_wave \in Nat /\ co_wave <= co_wave /\ co_wave < wave[0]
      BY <2>2, <2>3
    <3>2. Completed(co_wave) \in Msgs(back[0])
      BY <3>1 DEF KnowInv, Reported
    <3> QED BY <2>1, <2>2, <2>4, <3>2
  <2>6. ~co_running
    <3>1. \A e \in Engines : ~Going(e) /\ ~Told(e)
      BY <2>1, <2>4 DEF Going, Told
    <3> QED BY <2>5, <3>1 DEF KnowInv, StartedGoes
  <2>7. \A c \in Clients : ~c_running[c] /\ c_wave[c] = co_wave
    BY <2>1, <2>6 DEF KnowInv, Beliefs
  <2> QED BY <2>2, <2>5, <2>6, <2>7
<1> QED BY <1>1, KnowInvariant, PTL

-----------------------------------------------------------------------------
(* Who wakes whom. *)

\* The engine does not wait for input.
Awake(e) == Going(e) \/ (epc[e] = "input" /\ Unfinished(e) # {})

\* The engine has asked the coordinator to start the coming wave.
Asked(e) == StartOf(Coming) \in Msgs(back[e])

\* Somebody has called for the coming wave: the coordinator starts it or has started
\* it.
Called ==
    \/ /\ co_wave = Coming
       /\ co_running \/ \E c \in Clients : first_req[c] > 0 \/ front[c] # <<>>
    \/ \E e \in Engines : Asked(e)

SomeAborted == \E r \in Reqs : status[r] = "aborted"

\* A request is added once, where it was sent.
AddsOnce ==
    /\ target \in [Reqs -> Engines \cup {Nobody}]
    /\ \A e \in Engines, c \in Clients : \A i \in 1..Len(from_client[e][c]) :
          from_client[e][c][i].type = "ADD" =>
             LET r == from_client[e][c][i].req IN
             /\ status[r] = "sent" /\ target[r] = e /\ ClientOf[r] = c
             /\ \A j \in 1..Len(from_client[e][c]) :
                   from_client[e][c][j].type = "ADD" /\ from_client[e][c][j].req = r => i = j

\* An engine that votes for the end of the wave has no requests.
VotesTrue ==
    \A e \in Engines : epc[e] \in {"reduce", "decide"} /\ ~vote[e] => Unfinished(e) = {}

\* A call to start the coming wave comes from a coordinator that takes it for started.
StartsKnown ==
    \A e \in Engines : \A m \in Msgs(from_coord[e]) : m.wave = Coming => co_running /\ co_wave = Coming

\* The wave is called for when an engine is awake or is going to get a request of it,
\* and then everybody is awake or going to be.
CallInv ==
    /\ \A e \in Engines : Awake(e) => Called
    /\ co_running /\ co_wave = Coming => \A e \in Engines : Awake(e) \/ Told(e)
    /\ \A e \in Engines : Asked(e) => Awake(e)
    /\ \A e \in Engines, c \in Clients : \A m \in Msgs(from_client[e][c]) :
          m.type = "ADD" /\ m.wave = Coming => Called

\* The first of the messages that c has sent to e was taken.
Took(W, e, c) ==
    /\ \A f \in Engines, d \in Clients : f # e \/ d # c => from_client'[f][d] = from_client[f][d]
    /\ Len(from_client'[e][c]) = Len(from_client[e][c]) - 1 /\ Len(from_client[e][c]) \in Nat \ {0}
    /\ Head(from_client[e][c]) = from_client[e][c][1]
    /\ \A i \in 1..Len(from_client'[e][c]) : from_client'[e][c][i] = from_client[e][c][i + 1]
    /\ \A f \in Engines, d \in Clients : Msgs(from_client'[f][d]) \subseteq Msgs(from_client[f][d])
    /\ Head(from_client[e][c]) \in Msgs(from_client[e][c]) /\ Head(from_client[e][c]) \in ClientMsgs(W)

(* The messages of a front-end after one was read. *)
LEMMA ReadClient ==
    ASSUME NEW W \in Nat, KnownWaves(W), NEW e \in Engines, NEW c \in Clients,
           from_client[e][c] # <<>>, from_client' = [from_client EXCEPT ![e][c] = Tail(@)]
    PROVE  Took(W, e, c)
<1>1. from_client \in [Engines -> [Clients -> Seq(ClientMsgs(W))]]
  BY DEF KnownWaves
<1>2. from_client[e][c] \in Seq(ClientMsgs(W)) /\ from_client'[e][c] = Tail(from_client[e][c])
  BY <1>1
<1>3. \A f \in Engines, d \in Clients : f # e \/ d # c => from_client'[f][d] = from_client[f][d]
  BY <1>1
<1>4. /\ Len(from_client'[e][c]) = Len(from_client[e][c]) - 1 /\ Len(from_client[e][c]) \in Nat \ {0}
      /\ Head(from_client[e][c]) = from_client[e][c][1]
      /\ \A i \in 1..Len(from_client'[e][c]) : from_client'[e][c][i] = from_client[e][c][i + 1]
  <2>1. PICK s : s = from_client[e][c]
    OBVIOUS
  <2>2. s \in Seq(ClientMsgs(W)) /\ s # <<>>
    BY <1>2, <2>1
  <2>3. /\ Len(s) \in Nat /\ Len(s) # 0 /\ Head(s) = s[1] /\ Len(Tail(s)) = Len(s) - 1
    BY <2>2, LenProperties, EmptySeq, HeadTailProperties
  <2>4. \A i \in 1..Len(Tail(s)) : Tail(s)[i] = s[i + 1]
    BY <2>2, HeadTailProperties
  <2>5. Len(s) \in Nat \ {0}
    BY <2>3
  <2> QED BY <1>2, <2>1, <2>3, <2>4, <2>5
<1>5. /\ Msgs(from_client[e][c]) = Msgs(from_client'[e][c]) \cup {Head(from_client[e][c])}
      /\ Msgs(from_client[e][c]) \subseteq ClientMsgs(W)
  BY <1>2, MsgsFacts
<1> QED BY <1>3, <1>4, <1>5 DEF Took

\* Message m was added to what c has sent to e.
Wrote(e, c, m) ==
    /\ \A f \in Engines, d \in Clients : f # e \/ d # c => from_client'[f][d] = from_client[f][d]
    /\ Len(from_client'[e][c]) = Len(from_client[e][c]) + 1 /\ Len(from_client[e][c]) \in Nat
    /\ \A i \in 1..Len(from_client[e][c]) : from_client'[e][c][i] = from_client[e][c][i]
    /\ from_client'[e][c][Len(from_client[e][c]) + 1] = m
    /\ Msgs(from_client'[e][c]) = Msgs(from_client[e][c]) \cup {m}

(* The messages of a front-end after one was sent. *)
LEMMA WriteClient ==
    ASSUME NEW W \in Nat, KnownWaves(W), NEW e \in Engines, NEW c \in Clients,
           NEW m \in ClientMsgs(W), from_client' = [from_client EXCEPT ![e][c] = Append(@, m)]
    PROVE  Wrote(e, c, m)
<1>1. from_client \in [Engines -> [Clients -> Seq(ClientMsgs(W))]]
  BY DEF KnownWaves
<1>2. from_client[e][c] \in Seq(ClientMsgs(W)) /\ from_client'[e][c] = Append(from_client[e][c], m)
  BY <1>1
<1>3. \A f \in Engines, d \in Clients : f # e \/ d # c => from_client'[f][d] = from_client[f][d]
  BY <1>1
<1>4. /\ Len(from_client'[e][c]) = Len(from_client[e][c]) + 1 /\ Len(from_client[e][c]) \in Nat
      /\ \A i \in 1..Len(from_client[e][c]) : from_client'[e][c][i] = from_client[e][c][i]
      /\ from_client'[e][c][Len(from_client[e][c]) + 1] = m
  BY <1>2, LenProperties, AppendProperties
<1>5. Msgs(from_client'[e][c]) = Msgs(from_client[e][c]) \cup {m}
  BY <1>2, MsgsFacts
<1> QED BY <1>3, <1>4, <1>5 DEF Wrote

(* Which requests an engine has changes only with messages for it and with the *)
(* forward pass.                                                           *)
LEMMA AddsOnceStep ==
    ASSUME AddsOnce, RequestTypeOK, NEW W \in Nat, KnownWaves(W), [Next]_vars
    PROVE  AddsOnce'
<1>1. /\ target \in [Reqs -> Engines \cup {Nobody}]
      /\ status \in [Reqs -> {"new", "sent", "queued", "done", "aborted"}]
      /\ ClientOf \in [Reqs -> Clients]
  BY WavesAssumption DEF AddsOnce, RequestTypeOK
<1>2. \A e \in Engines, c \in Clients : \A i \in 1..Len(from_client[e][c]) :
          from_client[e][c][i].req \in Reqs /\ from_client[e][c][i] \in Msgs(from_client[e][c])
  <2> SUFFICES ASSUME NEW e \in Engines, NEW c \in Clients, NEW i \in 1..Len(from_client[e][c])
               PROVE  from_client[e][c][i].req \in Reqs /\ from_client[e][c][i] \in Msgs(from_client[e][c])
    OBVIOUS
  <2>1. from_client[e][c] \in Seq(ClientMsgs(W)) /\ from_client[e][c][i] \in Msgs(from_client[e][c])
    BY DEF KnownWaves, Msgs
  <2>2. from_client[e][c][i] \in ClientMsgs(W)
    BY <2>1, MsgsFacts
  <2> QED BY <2>1, <2>2 DEF ClientMsgs
<1>3. ASSUME UNCHANGED <<from_client, target>>, \A r \in Reqs : status[r] = "sent" => status'[r] = "sent"
      PROVE  AddsOnce'
  BY <1>2, <1>3 DEF AddsOnce
<1>4. ASSUME NEW r \in Reqs, NEW e \in Engines, AddRequest(r, e) PROVE AddsOnce'
  <2>1. PICK c, m : c = ClientOf[r] /\ m = [type |-> "ADD", req |-> r, wave |-> c_wave[c]]
    OBVIOUS
  <2>2. c \in Clients /\ m \in ClientMsgs(W)
    <3>1. c \in Clients
      BY <1>1, <2>1
    <3>2. c_wave[c] \in 0..W
      BY <3>1 DEF KnownWaves
    <3> QED BY <2>1, <3>1, <3>2 DEF ClientMsgs
  <2>3. /\ status[r] = "new" /\ status' = [status EXCEPT ![r] = "sent"]
        /\ target' = [target EXCEPT ![r] = e]
        /\ from_client' = [from_client EXCEPT ![e][c] = Append(@, m)]
    BY <1>4, <2>1 DEF AddRequest
  <2>4. /\ status'[r] = "sent" /\ target'[r] = e /\ \A q \in Reqs \ {r} : status'[q] = status[q] /\ target'[q] = target[q]
        /\ target' \in [Reqs -> Engines \cup {Nobody}]
    BY <1>1, <2>3
  <2>5. /\ \A f \in Engines, d \in Clients : f # e \/ d # c => from_client'[f][d] = from_client[f][d]
        /\ Len(from_client'[e][c]) = Len(from_client[e][c]) + 1 /\ Len(from_client[e][c]) \in Nat
        /\ \A i \in 1..Len(from_client[e][c]) : from_client'[e][c][i] = from_client[e][c][i]
        /\ from_client'[e][c][Len(from_client[e][c]) + 1] = m
    <3>1. c \in Clients /\ m \in ClientMsgs(W) /\ from_client' = [from_client EXCEPT ![e][c] = Append(@, m)]
      BY <2>2, <2>3
    <3>2. Wrote(e, c, m)
      BY <3>1, WriteClient
    <3> QED BY <3>2 DEF Wrote
  <2>6. \A f \in Engines, d \in Clients : \A i \in 1..Len(from_client[f][d]) :
            from_client[f][d][i].type = "ADD" => from_client[f][d][i].req # r
    BY <2>3 DEF AddsOnce
  <2>7. m.type = "ADD" /\ m.req = r
    BY <2>1
  <2>8. ASSUME NEW f \in Engines, NEW d \in Clients, NEW i \in 1..Len(from_client'[f][d]),
               from_client'[f][d][i].type = "ADD", NEW q, q = from_client'[f][d][i].req
        PROVE  /\ status'[q] = "sent" /\ target'[q] = f /\ ClientOf[q] = d
               /\ \A j \in 1..Len(from_client'[f][d]) :
                     from_client'[f][d][j].type = "ADD" /\ from_client'[f][d][j].req = q => i = j
    <3>1. CASE f # e \/ d # c
      <4>1. from_client'[f][d] = from_client[f][d]
        BY <2>5, <3>1
      <4>2. q # r /\ q \in Reqs
        BY <1>2, <2>6, <2>8, <4>1
      <4>3. status[q] = "sent" /\ target[q] = f /\ ClientOf[q] = d
        BY <2>8, <4>1 DEF AddsOnce
      <4>4. \A j \in 1..Len(from_client[f][d]) :
                from_client[f][d][j].type = "ADD" /\ from_client[f][d][j].req = q => i = j
        BY <2>8, <4>1 DEF AddsOnce
      <4> QED BY <2>4, <4>1, <4>2, <4>3, <4>4
    <3>2. CASE f = e /\ d = c /\ i = Len(from_client[e][c]) + 1
      <4>1. q = r
        BY <2>5, <2>7, <2>8, <3>2
      <4>2. ASSUME NEW j \in 1..Len(from_client'[f][d]), from_client'[f][d][j].type = "ADD",
                   from_client'[f][d][j].req = r, j # i
            PROVE  FALSE
        <5>1. j \in 1..Len(from_client[e][c])
          BY <2>5, <3>2, <4>2
        <5> QED BY <2>5, <2>6, <3>2, <4>2, <5>1
      <4> QED BY <2>1, <2>4, <3>2, <4>1, <4>2
    <3>3. CASE f = e /\ d = c /\ i # Len(from_client[e][c]) + 1
      <4>1. i \in 1..Len(from_client[e][c])
        BY <2>5, <3>3
      <4>2. from_client'[e][c][i] = from_client[e][c][i]
        BY <2>5, <4>1
      <4>3. q # r /\ q \in Reqs
        BY <1>2, <2>2, <2>6, <2>8, <3>3, <4>1, <4>2
      <4>4. /\ status[q] = "sent" /\ target[q] = f /\ ClientOf[q] = d
            /\ \A j \in 1..Len(from_client[e][c]) :
                  from_client[e][c][j].type = "ADD" /\ from_client[e][c][j].req = q => i = j
        BY <2>2, <2>8, <3>3, <4>1, <4>2 DEF AddsOnce
      <4>5. ASSUME NEW j \in 1..Len(from_client'[e][c]), from_client'[e][c][j].type = "ADD",
                   from_client'[e][c][j].req = q
            PROVE  i = j
        <5>1. j # Len(from_client[e][c]) + 1
          BY <2>5, <2>7, <4>3, <4>5
        <5>2. j \in 1..Len(from_client[e][c])
          BY <2>5, <5>1
        <5> QED BY <2>5, <4>4, <4>5, <5>2
      <4> QED BY <2>4, <3>3, <4>3, <4>4, <4>5
    <3> QED BY <3>1, <3>2, <3>3
  <2> QED BY <2>4, <2>8 DEF AddsOnce
<1>5. ASSUME NEW r \in Reqs, NEW e \in Engines, AbortRequest(r, e) PROVE AddsOnce'
  <2>1. PICK c, m : c = ClientOf[r] /\ m = [type |-> "ABORT", req |-> r, wave |-> 0]
    OBVIOUS
  <2>2. c \in Clients /\ m \in ClientMsgs(W) /\ m.type # "ADD"
    BY <1>1, <2>1 DEF ClientMsgs
  <2>3. UNCHANGED <<status, target>> /\ from_client' = [from_client EXCEPT ![e][c] = Append(@, m)]
    BY <1>5, <2>1 DEF AbortRequest, request
  <2>4. Wrote(e, c, m)
    BY <2>2, <2>3, WriteClient
  <2>5. ASSUME NEW f \in Engines, NEW d \in Clients, NEW i \in 1..Len(from_client'[f][d]),
               from_client'[f][d][i].type = "ADD"
        PROVE  i \in 1..Len(from_client[f][d]) /\ from_client'[f][d][i] = from_client[f][d][i]
    <3>1. CASE f # e \/ d # c
      BY <2>4, <3>1 DEF Wrote
    <3>2. CASE f = e /\ d = c
      <4>1. i # Len(from_client[e][c]) + 1
        BY <2>2, <2>4, <2>5, <3>2 DEF Wrote
      <4>2. i \in 1..Len(from_client[e][c])
        BY <2>4, <3>2, <4>1 DEF Wrote
      <4> QED BY <2>4, <3>2, <4>2 DEF Wrote
    <3> QED BY <3>1, <3>2
  <2> QED BY <2>3, <2>5 DEF AddsOnce
<1>6. ASSUME NEW e \in Engines, NEW c \in Clients, HandleAdd(e, c) \/ HandleAbort(e, c)
      PROVE  AddsOnce'
  <2>1. /\ from_client[e][c] # <<>> /\ from_client' = [from_client EXCEPT ![e][c] = Tail(@)]
        /\ target' = target
    BY <1>6 DEF HandleAdd, HandleAbort
  <2>2. Took(W, e, c)
    BY <2>1, ReadClient
  <2>3. PICK r \in Reqs : /\ r = from_client[e][c][1].req
                          /\ \A q \in Reqs \ {r} : status'[q] = status[q]
                          /\ from_client[e][c][1].type # "ADD" =>
                                (status[r] = "sent" => status'[r] = "sent")
    <3>1. PICK r \in Reqs : r = Head(from_client[e][c]).req
      BY <2>2 DEF Took, ClientMsgs
    <3>2. \A q \in Reqs \ {r} : status'[q] = status[q]
      BY <1>6, <3>1, <1>1 DEF HandleAdd, HandleAbort, Aborted
    <3>3. from_client[e][c][1].type # "ADD" => (status[r] = "sent" => status'[r] = "sent")
      BY <1>6, <3>1, <1>1, <2>2 DEF HandleAdd, HandleAbort, Aborted, Took
    <3> QED BY <3>1, <3>2, <3>3, <2>2 DEF Took
  <2>4. 1 \in 1..Len(from_client[e][c])
    BY <2>2 DEF Took
  <2>5. ASSUME NEW f \in Engines, NEW d \in Clients, NEW i \in 1..Len(from_client'[f][d]),
               from_client'[f][d][i].type = "ADD", NEW q, q = from_client'[f][d][i].req
        PROVE  /\ status'[q] = "sent" /\ target'[q] = f /\ ClientOf[q] = d
               /\ \A j \in 1..Len(from_client'[f][d]) :
                     from_client'[f][d][j].type = "ADD" /\ from_client'[f][d][j].req = q => i = j
    <3>1. CASE f # e \/ d # c
      <4>1. from_client'[f][d] = from_client[f][d]
        BY <2>2, <3>1 DEF Took
      <4>2. /\ status[q] = "sent" /\ target[q] = f /\ ClientOf[q] = d /\ q \in Reqs
            /\ \A j \in 1..Len(from_client[f][d]) :
                  from_client[f][d][j].type = "ADD" /\ from_client[f][d][j].req = q => i = j
        BY <1>2, <2>5, <4>1 DEF AddsOnce
      <4>3. status'[q] = "sent"
        <5>1. CASE q # r
          BY <2>3, <4>2, <5>1
        <5>2. CASE q = r
          <6>1. from_client[e][c][1].type # "ADD"
            BY <2>3, <2>4, <3>1, <4>2, <5>2 DEF AddsOnce
          <6> QED BY <2>3, <4>2, <5>2, <6>1
        <5> QED BY <5>1, <5>2
      <4> QED BY <2>1, <4>1, <4>2, <4>3
    <3>2. CASE f = e /\ d = c
      <4>1. /\ i + 1 \in 1..Len(from_client[e][c]) /\ i + 1 # 1
            /\ from_client'[e][c][i] = from_client[e][c][i + 1]
        BY <2>2, <3>2 DEF Took
      <4>2. /\ status[q] = "sent" /\ target[q] = e /\ ClientOf[q] = c /\ q \in Reqs
            /\ \A j \in 1..Len(from_client[e][c]) :
                  from_client[e][c][j].type = "ADD" /\ from_client[e][c][j].req = q => i + 1 = j
        BY <1>2, <2>5, <3>2, <4>1 DEF AddsOnce
      <4>3. status'[q] = "sent"
        <5>1. CASE q # r
          BY <2>3, <4>2, <5>1
        <5>2. CASE q = r
          <6>1. from_client[e][c][1].type # "ADD"
            BY <2>3, <2>4, <4>1, <4>2, <5>2
          <6> QED BY <2>3, <4>2, <5>2, <6>1
        <5> QED BY <5>1, <5>2
      <4>4. ASSUME NEW j \in 1..Len(from_client'[e][c]), from_client'[e][c][j].type = "ADD",
                   from_client'[e][c][j].req = q
            PROVE  i = j
        <5>1. j + 1 \in 1..Len(from_client[e][c]) /\ from_client'[e][c][j] = from_client[e][c][j + 1]
          BY <2>2 DEF Took
        <5>2. i + 1 = j + 1
          BY <4>2, <4>4, <5>1
        <5>3. i \in Nat /\ j \in Nat
          OBVIOUS
        <5> QED BY <5>2, <5>3
      <4> QED BY <2>1, <3>2, <4>2, <4>3, <4>4
    <3> QED BY <3>1, <3>2
  <2>6. target' \in [Reqs -> Engines \cup {Nobody}]
    BY <2>1 DEF AddsOnce
  <2>7. \A f \in Engines, d \in Clients : \A i \in 1..Len(from_client'[f][d]) :
           from_client'[f][d][i].type = "ADD" =>
              /\ status'[from_client'[f][d][i].req] = "sent"
              /\ target'[from_client'[f][d][i].req] = f /\ ClientOf[from_client'[f][d][i].req] = d
              /\ \A j \in 1..Len(from_client'[f][d]) :
                    from_client'[f][d][j].type = "ADD"
                    /\ from_client'[f][d][j].req = from_client'[f][d][i].req => i = j
    BY <2>5
  <2> QED BY <2>6, <2>7 DEF AddsOnce
<1>7. ASSUME UNCHANGED <<from_client, request>> PROVE AddsOnce'
  BY <1>3, <1>7 DEF request
<1>8. ASSUME NEW early, ForwardPass(early) PROVE AddsOnce'
  <2>1. /\ UNCHANGED <<from_client, target>> /\ \A r \in early : status[r] = "queued"
        /\ \A r \in Reqs : status'[r] = status[r] \/ r \in early
                             \/ \E e \in Engines : r \in Unfinished(e)
    BY <1>8 DEF ForwardPass, to_engine
  <2>2. \A r \in Reqs : status[r] = "sent" => status'[r] = "sent"
    BY <2>1 DEF Unfinished
  <2> QED BY <2>1, <2>2, <1>3
<1>9. ASSUME \/ \E c \in Clients : ClientStep(c)
             \/ CoordinatorStep \/ Republish \/ AllReduce \/ UNCHANGED vars
             \/ \E e \in Engines : HandleStart(e) \/ BeginStep(e) \/ Decide(e)
      PROVE  UNCHANGED <<from_client, request>>
  BY <1>9 DEF ClientStep, SendFirstReq, ReadState, CoordinatorStep, Coordinate, Republish,
     AllReduce, vars, HandleStart, BeginStep, Decide, to_engine, request
<1> QED BY <1>4, <1>5, <1>6, <1>7, <1>8, <1>9 DEF Next, EngineStep, Collective

\* What a step other than a forward pass may do to the requests of the engines.
RequestsKept ==
    /\ \A f \in Engines : Unfinished(f)' \subseteq Unfinished(f) \/ \E c \in Clients : HandleAdd(f, c)
    /\ ~SomeAborted' => \A f \in Engines : Unfinished(f) \subseteq Unfinished(f)'

(* Requests are queued when they are added, and an aborted one stays aborted. *)
LEMMA RequestsStay ==
    ASSUME AddsOnce, RequestTypeOK, NEW W \in Nat, KnownWaves(W), [Next]_vars
    PROVE  /\ SomeAborted => SomeAborted'
           /\ (\E early : ForwardPass(early)) \/ RequestsKept
<1>1. /\ target \in [Reqs -> Engines \cup {Nobody}]
      /\ status \in [Reqs -> {"new", "sent", "queued", "done", "aborted"}]
  BY DEF AddsOnce, RequestTypeOK
<1>2. ASSUME UNCHANGED <<status, target>> PROVE RequestsKept /\ (SomeAborted => SomeAborted')
  BY <1>2 DEF RequestsKept, SomeAborted, Unfinished
<1>3. ASSUME NEW r \in Reqs, NEW e \in Engines, AddRequest(r, e)
      PROVE  RequestsKept /\ (SomeAborted => SomeAborted')
  <2>1. /\ status[r] = "new" /\ status'[r] = "sent"
        /\ \A q \in Reqs \ {r} : status'[q] = status[q] /\ target'[q] = target[q]
    BY <1>1, <1>3 DEF AddRequest
  <2>2. \A f \in Engines : Unfinished(f)' = Unfinished(f)
    BY <2>1 DEF Unfinished
  <2>3. SomeAborted => SomeAborted'
    BY <2>1 DEF SomeAborted
  <2> QED BY <2>2, <2>3 DEF RequestsKept
<1>4. ASSUME NEW e \in Engines, NEW c \in Clients, HandleAdd(e, c)
      PROVE  RequestsKept /\ (SomeAborted => SomeAborted')
  <2>1. from_client[e][c] # <<>> /\ from_client' = [from_client EXCEPT ![e][c] = Tail(@)]
    BY <1>4 DEF HandleAdd
  <2>2. Took(W, e, c)
    BY <2>1, ReadClient
  <2>3. PICK r \in Reqs : r = Head(from_client[e][c]).req
    BY <2>2 DEF Took, ClientMsgs
  <2>4. /\ Head(from_client[e][c]).type = "ADD" /\ status' = [status EXCEPT ![r] = "queued"]
        /\ target' = target
    BY <1>4, <2>3 DEF HandleAdd
  <2>5. 1 \in 1..Len(from_client[e][c]) /\ from_client[e][c][1] = Head(from_client[e][c])
    BY <2>2 DEF Took
  <2>6. status[r] = "sent" /\ target[r] = e
    BY <2>3, <2>4, <2>5 DEF AddsOnce
  <2>7. status'[r] = "queued" /\ \A q \in Reqs \ {r} : status'[q] = status[q]
    BY <1>1, <2>4
  <2>8. \A f \in Engines : Unfinished(f) \subseteq Unfinished(f)' /\ (f # e => Unfinished(f)' \subseteq Unfinished(f))
    BY <2>4, <2>6, <2>7 DEF Unfinished
  <2>9. SomeAborted => SomeAborted'
    BY <2>6, <2>7 DEF SomeAborted
  <2> QED BY <1>4, <2>8, <2>9 DEF RequestsKept
<1>5. ASSUME NEW e \in Engines, NEW c \in Clients, HandleAbort(e, c)
      PROVE  RequestsKept /\ (SomeAborted => SomeAborted')
  <2>1. from_client[e][c] # <<>> /\ from_client' = [from_client EXCEPT ![e][c] = Tail(@)]
    BY <1>5 DEF HandleAbort
  <2>2. Took(W, e, c)
    BY <2>1, ReadClient
  <2>3. PICK r \in Reqs : r = Head(from_client[e][c]).req
    BY <2>2 DEF Took, ClientMsgs
  <2>4. /\ status' = [status EXCEPT ![r] = IF @ = "queued" THEN "aborted" ELSE @] /\ target' = target
    BY <1>5, <2>3 DEF HandleAbort, Aborted
  <2>5. /\ status'[r] = IF status[r] = "queued" THEN "aborted" ELSE status[r]
        /\ \A q \in Reqs \ {r} : status'[q] = status[q]
    BY <1>1, <2>4
  <2>6. \A f \in Engines : Unfinished(f)' \subseteq Unfinished(f)
    BY <2>4, <2>5 DEF Unfinished
  <2>7. ~SomeAborted' => status' = status
    BY <1>1, <2>4, <2>5 DEF SomeAborted
  <2>8. SomeAborted => SomeAborted'
    BY <2>5 DEF SomeAborted
  <2>9. ~SomeAborted' => \A f \in Engines : Unfinished(f) \subseteq Unfinished(f)'
    BY <2>4, <2>7 DEF Unfinished
  <2> QED BY <2>6, <2>8, <2>9 DEF RequestsKept
<1>6. ASSUME NEW early, ForwardPass(early) PROVE SomeAborted => SomeAborted'
  <2>1. /\ \A r \in early : status[r] = "queued"
        /\ \A r \in Reqs : status'[r] = status[r] \/ r \in early
                             \/ \E e \in Engines : r \in Unfinished(e)
    BY <1>6 DEF ForwardPass, to_engine
  <2>2. \A r \in Reqs : status[r] = "aborted" => status'[r] = "aborted"
    BY <2>1 DEF Unfinished
  <2> QED BY <2>2 DEF SomeAborted
<1>7. ASSUME \/ \E c \in Clients : ClientStep(c)
             \/ CoordinatorStep \/ Republish \/ AllReduce \/ UNCHANGED vars
             \/ \E e \in Engines : HandleStart(e) \/ BeginStep(e) \/ Decide(e)
             \/ \E r \in Reqs, e \in Engines : AbortRequest(r, e)
      PROVE  UNCHANGED <<status, target>>
  BY <1>7 DEF ClientStep, SendFirstReq, ReadState, CoordinatorStep, Coordinate, Republish,
     AllReduce, vars, HandleStart, BeginStep, Decide, AbortRequest, request
<1> QED BY <1>2, <1>3, <1>4, <1>5, <1>6, <1>7 DEF Next, EngineStep, Collective

(* Votes are kept: a request is added to an engine only while it reads input. *)
LEMMA VotesTrueStep ==
    ASSUME VotesTrue, AddsOnce, RequestTypeOK, EngineTypeOK, NEW W \in Nat, KnownWaves(W), [Next]_vars
    PROVE  VotesTrue'
<1>1. ASSUME NEW early, ForwardPass(early) PROVE VotesTrue'
  <2> SUFFICES ASSUME NEW e \in Engines, epc'[e] \in {"reduce", "decide"}, ~vote'[e]
               PROVE  Unfinished(e)' = {}
    BY DEF VotesTrue
  <2> DEFINE left1 == {r \in UNION {Unfinished(f) : f \in Engines} \ early : left[r] = 1}
  <2>1. /\ epc'[e] = IF Counted(e) = 0 THEN "reduce" ELSE "input"
        /\ vote'[e] = (Counted(e) = 0 /\ (Unfinished(e) \ early) \ left1 # {})
        /\ target' = target
        /\ status' = [r \in Reqs |-> IF r \in early THEN "aborted"
                                    ELSE IF r \in left1 THEN "done" ELSE status[r]]
    BY <1>1 DEF ForwardPass
  <2>2. (Unfinished(e) \ early) \ left1 = {}
    BY <2>1
  <2>3. ASSUME NEW r \in Reqs, status'[r] = "queued", target[r] = e
        PROVE  r \in (Unfinished(e) \ early) \ left1
    <3>1. status'[r] = IF r \in early THEN "aborted" ELSE IF r \in left1 THEN "done" ELSE status[r]
      BY <2>1
    <3>2. r \notin early /\ r \notin left1 /\ status[r] = "queued"
      BY <2>3, <3>1
    <3> QED BY <2>3, <3>2 DEF Unfinished
  <2> HIDE DEF left1
  <2> QED BY <2>1, <2>2, <2>3 DEF Unfinished
<1>2. ASSUME RequestsKept, UNCHANGED <<epc, vote>> PROVE VotesTrue'
  <2> SUFFICES ASSUME NEW e \in Engines, epc[e] \in {"reduce", "decide"}, ~vote[e]
               PROVE  Unfinished(e)' = {}
    BY <1>2 DEF VotesTrue
  <2>1. Unfinished(e) = {}
    BY DEF VotesTrue
  <2>2. ~\E c \in Clients : HandleAdd(e, c)
    BY DEF HandleAdd
  <2> QED BY <1>2, <2>1, <2>2 DEF RequestsKept
<1>3. ASSUME NEW e \in Engines, BeginStep(e) \/ Decide(e) PROVE VotesTrue'
  <2>1. /\ UNCHANGED <<status, target>> /\ epc'[e] \in {"input", "forward"}
        /\ \A f \in Engines \ {e} : epc'[f] = epc[f] /\ vote'[f] = vote[f]
    BY <1>3 DEF BeginStep, Decide, request, EngineTypeOK
  <2> QED BY <2>1 DEF VotesTrue, Unfinished
<1>4. ASSUME AllReduce PROVE VotesTrue'
  <2>1. /\ UNCHANGED <<status, target>> /\ \A e \in Engines : epc[e] = "reduce"
        /\ \A e \in Engines : vote'[e] = \E f \in Engines : vote[f]
    BY <1>4 DEF AllReduce, request
  <2> QED BY <2>1 DEF VotesTrue, Unfinished
<1>5. (\E early : ForwardPass(early)) \/ RequestsKept
  BY RequestsStay
<1>6. ASSUME \/ \E c \in Clients : ClientStep(c)
             \/ CoordinatorStep \/ Republish \/ UNCHANGED vars
             \/ \E e \in Engines : HandleStart(e) \/ \E c \in Clients : HandleAdd(e, c) \/ HandleAbort(e, c)
             \/ \E r \in Reqs, e \in Engines : AddRequest(r, e) \/ AbortRequest(r, e)
      PROVE  UNCHANGED <<epc, vote>>
  BY <1>6 DEF ClientStep, SendFirstReq, ReadState, CoordinatorStep, Coordinate, Republish,
     vars, HandleStart, HandleAdd, HandleAbort, AddRequest, AbortRequest, engine
<1> QED BY <1>1, <1>2, <1>3, <1>4, <1>5, <1>6 DEF Next, EngineStep, Collective

(* The coordinator tells only what it believes. *)
LEMMA StartsKnownStep ==
    ASSUME StartsKnown, RequestTypeOK, EngineTypeOK, EngineTypeOK', InStep, WaveInv, [Next]_vars
    PROVE  StartsKnown'
<1>1. Coming \in Nat /\ KnownWaves(Coming)
  BY ComingFacts
<1>2. \A e \in Engines : Msgs(from_coord[e]) \subseteq StartMsgs(Coming)
  BY <1>1, MsgsFacts DEF KnownWaves
<1>3. CASE Ends
  <2>1. Coming' = Coming + 1 /\ from_coord' = from_coord
    BY <1>3, EndOfWave DEF to_engine
  <2>2. \A e \in Engines : \A m \in Msgs(from_coord[e]) : m.wave \in 0..Coming
    BY <1>2 DEF StartMsgs
  <2>3. \A e \in Engines : \A m \in Msgs(from_coord[e]) : m.wave # Coming + 1
    BY <1>1, <2>2
  <2> QED BY <2>1, <2>3 DEF StartsKnown
<1>4. CASE ~Ends
  <2>1. Coming' = Coming
    BY <1>4, ComingStep
  <2>2. ASSUME UNCHANGED <<co_wave, co_running, from_coord>> PROVE StartsKnown'
    BY <2>1, <2>2 DEF StartsKnown
  <2>3. ASSUME NEW c \in Clients \cup {Nobody}, NEW e \in Engines \cup {Nobody}, Coordinate(c, e)
        PROVE  StartsKnown'
    <3>1. PICK N : Outcome(c, e, N)
      BY <1>1, <2>3, CoordinateOutcome
    <3>2. co_wave \in 0..Coming /\ co_wave' \in 0..Coming
      BY <1>1, <2>3, CoordinateStep DEF KnownWaves
    <3> SUFFICES ASSUME NEW f \in Engines, NEW m \in Msgs(from_coord'[f]), m.wave = Coming
                 PROVE  co_running' /\ co_wave' = Coming
      BY <2>1 DEF StartsKnown
    <3>3. CASE m \in Msgs(from_coord[f])
      <4>1. co_running /\ co_wave = Coming
        BY <3>3 DEF StartsKnown
      <4>2. co_wave' = co_wave
        BY <1>1, <3>1, <3>2, <4>1 DEF Outcome
      <4> QED BY <3>1, <4>1, <4>2 DEF Outcome
    <3>4. CASE m \in N
      <4>1. m.wave <= co_wave' /\ (m.wave = co_wave' => co_running')
        BY <3>1, <3>4 DEF Outcome
      <4>2. co_wave' = Coming
        BY <1>1, <3>2, <4>1
      <4> QED BY <4>1, <4>2
    <3> QED BY <3>1, <3>3, <3>4 DEF Outcome
  <2>4. ASSUME NEW e \in Engines, HandleStart(e) PROVE StartsKnown'
    <3>1. /\ \A f \in Engines \ {e} : from_coord'[f] = from_coord[f]
          /\ Msgs(from_coord[e]) = Msgs(from_coord'[e]) \cup {Head(from_coord[e])}
      BY <1>1, <2>4, StartsWhenTold, FirstOfCoordinator
    <3>2. UNCHANGED <<co_wave, co_running>>
      BY <2>4 DEF HandleStart, coord
    <3> QED BY <2>1, <3>1, <3>2 DEF StartsKnown
  <2>5. ASSUME \/ \E c \in Clients : ClientStep(c)
               \/ Republish \/ Collective \/ UNCHANGED vars
               \/ \E e \in Engines : BeginStep(e) \/ Decide(e) \/ \E c \in Clients : HandleAdd(e, c) \/ HandleAbort(e, c)
               \/ \E r \in Reqs, e \in Engines : AddRequest(r, e) \/ AbortRequest(r, e)
        PROVE  UNCHANGED <<co_wave, co_running, from_coord>>
    BY <2>5 DEF ClientStep, SendFirstReq, ReadState, Republish, Collective, ForwardPass, AllReduce,
       vars, BeginStep, Decide, HandleAdd, HandleAbort, AddRequest, AbortRequest, coord, to_engine
  <2> QED BY <2>2, <2>3, <2>4, <2>5 DEF Next, CoordinatorStep, EngineStep
<1> QED BY <1>3, <1>4

(* Nobody falls asleep before the end of the wave. *)
LEMMA AwakeStep ==
    ASSUME AddsOnce, RequestTypeOK, EngineTypeOK, EngineTypeOK', InStep, WaveInv, ~Ends,
           ~SomeAborted', [Next]_vars, NEW e \in Engines, Awake(e)
    PROVE  Awake(e)'
<1>1. Coming \in Nat /\ KnownWaves(Coming)
  BY ComingFacts
<1>2. CASE Going(e)
  BY <1>2, ComingStep DEF Awake
<1>3. CASE epc[e] = "input" /\ Unfinished(e) # {}
  <2>1. ~\E early : ForwardPass(early)
    BY <1>3 DEF ForwardPass
  <2>2. Unfinished(e)' # {}
    BY <1>1, <1>3, <2>1, RequestsStay DEF RequestsKept
  <2>3. CASE BeginStep(e)
    BY <2>3 DEF BeginStep, Awake, Going, EngineTypeOK
  <2>4. ASSUME ~BeginStep(e) PROVE epc'[e] = "input"
    <3>1. ASSUME UNCHANGED epc PROVE epc'[e] = "input"
      BY <1>3, <3>1
    <3>2. ASSUME NEW f \in Engines, BeginStep(f) \/ Decide(f) PROVE epc'[e] = "input"
      BY <1>3, <2>4, <3>2 DEF BeginStep, Decide, EngineTypeOK
    <3>3. ~AllReduce
      BY <1>3 DEF AllReduce
    <3>4. ASSUME \/ \E c \in Clients : ClientStep(c)
                 \/ CoordinatorStep \/ Republish \/ UNCHANGED vars
                 \/ \E f \in Engines : HandleStart(f) \/ \E c \in Clients : HandleAdd(f, c) \/ HandleAbort(f, c)
                 \/ \E r \in Reqs, f \in Engines : AddRequest(r, f) \/ AbortRequest(r, f)
          PROVE  UNCHANGED epc
      BY <3>4 DEF ClientStep, SendFirstReq, ReadState, CoordinatorStep, Coordinate, Republish,
         vars, HandleStart, HandleAdd, HandleAbort, AddRequest, AbortRequest, engine
    <3> QED BY <2>1, <3>1, <3>2, <3>3, <3>4 DEF Next, EngineStep, Collective
  <2> QED BY <2>2, <2>3, <2>4 DEF Awake
<1> QED BY <1>2, <1>3 DEF Awake

(* A call is not lost before the end of the wave. *)
LEMMA CalledStep ==
    ASSUME RequestTypeOK, EngineTypeOK, EngineTypeOK', InStep, WaveInv, ~Ends, [Next]_vars, Called
    PROVE  Called'
<1>1. Coming \in Nat /\ KnownWaves(Coming) /\ Coming' = Coming
  BY ComingFacts, ComingStep
<1>2. PICK W \in Nat : KnownWaves(W) /\ EnginesAt(W)
  BY DEF WaveInv
<1>3. ASSUME UNCHANGED <<co_wave, co_running, front, first_req>>,
             \A e \in Engines : Msgs(back[e]) \subseteq Msgs(back'[e])
      PROVE  Called'
  BY <1>1, <1>3 DEF Called, Asked
<1>4. ASSUME UNCHANGED <<co_wave, co_running, front, first_req, back>> PROVE Called'
  BY <1>3, <1>4
<1>5. ASSUME NEW r \in Reqs, NEW e \in Engines, AddRequest(r, e) PROVE Called'
  <2>1. /\ UNCHANGED <<co_wave, co_running, front, back>>
        /\ first_req' = [first_req EXCEPT ![ClientOf[r]] =
                            @ + IF c_running[ClientOf[r]] THEN 0 ELSE 1]
    BY <1>5 DEF AddRequest, coord
  <2>2. \A c \in Clients : first_req[c] > 0 => first_req'[c] > 0
    <3> SUFFICES ASSUME NEW c \in Clients, first_req[c] > 0 PROVE first_req'[c] > 0
      OBVIOUS
    <3>1. first_req[c] \in Nat /\ (first_req'[c] = first_req[c] \/ first_req'[c] = first_req[c] + 0
              \/ first_req'[c] = first_req[c] + 1)
      BY <2>1 DEF RequestTypeOK
    <3> QED BY <3>1
  <2> QED BY <1>1, <2>1, <2>2 DEF Called, Asked
<1>6. ASSUME NEW c \in Clients, SendFirstReq(c) PROVE Called'
  <2>1. /\ UNCHANGED <<co_wave, co_running, back>>
        /\ front' = [front EXCEPT ![c] = Append(@, c_wave[c])]
    BY <1>6 DEF SendFirstReq
  <2>2. front[c] \in Seq(Nat) /\ c_wave[c] \in Nat
    BY <1>1 DEF KnownWaves, RequestTypeOK
  <2>3. front'[c] # <<>>
    BY <2>1, <2>2, AppendProperties DEF RequestTypeOK
  <2> QED BY <1>1, <2>1, <2>3 DEF Called, Asked
<1>7. ASSUME NEW c \in Clients \cup {Nobody}, NEW e \in Engines \cup {Nobody}, Coordinate(c, e)
      PROVE  Called'
  <2>1. PICK N : Outcome(c, e, N)
    BY <1>1, <1>7, CoordinateOutcome
  <2>2. co_wave \in 0..Coming /\ co_wave' \in 0..Coming /\ co_wave <= co_wave'
    BY <1>1, <1>7, <2>1, CoordinateStep DEF KnownWaves, Outcome
  <2>3. /\ first_req' = first_req
        /\ \A d \in Clients : front'[d] = front[d] \/ (d = c /\ c # Nobody)
        /\ \A f \in Engines : back'[f] = back[f] \/ (f = e /\ e # Nobody /\ back[e] # <<>> /\ back'[e] = Tail(back[e]))
    BY <1>1, <1>7 DEF Coordinate, RequestTypeOK, KnownWaves
  <2>4. CASE co_wave = Coming /\ (co_running \/ \E d \in Clients : first_req[d] > 0 \/ front[d] # <<>>)
    <3>1. co_wave' = co_wave
      BY <1>1, <2>2, <2>4
    <3>2. co_running => co_running'
      BY <2>1, <3>1 DEF Outcome
    <3>3. c # Nobody => co_running'
      BY <2>1, <3>1 DEF Outcome
    <3> QED BY <1>1, <2>3, <2>4, <3>1, <3>2, <3>3 DEF Called
  <2>5. ASSUME NEW f \in Engines, Asked(f) PROVE Called'
    <3>1. CASE StartOf(Coming) \in Msgs(back'[f])
      BY <1>1, <3>1 DEF Called, Asked
    <3>2. CASE StartOf(Coming) \notin Msgs(back'[f])
      <4>1. f = e /\ e # Nobody /\ back[e] # <<>> /\ back'[e] = Tail(back[e])
        BY <2>3, <2>5, <3>2 DEF Asked
      <4>2. back[f] \in Seq(EngineMsgs(Coming))
        BY <1>1 DEF KnownWaves
      <4>3. Head(back[e]) = StartOf(Coming)
        BY <2>5, <3>2, <4>1, <4>2, MsgsFacts DEF Asked
      <4>4. Head(back[e]).type = "start_wave" /\ Head(back[e]).wave = Coming
        BY <4>3 DEF StartOf
      <4>5. Coming < co_wave' \/ (Coming = co_wave' /\ co_running')
        BY <2>1, <4>1, <4>4 DEF Outcome
      <4>6. co_wave' = Coming /\ co_running'
        BY <1>1, <2>2, <4>5
      <4> QED BY <1>1, <4>6 DEF Called
    <3> QED BY <3>1, <3>2
  <2> QED BY <2>4, <2>5 DEF Called
<1>8. ASSUME NEW e \in Engines, NEW c \in Clients, HandleAdd(e, c) PROVE Called'
  <2>1. UNCHANGED <<co_wave, co_running, front, first_req>> /\ wave[e] = W
    BY <1>2, <1>8, InNewestWave DEF HandleAdd, client
  <2>2. back' = [back EXCEPT ![e] = back[e]] \/ back' = [back EXCEPT ![e] = Append(@, StartOf(W))]
    BY <1>8, <2>1 DEF HandleAdd, StartOf
  <2>3. StartOf(W) \in EngineMsgs(W)
    BY DEF StartOf, EngineMsgs
  <2>4. \A f \in Engines : Msgs(back[f]) \subseteq Msgs(back'[f])
    <3>1. CASE back' = [back EXCEPT ![e] = back[e]]
      BY <1>2, <3>1 DEF KnownWaves
    <3>2. CASE back' = [back EXCEPT ![e] = Append(@, StartOf(W))]
      BY <1>2, <2>3, <3>2, ToCoordinatorStays
    <3> QED BY <2>2, <3>1, <3>2
  <2> QED BY <1>3, <2>1, <2>4
<1>9. ASSUME NEW e \in Engines, Decide(e) PROVE Called'
  <2>1. UNCHANGED <<co_wave, co_running, front, first_req>>
    BY <1>9 DEF Decide, client
  <2>2. CASE back' = back
    BY <1>3, <2>1, <2>2
  <2>3. CASE e = 0 /\ ~vote[e] /\ back' = [back EXCEPT ![e] = Append(@, Completed(wave[e]))]
    <3>1. epc[e] = "decide" /\ Down(e)
      BY <1>9, <2>3 DEF Decide, Down
    <3>2. Coming = wave[e] + 1 /\ wave[e] \in Nat
      BY <3>1, ComingFacts DEF EngineTypeOK
    <3>3. wave[e] < Coming
      BY <3>2
    <3>4. Completed(wave[e]) \in EngineMsgs(Coming)
      BY <3>2, <3>3 DEF Completed, EngineMsgs
    <3>5. PICK V \in Nat : KnownWaves(V) /\ Completed(wave[e]) \in EngineMsgs(V)
      BY <1>1, <3>4
    <3>6. \A f \in Engines : Msgs(back[f]) \subseteq Msgs(back'[f])
      BY <2>3, <3>5, ToCoordinatorStays
    <3> QED BY <1>3, <2>1, <3>6
  <2>4. back' = back \/ (e = 0 /\ ~vote[e] /\ back' = [back EXCEPT ![e] = Append(@, Completed(wave[e]))])
    BY <1>9 DEF Decide, Completed
  <2> QED BY <2>2, <2>3, <2>4
<1>10. ASSUME \/ \E c \in Clients : ReadState(c)
              \/ Republish \/ Collective \/ UNCHANGED vars
              \/ \E e \in Engines : HandleStart(e) \/ BeginStep(e) \/ \E c \in Clients : HandleAbort(e, c)
              \/ \E r \in Reqs, e \in Engines : AbortRequest(r, e)
       PROVE  UNCHANGED <<co_wave, co_running, front, first_req, back>>
  BY <1>10 DEF ReadState, Republish, Collective, ForwardPass, AllReduce, vars, HandleStart, BeginStep,
     HandleAbort, AbortRequest, client, coord
<1> QED BY <1>4, <1>5, <1>6, <1>7, <1>8, <1>9, <1>10 DEF Next, ClientStep, CoordinatorStep, EngineStep

(* An engine wakes up when it reads that it has to start, or a request. *)
LEMMA WakesByMessage ==
    ASSUME AddsOnce, VotesTrue, RequestTypeOK, EngineTypeOK, NEW W \in Nat, KnownWaves(W), [Next]_vars,
           NEW e \in Engines, ~Awake(e), Awake(e)'
    PROVE  HandleStart(e) \/ \E c \in Clients : HandleAdd(e, c)
<1> SUFFICES ASSUME ~HandleStart(e), ~\E c \in Clients : HandleAdd(e, c) PROVE FALSE
  OBVIOUS
<1>1. epc[e] \notin {"forward", "reduce"}
  BY DEF Awake, Going
<1>2. ~(\E early : ForwardPass(early)) /\ ~AllReduce
  BY <1>1 DEF ForwardPass, AllReduce
<1>3. Unfinished(e)' \subseteq Unfinished(e)
  BY <1>2, RequestsStay DEF RequestsKept
<1>4. ASSUME epc'[e] = epc[e], vote'[e] = vote[e], running'[e] = running[e] PROVE FALSE
  BY <1>3, <1>4 DEF Awake, Going
<1>5. ~BeginStep(e)
  BY DEF BeginStep, Awake, Going
<1>6. ~Decide(e)
  <2> SUFFICES ASSUME Decide(e) PROVE FALSE
    OBVIOUS
  <2>1. epc[e] = "decide" /\ epc'[e] = "input" /\ running'[e] = vote[e]
    BY DEF Decide, EngineTypeOK
  <2>2. ~vote[e]
    BY <2>1 DEF Awake, Going
  <2>3. Unfinished(e) = {}
    BY <2>1, <2>2 DEF VotesTrue
  <2> QED BY <1>3, <2>1, <2>2, <2>3 DEF Awake, Going
<1>7. ASSUME NEW f \in Engines \ {e}, BeginStep(f) \/ Decide(f) \/ HandleStart(f) PROVE FALSE
  <2>1. epc'[e] = epc[e] /\ vote'[e] = vote[e] /\ running'[e] = running[e]
    BY <1>7 DEF BeginStep, Decide, HandleStart, EngineTypeOK
  <2> QED BY <1>4, <2>1
<1>8. ASSUME \/ \E c \in Clients : ClientStep(c)
             \/ CoordinatorStep \/ Republish \/ UNCHANGED vars
             \/ \E f \in Engines, c \in Clients : HandleAdd(f, c) \/ HandleAbort(f, c)
             \/ \E r \in Reqs, f \in Engines : AddRequest(r, f) \/ AbortRequest(r, f)
      PROVE  UNCHANGED <<epc, vote, running>>
  BY <1>8 DEF ClientStep, SendFirstReq, ReadState, CoordinatorStep, Coordinate, Republish,
     vars, HandleAdd, HandleAbort, AddRequest, AbortRequest, engine
<1> QED BY <1>2, <1>4, <1>5, <1>6, <1>7, <1>8 DEF Next, EngineStep, Collective

(* A request of the coming wave makes a paused engine call for it, if nobody has. *)
LEMMA AddCalls ==
    ASSUME CallInv, RequestTypeOK, EngineTypeOK, EngineTypeOK', AddsOnce, InStep, WaveInv, ~Ends, [Next]_vars,
           NEW e \in Engines, NEW c \in Clients, HandleAdd(e, c), ~Awake(e)
    PROVE  Called' /\ Awake(e)'
<1>1. Coming \in Nat /\ KnownWaves(Coming) /\ Coming' = Coming
  BY ComingFacts, ComingStep
<1>2. /\ epc[e] = "input" /\ from_client[e][c] # <<>>
      /\ from_client' = [from_client EXCEPT ![e][c] = Tail(@)]
      /\ Head(from_client[e][c]).type = "ADD"
  BY DEF HandleAdd
<1>3. wave[e] = Coming /\ ~running[e]
  BY <1>2, ComingFacts DEF Down, Awake, Going
<1>4. Took(Coming, e, c)
  BY <1>1, <1>2, ReadClient
<1>5. Head(from_client[e][c]) \in Msgs(from_client[e][c]) /\ Head(from_client[e][c]).wave \in 0..Coming
      /\ Head(from_client[e][c]).req \in Reqs
  BY <1>4 DEF Took, ClientMsgs
<1>6. Called'
  <2>1. CASE Head(from_client[e][c]).wave = Coming
    <3>1. Called
      BY <1>2, <1>5, <2>1 DEF CallInv
    <3> QED BY <3>1, CalledStep
  <2>2. CASE Head(from_client[e][c]).wave # Coming
    <3>1. Head(from_client[e][c]).wave < wave[e]
      BY <1>1, <1>3, <1>5, <2>2
    <3>2. back' = [back EXCEPT ![e] = Append(@, StartOf(Coming))]
      BY <1>3, <3>1 DEF HandleAdd, StartOf
    <3>3. StartOf(Coming) \in EngineMsgs(Coming)
      BY <1>1 DEF StartOf, EngineMsgs
    <3>4. PICK V \in Nat : V = Coming
      BY <1>1
    <3>5. StartOf(V) \in Msgs(back'[e])
      <4>1. StartOf(V) \in EngineMsgs(V) /\ KnownWaves(V) /\ back' = [back EXCEPT ![e] = Append(@, StartOf(V))]
        BY <1>1, <3>2, <3>3, <3>4
      <4>2. back[e] \in Seq(EngineMsgs(V)) /\ back \in [Engines -> Seq(EngineMsgs(V))]
        BY <4>1 DEF KnownWaves
      <4>3. back'[e] = Append(back[e], StartOf(V))
        BY <4>1, <4>2
      <4> QED BY <4>1, <4>2, <4>3, MsgsFacts
    <3>6. Asked(e)'
      BY <1>1, <3>4, <3>5 DEF Asked
    <3> QED BY <3>6 DEF Called
  <2> QED BY <2>1, <2>2
<1>7. Awake(e)'
  <2>1. PICK r \in Reqs : r = Head(from_client[e][c]).req
    BY <1>5
  <2>2. status'[r] = "queued" /\ target' = target /\ epc' = epc
    BY <2>1 DEF HandleAdd, RequestTypeOK
  <2>3. target[r] = e
    <3>1. 1 \in 1..Len(from_client[e][c]) /\ from_client[e][c][1] = Head(from_client[e][c])
      BY <1>4 DEF Took
    <3> QED BY <1>2, <2>1, <3>1 DEF AddsOnce
  <2>4. r \in Unfinished(e)'
    BY <2>2, <2>3 DEF Unfinished
  <2> QED BY <1>2, <2>2, <2>4 DEF Awake
<1> QED BY <1>6, <1>7

(* At the end of a wave nobody is awake and nobody has called. *)
LEMMA CallEnds ==
    ASSUME EngineTypeOK, InStep, WaveInv, VotesTrue, Ends
    PROVE  CallInv'
<1>1. Coming \in Nat /\ KnownWaves(Coming)
  BY ComingFacts
<1>2. /\ Coming' = Coming + 1 /\ \A e \in Engines : ~Going(e)' /\ epc'[e] = "decide"
      /\ UNCHANGED <<co_wave, co_running, back, from_client>>
  BY EndOfWave DEF coord, to_engine
<1>3. \A e \in Engines : ~Awake(e)'
  BY <1>2 DEF Awake
<1>4. co_wave' # Coming'
  BY <1>1, <1>2 DEF KnownWaves
<1>5. \A e \in Engines : ~Asked(e)'
  <2> SUFFICES ASSUME NEW e \in Engines, Asked(e)' PROVE FALSE
    OBVIOUS
  <2>1. StartOf(Coming + 1) \in EngineMsgs(Coming)
    BY <1>1, <1>2, MsgsFacts DEF Asked, KnownWaves
  <2>2. StartOf(Coming + 1).type = "start_wave" /\ StartOf(Coming + 1).wave = Coming + 1
    BY DEF StartOf
  <2>3. StartOf(Coming + 1).wave \in 0..Coming
    BY <2>1, <2>2 DEF EngineMsgs
  <2> QED BY <1>1, <2>2, <2>3
<1>6. \A e \in Engines, c \in Clients : \A m \in Msgs(from_client'[e][c]) : m.wave # Coming'
  <2> SUFFICES ASSUME NEW e \in Engines, NEW c \in Clients, NEW m \in Msgs(from_client[e][c])
               PROVE  m.wave # Coming + 1
    BY <1>2
  <2>1. from_client[e][c] \in Seq(ClientMsgs(Coming))
    BY <1>1 DEF KnownWaves
  <2>2. m \in ClientMsgs(Coming)
    BY <2>1, MsgsFacts
  <2>3. m.wave \in 0..Coming
    BY <2>2 DEF ClientMsgs
  <2> QED BY <1>1, <2>3
<1> QED BY <1>3, <1>4, <1>5, <1>6 DEF CallInv

\* Before the end of a wave, in states without aborted requests.
InWave ==
    /\ AddsOnce /\ VotesTrue /\ StartsKnown /\ RequestTypeOK /\ EngineTypeOK /\ EngineTypeOK'
    /\ InStep /\ WaveInv /\ ~Ends /\ ~SomeAborted' /\ [Next]_vars

(* Whoever wakes up has been called. *)
LEMMA WakesCalled ==
    ASSUME CallInv, InWave, NEW e \in Engines, Awake(e)'
    PROVE  Called'
<1>1. Coming \in Nat /\ KnownWaves(Coming)
  BY ComingFacts DEF InWave
<1>2. CASE Awake(e)
  <2>1. Called
    BY <1>2 DEF CallInv
  <2> QED BY <2>1, CalledStep DEF InWave
<1>3. CASE ~Awake(e) /\ HandleStart(e)
  <2>1. ~running[e] /\ running'[e]
    BY <1>3 DEF HandleStart, Awake, Going, Unfinished, request, InWave, EngineTypeOK
  <2>2. from_coord[e] # <<>> /\ from_coord' = [from_coord EXCEPT ![e] = Tail(@)]
        /\ Head(from_coord[e]).wave = Coming
    BY <1>3, <2>1, StartsWhenTold DEF InWave
  <2>3. Head(from_coord[e]) \in Msgs(from_coord[e])
    BY <1>1, <2>2, FirstOfCoordinator
  <2>4. co_running /\ co_wave = Coming
    BY <2>2, <2>3 DEF InWave, StartsKnown
  <2>5. Called
    BY <2>4 DEF Called
  <2> QED BY <2>5, CalledStep DEF InWave
<1>4. ASSUME ~Awake(e), NEW c \in Clients, HandleAdd(e, c) PROVE Called'
  BY <1>4, AddCalls DEF InWave
<1> QED BY <1>1, <1>2, <1>3, <1>4, WakesByMessage DEF InWave

(* When the coordinator starts the wave, it tells all engines but one that is awake. *)
LEMMA StartWakesAll ==
    ASSUME CallInv, InWave, NEW e \in Engines, co_running', co_wave' = Coming
    PROVE  Awake(e)' \/ Told(e)'
<1>1. Coming \in Nat /\ KnownWaves(Coming) /\ Coming' = Coming
  BY ComingFacts, ComingStep DEF InWave
<1>2. \A f \in Engines : Awake(f) => Awake(f)'
  BY AwakeStep DEF InWave
<1>3. \A f \in Engines : Nobody # f
  BY WavesAssumption
<1>4. ASSUME UNCHANGED <<co_wave, co_running, from_coord>> PROVE Awake(e)' \/ Told(e)'
  <2>1. Awake(e) \/ Told(e)
    BY <1>4 DEF CallInv
  <2>2. Told(e) => Told(e)'
    BY <1>1, <1>4 DEF Told
  <2> QED BY <1>2, <2>1, <2>2
<1>5. ASSUME NEW c \in Clients \cup {Nobody}, NEW f \in Engines \cup {Nobody}, Coordinate(c, f)
      PROVE  Awake(e)' \/ Told(e)'
  <2>1. PICK N : Outcome(c, f, N)
    BY <1>1, <1>5, CoordinateOutcome DEF InWave
  <2>2. CASE co_running /\ co_wave' = co_wave
    <3>1. Awake(e) \/ Told(e)
      BY <2>2 DEF CallInv
    <3>2. Told(e) => Told(e)'
      BY <1>1, <2>1 DEF Told, Outcome
    <3> QED BY <1>2, <3>1, <3>2
  <2>3. CASE ~(co_running /\ co_wave' = co_wave)
    <3>1. PICK m \in N : /\ m.wave = Coming
                         /\ \/ m.exclude = Nobody
                            \/ m.exclude = f /\ f # Nobody /\ Head(back[f]) = StartOf(Coming)
      BY <2>1, <2>3 DEF Outcome, StartOf
    <3>2. m \in Msgs(from_coord'[e])
      BY <2>1 DEF Outcome
    <3>3. CASE m.exclude # e
      BY <1>1, <3>1, <3>2, <3>3 DEF Told
    <3>4. CASE m.exclude = e
      <4>1. f = e /\ Head(back[e]) = StartOf(Coming)
        BY <1>3, <3>1, <3>4
      <4>2. back[e] # <<>> /\ back[e] \in Seq(EngineMsgs(Coming))
        BY <1>1, <1>3, <1>5, <4>1 DEF Coordinate, KnownWaves
      <4>3. Head(back[e]) \in Msgs(back[e])
        BY <4>2, MsgsFacts
      <4>4. Awake(e)
        BY <4>1, <4>3 DEF Asked, CallInv
      <4> QED BY <1>2, <4>4
    <3> QED BY <3>3, <3>4
  <2> QED BY <2>2, <2>3
<1>6. ASSUME NEW f \in Engines, HandleStart(f) PROVE Awake(e)' \/ Told(e)'
  <2>1. UNCHANGED <<co_wave, co_running>>
    BY <1>6 DEF HandleStart, coord
  <2>2. Awake(e) \/ Told(e)
    BY <2>1 DEF CallInv
  <2>3. /\ \A g \in Engines \ {f} : from_coord'[g] = from_coord[g]
        /\ Msgs(from_coord[f]) = Msgs(from_coord'[f]) \cup {Head(from_coord[f])}
    BY <1>1, <1>6, StartsWhenTold, FirstOfCoordinator DEF InWave
  <2>4. ASSUME Told(e) PROVE Told(e)' \/ Going(e)'
    <3>1. PICK m \in Msgs(from_coord[e]) : m.wave = Coming /\ m.exclude # e
      BY <2>4 DEF Told
    <3>2. CASE m \in Msgs(from_coord'[e])
      BY <1>1, <3>1, <3>2 DEF Told
    <3>3. CASE m \notin Msgs(from_coord'[e])
      <4>1. e = f /\ m = Head(from_coord[e])
        BY <2>3, <3>3
      <4> QED BY <1>6, <3>1, <4>1, StartsWhenTold DEF InWave
    <3> QED BY <3>2, <3>3
  <2> QED BY <1>2, <2>2, <2>4 DEF Awake
<1>7. ASSUME \/ \E c \in Clients : ClientStep(c)
             \/ Republish \/ Collective \/ UNCHANGED vars
             \/ \E f \in Engines : BeginStep(f) \/ Decide(f) \/ \E c \in Clients : HandleAdd(f, c) \/ HandleAbort(f, c)
             \/ \E r \in Reqs, f \in Engines : AddRequest(r, f) \/ AbortRequest(r, f)
      PROVE  UNCHANGED <<co_wave, co_running, from_coord>>
  BY <1>7 DEF ClientStep, SendFirstReq, ReadState, Republish, Collective, ForwardPass, AllReduce,
     vars, BeginStep, Decide, HandleAdd, HandleAbort, AddRequest, AbortRequest, coord, to_engine
<1> QED BY <1>4, <1>5, <1>6, <1>7 DEF InWave, Next, CoordinatorStep, EngineStep

(* Who asks for the wave is awake. *)
LEMMA AsksAwake ==
    ASSUME CallInv, InWave, NEW e \in Engines, Asked(e)'
    PROVE  Awake(e)'
<1>1. Coming \in Nat /\ KnownWaves(Coming) /\ Coming' = Coming
  BY ComingFacts, ComingStep DEF InWave
<1>2. Awake(e) => Awake(e)'
  BY AwakeStep DEF InWave
<1>3. CASE Asked(e)
  BY <1>2, <1>3 DEF CallInv
<1>4. CASE ~Asked(e)
  <2>1. PICK V \in Nat : V = Coming
    BY <1>1
  <2>2. StartOf(V) \in Msgs(back'[e]) /\ StartOf(V) \notin Msgs(back[e])
    BY <1>1, <1>4, <2>1 DEF Asked
  <2>3. back \in [Engines -> Seq(EngineMsgs(V))] /\ back[e] \in Seq(EngineMsgs(V))
    BY <1>1, <2>1 DEF KnownWaves
  <2>4. ASSUME NEW c \in Clients, HandleAdd(e, c) PROVE Awake(e)'
    BY <1>2, <2>4, AddCalls DEF InWave
  <2>5. ASSUME back'[e] = back[e] PROVE FALSE
    BY <2>2, <2>5
  <2>6. ASSUME NEW f \in Engines \ {e}, NEW c \in Clients, HandleAdd(f, c) PROVE back'[e] = back[e]
    BY <2>3, <2>6 DEF HandleAdd
  <2>7. ASSUME NEW f \in Engines, Decide(f) PROVE FALSE
    <3>1. back'[e] = back[e] \/ (f = 0 /\ e = 0 /\ ~vote[e] /\ epc[e] = "decide" /\ back'[e] = Append(back[e], Completed(wave[e])))
      BY <2>3, <2>7 DEF Decide, Completed
    <3>2. CASE back'[e] = Append(back[e], Completed(wave[e])) /\ epc[e] = "decide" /\ ~vote[e]
      <4>1. Coming = wave[e] + 1 /\ wave[e] \in Nat
        BY <3>2, ComingFacts DEF EngineTypeOK, Down, InWave
      <4>2. wave[e] < V
        BY <2>1, <4>1
      <4>3. Completed(wave[e]) \in EngineMsgs(V)
        BY <4>1, <4>2 DEF Completed, EngineMsgs
      <4>4. Msgs(back'[e]) = Msgs(back[e]) \cup {Completed(wave[e])}
        BY <2>3, <3>2, <4>3, MsgsFacts
      <4>5. StartOf(V) = Completed(wave[e])
        BY <2>2, <4>4
      <4>6. StartOf(V).type # Completed(wave[e]).type
        BY DEF StartOf, Completed
      <4> QED BY <4>5, <4>6
    <3> QED BY <2>5, <3>1, <3>2
  <2>8. ASSUME NEW c \in Clients \cup {Nobody}, NEW f \in Engines \cup {Nobody}, Coordinate(c, f)
        PROVE  FALSE
    <3>1. back'[e] = back[e] \/ (back[e] # <<>> /\ back'[e] = Tail(back[e]))
      BY <2>3, <2>8 DEF Coordinate
    <3>2. Msgs(back'[e]) \subseteq Msgs(back[e])
      <4>1. back[e] # <<>> => Msgs(back[e]) = Msgs(Tail(back[e])) \cup {Head(back[e])}
        BY <2>3, MsgsFacts
      <4> QED BY <3>1, <4>1
    <3> QED BY <2>2, <3>2
  <2>9. ASSUME \/ \E c \in Clients : ClientStep(c)
               \/ Republish \/ Collective \/ UNCHANGED vars
               \/ \E f \in Engines : BeginStep(f) \/ HandleStart(f) \/ \E c \in Clients : HandleAbort(f, c)
               \/ \E r \in Reqs, f \in Engines : AddRequest(r, f) \/ AbortRequest(r, f)
        PROVE  back'[e] = back[e]
    BY <2>9 DEF ClientStep, SendFirstReq, ReadState, Republish, Collective, ForwardPass, AllReduce,
       vars, BeginStep, HandleStart, HandleAbort, AddRequest, AbortRequest, coord
  <2> QED BY <2>4, <2>5, <2>6, <2>7, <2>8, <2>9 DEF InWave, Next, CoordinatorStep, EngineStep
<1> QED BY <1>3, <1>4

(* Who sends a request of the coming wave calls, or somebody has. *)
LEMMA AddIsCalled ==
    ASSUME CallInv, InWave, Beliefs, NEW e \in Engines, NEW c \in Clients,
           NEW m \in Msgs(from_client'[e][c]), m.type = "ADD", m.wave = Coming
    PROVE  Called'
<1>1. Coming \in Nat /\ KnownWaves(Coming) /\ Coming' = Coming
  BY ComingFacts, ComingStep DEF InWave
<1>2. CASE m \in Msgs(from_client[e][c])
  <2>1. Called
    BY <1>2 DEF CallInv
  <2> QED BY <2>1, CalledStep DEF InWave
<1>3. CASE m \notin Msgs(from_client[e][c])
  <2>1. from_client'[e][c] # from_client[e][c]
    BY <1>3
  <2>2. ASSUME NEW f \in Engines, NEW d \in Clients, HandleAdd(f, d) \/ HandleAbort(f, d) PROVE FALSE
    <3>1. from_client[f][d] # <<>> /\ from_client' = [from_client EXCEPT ![f][d] = Tail(@)]
      BY <2>2 DEF HandleAdd, HandleAbort
    <3>2. Took(Coming, f, d)
      BY <1>1, <3>1, ReadClient
    <3> QED BY <1>3, <3>2 DEF Took
  <2>3. ASSUME NEW r \in Reqs, NEW f \in Engines, AbortRequest(r, f) PROVE FALSE
    <3>1. PICK n : n = [type |-> "ABORT", req |-> r, wave |-> 0]
      OBVIOUS
    <3>2. n \in ClientMsgs(Coming) /\ ClientOf[r] \in Clients
          /\ from_client' = [from_client EXCEPT ![f][ClientOf[r]] = Append(@, n)]
      BY <1>1, <2>3, <3>1, WavesAssumption DEF AbortRequest, ClientMsgs
    <3>3. Wrote(f, ClientOf[r], n)
      BY <1>1, <3>2, WriteClient
    <3>4. m = n
      BY <1>3, <2>1, <3>3 DEF Wrote
    <3> QED BY <3>1, <3>4
  <2>4. ASSUME NEW r \in Reqs, NEW f \in Engines, AddRequest(r, f) PROVE Called'
    <3>1. PICK d \in Clients : d = ClientOf[r]
      BY WavesAssumption
    <3>2. PICK n : n = [type |-> "ADD", req |-> r, wave |-> c_wave[d]]
      OBVIOUS
    <3>3. c_wave[d] \in 0..co_wave /\ co_wave \in 0..Coming
      BY <1>1 DEF KnownWaves
    <3>4. n \in ClientMsgs(Coming) /\ from_client' = [from_client EXCEPT ![f][d] = Append(@, n)]
      <4>1. c_wave[d] \in 0..Coming
        BY <1>1, <3>3
      <4> QED BY <2>4, <3>1, <3>2, <4>1 DEF AddRequest, ClientMsgs
    <3>5. Wrote(f, d, n)
      BY <1>1, <3>4, WriteClient
    <3>6. m = n
      BY <1>3, <2>1, <3>5 DEF Wrote
    <3>7. c_wave[d] = co_wave /\ co_wave = Coming
      <4>1. c_wave[d] = Coming
        BY <3>2, <3>6
      <4> QED BY <1>1, <3>3, <4>1
    <3>8. CASE c_running[d]
      <4>1. co_running \/ front[d] # <<>>
        BY <3>7, <3>8 DEF Beliefs
      <4>2. Called
        BY <3>7, <4>1 DEF Called
      <4> QED BY <4>2, CalledStep DEF InWave
    <3>9. CASE ~c_running[d]
      <4>1. first_req'[d] = first_req[d] + 1 /\ first_req[d] \in Nat /\ co_wave' = co_wave
        BY <2>4, <3>1, <3>9 DEF AddRequest, coord, InWave, RequestTypeOK
      <4>2. first_req'[d] > 0
        BY <4>1
      <4> QED BY <1>1, <3>7, <4>1, <4>2 DEF Called
    <3> QED BY <3>8, <3>9
  <2>5. ASSUME \/ \E d \in Clients : ClientStep(d)
               \/ CoordinatorStep \/ Republish \/ Collective \/ UNCHANGED vars
               \/ \E f \in Engines : BeginStep(f) \/ Decide(f) \/ HandleStart(f)
        PROVE  from_client' = from_client
    BY <2>5 DEF ClientStep, SendFirstReq, ReadState, CoordinatorStep, Coordinate, Republish,
       Collective, ForwardPass, AllReduce, vars, BeginStep, Decide, HandleStart, to_engine
  <2> QED BY <2>1, <2>2, <2>3, <2>4, <2>5 DEF InWave, Next, EngineStep
<1> QED BY <1>2, <1>3

(* The calls are kept through every step. *)
LEMMA CallStep ==
    ASSUME CallInv, Beliefs, StartsKnown, AddsOnce, VotesTrue, RequestTypeOK, EngineTypeOK,
           EngineTypeOK', InStep, WaveInv, ~SomeAborted', [Next]_vars
    PROVE  CallInv'
<1>1. CASE Ends
  BY <1>1, CallEnds
<1>2. CASE ~Ends
  <2>1. InWave
    BY <1>2 DEF InWave
  <2>2. Coming' = Coming
    BY <1>2, ComingStep
  <2>3. \A e \in Engines : Awake(e)' => Called'
    BY <2>1, WakesCalled
  <2>4. co_running' /\ co_wave' = Coming => \A e \in Engines : Awake(e)' \/ Told(e)'
    BY <2>1, StartWakesAll
  <2>5. \A e \in Engines : Asked(e)' => Awake(e)'
    BY <2>1, AsksAwake
  <2>6. \A e \in Engines, c \in Clients : \A m \in Msgs(from_client'[e][c]) :
           m.type = "ADD" /\ m.wave = Coming => Called'
    BY <2>1, AddIsCalled
  <2> QED BY <2>2, <2>3, <2>4, <2>5, <2>6 DEF CallInv
<1> QED BY <1>1, <1>2

\* What the messages and requests under way say, and who has been called.
WakeInv == RequestTypeOK /\ Beliefs /\ AddsOnce /\ VotesTrue /\ StartsKnown /\ (SomeAborted \/ CallInv)

(* It holds all along. *)
LEMMA WakeInvariant == Spec => [](EngineTypeOK /\ InStep /\ WaveInv /\ WakeInv)
<1>1. Init => WakeInv
  <2> SUFFICES ASSUME Init PROVE WakeInv
    OBVIOUS
  <2>1. Msgs(<<>>) = {} /\ Len(<<>>) = 0 /\ 1..0 = {}
    BY DEF Msgs
  <2>2. RequestTypeOK
    BY DEF Init, RequestTypeOK
  <2>3. Beliefs
    BY DEF Init, Beliefs
  <2>4. AddsOnce
    BY <2>1 DEF Init, AddsOnce
  <2>5. VotesTrue
    BY DEF Init, VotesTrue
  <2>6. StartsKnown
    BY <2>1 DEF Init, StartsKnown
  <2>7. \A e \in Engines : ~Awake(e) /\ ~Asked(e)
    BY <2>1 DEF Init, Awake, Going, Unfinished, Asked
  <2>8. CallInv
    BY <2>1, <2>7 DEF Init, CallInv
  <2> QED BY <2>2, <2>3, <2>4, <2>5, <2>6, <2>8 DEF WakeInv
<1>2. /\ EngineTypeOK /\ InStep /\ WaveInv /\ (EngineTypeOK /\ InStep /\ WaveInv)'
      /\ WakeInv /\ [Next]_vars
      => WakeInv'
  <2> SUFFICES ASSUME EngineTypeOK, InStep, WaveInv, EngineTypeOK', WakeInv, [Next]_vars
               PROVE  WakeInv'
    OBVIOUS
  <2>1. PICK W \in Nat : KnownWaves(W)
    BY DEF WaveInv
  <2>2. RequestTypeOK /\ Beliefs /\ AddsOnce /\ VotesTrue /\ StartsKnown
    BY DEF WakeInv
  <2>3. RequestTypeOK' /\ Beliefs'
    BY <2>1, <2>2, RequestTypeStep, BeliefsStep
  <2>4. AddsOnce' /\ VotesTrue' /\ StartsKnown'
    BY <2>1, <2>2, AddsOnceStep, VotesTrueStep, StartsKnownStep
  <2>5. SomeAborted' \/ CallInv'
    <3>1. CASE SomeAborted
      BY <2>1, <2>2, <3>1, RequestsStay
    <3>2. CASE CallInv /\ ~SomeAborted'
      BY <2>2, <3>2, CallStep
    <3> QED BY <3>1, <3>2 DEF WakeInv
  <2> QED BY <2>3, <2>4, <2>5 DEF WakeInv
<1> QED BY <1>1, <1>2, WavesInvariant, PTL DEF Spec

(* Spec => []NoneLeftWaitingUnlessAborted: as long as no request is aborted, no *)
(* engine is left in a collective operation that the others do not join.       *)
THEOREM NobodyLeftWaiting == Spec => []NoneLeftWaitingUnlessAborted
<1>1. EngineTypeOK /\ InStep /\ WaveInv /\ WakeInv => NoneLeftWaitingUnlessAborted
  <2> SUFFICES ASSUME EngineTypeOK, InStep, WaveInv, WakeInv, ~SomeAborted, AtRest,
                      NEW e \in Engines, epc[e] # "input"
               PROVE  FALSE
    BY DEF NoneLeftWaitingUnlessAborted, NoneLeftWaiting, SomeAborted
  <2>1. /\ \A f \in Engines : /\ Blocked(f) /\ back[f] = <<>> /\ from_coord[f] = <<>>
        /\ \A c \in Clients : first_req[c] = 0 /\ front[c] = <<>>
    BY DEF AtRest, Delivered
  <2>2. CallInv /\ ~(0 > 0) /\ Msgs(<<>>) = {}
    BY DEF WakeInv, Msgs
  <2>3. epc[e] \in {"forward", "reduce"}
    BY <2>1 DEF Blocked
  <2>4. Called
    BY <2>2, <2>3 DEF CallInv, Awake, Going
  <2>5. co_running /\ co_wave = Coming
    BY <2>1, <2>2, <2>4 DEF Called, Asked
  <2>6. \A f \in Engines : Awake(f)
    BY <2>1, <2>2, <2>5 DEF CallInv, Told
  <2>7. \A f \in Engines : epc[f] \in {"forward", "reduce"}
    BY <2>1, <2>6 DEF Awake, Going, Blocked
  <2>8. CASE \E f \in Engines : epc[f] = "reduce"
    <3>1. \A f \in Engines : epc[f] = "reduce"
      BY <2>8 DEF InStep
    <3> QED BY <2>1, <3>1 DEF Blocked
  <2>9. CASE \A f \in Engines : epc[f] = "forward"
    BY <2>1, <2>9 DEF Blocked
  <2> QED BY <2>7, <2>8, <2>9
<1> QED BY <1>1, WakeInvariant, PTL

=============================================================================
