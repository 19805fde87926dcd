------------------------- MODULE EcmPipelineProofs -------------------------
(***************************************************************************)
(* Proofs about EcmPipeline, for any number of threads, channels and       *)
(* seconds, any hop limit the configuration accepts and any rate limit.    *)
(*                                                                         *)
(* The properties speak of responses only.  They are inductive together    *)
(* with: the hop stored beside a control word in the cache is still the    *)
(* reader's (OriginInv); a thread has a request while it works and no      *)
(* response until the decision (StageInv); the window of the current       *)
(* second counts at least the ECMs let in during it (WindowInv).           *)
(***************************************************************************)
EXTENDS EcmPipeline, TLAPS

OriginInv ==
    \A ch \in Chan : store[ch] # Absent => store[ch].cw.hop = store[ch].cw.src

StageInv ==
    \A t \in Thread :
        /\ pc[t] # "idle" => req[t] \in Request
        /\ pc[t] = "add" => /\ resp[t] \in Response
                            /\ resp[t].cw.hop = resp[t].cw.src
        /\ pc[t] \in {"idle", "find", "reader"} => resp[t] = Absent

RespInv ==
    \A t \in Thread :
        resp[t] # Absent => /\ resp[t].cw.hop = resp[t].cw.src
                            /\ resp[t].hop = IncrementHop(resp[t].cw.hop)
                            /\ HopAllowed(resp[t].hop, req[t].limit)

WindowInv ==
    EcmLimit > 0 =>
        \A c \in Client :
            /\ accepted[c] <= EcmLimit
            /\ ecm_window_start[c] <= clock
            /\ accepted[c] > 0 => /\ ecm_window_start[c] = clock
                                  /\ accepted[c] <= ecm_window_count[c]

IInv == TypeOK /\ OriginInv /\ StageInv /\ RespInv /\ WindowInv

-----------------------------------------------------------------------------

\* The increment of a hop is a hop (uint8_t arithmetic and the clamp).
LEMMA IncrementIsHop ==
    ASSUME NEW h \in 0..255 PROVE IncrementHop(h) \in 0..255
  BY EcmAssumption DEF IncrementHop

\* The initial states satisfy the inductive invariant.
LEMMA InitHolds == Init => IInv
<1> SUFFICES ASSUME Init PROVE IInv
  OBVIOUS
<1>1. TypeOK
  BY EcmAssumption DEF TypeOK, Init, Cache!SInit
<1>2. OriginInv /\ StageInv /\ RespInv
  BY DEF Init, Cache!SInit, OriginInv, StageInv, RespInv
<1>3. WindowInv
  <2>1. \A c \in Client : accepted[c] = 0 /\ ecm_window_start[c] = 0
    BY DEF Init
  <2>2. clock = 1 /\ EcmLimit \in Nat
    BY EcmAssumption DEF Init, Cache!SInit
  <2>3. ASSUME NEW c \in Client
        PROVE  /\ accepted[c] <= EcmLimit
               /\ ecm_window_start[c] <= clock
               /\ ~(accepted[c] > 0)
    BY <2>1, <2>2
  <2> QED BY <2>3 DEF WindowInv
<1> QED BY <1>1, <1>2, <1>3 DEF IInv

\* What a decision does to the thread that makes it: a response is stored
\* only if its hop is the increment and is allowed.
LEMMA DecideEffect ==
    ASSUME TypeOK, NEW t \in Thread, NEW w \in ControlWord, NEW next,
           w.hop = w.src, Decide(t, w, next)
    PROVE  \/ /\ resp' = [resp EXCEPT ![t] = [cw |-> w,
                                              hop |-> IncrementHop(w.hop)]]
              /\ pc' = [pc EXCEPT ![t] = next]
              /\ HopAllowed(IncrementHop(w.hop), req[t].limit)
              /\ [cw |-> w, hop |-> IncrementHop(w.hop)] \in Response
           \/ resp' = resp /\ pc' = [pc EXCEPT ![t] = "reply"]
<1>1. w.hop \in 0..255
  BY DEF ControlWord
<1>2. [cw |-> w, hop |-> IncrementHop(w.hop)] \in Response
  BY <1>1, IncrementIsHop DEF Response
<1> QED BY <1>2 DEF Decide

\* A decision keeps what is known of requests and responses; next is a place
\* where a response is expected.
LEMMA DecideStep ==
    ASSUME TypeOK, StageInv, RespInv, NEW t \in Thread, NEW w \in ControlWord,
           NEW next \in {"add", "reply"}, w.hop = w.src, Decide(t, w, next),
           req[t] \in Request, resp[t] = Absent, UNCHANGED req
    PROVE  /\ resp' \in [Thread -> Response \cup {Absent}]
           /\ pc' \in [Thread -> {"idle", "find", "reader", "add", "reply"}]
           /\ StageInv' /\ RespInv'
<1> DEFINE r == [cw |-> w, hop |-> IncrementHop(w.hop)]
<1>1. CASE /\ resp' = [resp EXCEPT ![t] = r]
           /\ pc' = [pc EXCEPT ![t] = next]
           /\ HopAllowed(IncrementHop(w.hop), req[t].limit)
           /\ r \in Response
  <2>1. r.cw = w /\ r.hop = IncrementHop(r.cw.hop)
    OBVIOUS
  <2> HIDE DEF r
  <2>2. /\ resp' \in [Thread -> Response \cup {Absent}]
        /\ pc' \in [Thread -> {"idle", "find", "reader", "add", "reply"}]
    BY <1>1 DEF TypeOK
  <2>3. /\ resp'[t] = r /\ pc'[t] = next
        /\ \A u \in Thread : u # t => resp'[u] = resp[u] /\ pc'[u] = pc[u]
    BY <1>1 DEF TypeOK
  <2>4. StageInv'
    BY <1>1, <2>1, <2>3 DEF StageInv
  <2>5. HopAllowed(r.hop, req[t].limit)
    BY <1>1, <2>1
  <2>6. RespInv'
    BY <2>1, <2>3, <2>5 DEF RespInv, HopAllowed
  <2> QED BY <2>2, <2>4, <2>6
<1>2. CASE resp' = resp /\ pc' = [pc EXCEPT ![t] = "reply"]
  <2>1. /\ resp' \in [Thread -> Response \cup {Absent}]
        /\ pc' \in [Thread -> {"idle", "find", "reader", "add", "reply"}]
    BY <1>2 DEF TypeOK
  <2>2. StageInv'
    BY <1>2 DEF TypeOK, StageInv
  <2>3. RespInv'
    BY <1>2 DEF RespInv
  <2> QED BY <2>1, <2>2, <2>3
<1> QED BY <1>1, <1>2, DecideEffect

\* A find answers with the control word the cache holds for the channel, or
\* with a miss, and can only make the cache forget.
LEMMA FindEffect ==
    ASSUME TypeOK, OriginInv, NEW ch \in Chan, Cache!SFind(ch)
    PROVE  /\ store' \in [Chan -> [cw : ControlWord, exp : Nat] \cup {Absent}]
           /\ \A x \in Chan : store'[x] \in {store[x], Absent}
           /\ answer' \in [chan : Chan, cw : ControlWord \cup {Absent}]
           /\ answer'.cw # Absent => /\ answer'.cw \in ControlWord
                                     /\ answer'.cw.hop = answer'.cw.src
           /\ clock' = clock
<1>1. CASE Cache!Known(ch)
  <2>1. /\ store[ch] \in [cw : ControlWord, exp : Nat]
        /\ store[ch].cw \in ControlWord
        /\ store[ch].cw.hop = store[ch].cw.src
    BY <1>1 DEF TypeOK, OriginInv, Cache!Known
  <2> QED BY <2>1 DEF TypeOK, Cache!SFind
<1>2. CASE ~Cache!Known(ch)
  BY <1>2 DEF TypeOK, Cache!SFind, Cache!Known, Cache!Expired
<1> QED BY <1>1, <1>2

\* An addition stores one control word for its channel and forgets at most.
LEMMA AddEffect ==
    ASSUME TypeOK, NEW ch \in Chan, NEW w \in ControlWord, Cache!SAdd(ch, w)
    PROVE  /\ store' \in [Chan -> [cw : ControlWord, exp : Nat] \cup {Absent}]
           /\ \A x \in Chan : \/ store'[x] \in {store[x], Absent}
                              \/ store'[x].cw = w
           /\ UNCHANGED <<answer, clock>>
<1> DEFINE e == [cw |-> w, exp |-> clock + Timeout]
<1>1. e \in [cw : ControlWord, exp : Nat]
  BY EcmAssumption DEF TypeOK
<1>2. PICK s \in Cache!ForgetOne(store) : store' = [s EXCEPT ![ch] = e]
  BY DEF Cache!SAdd
<1>3. /\ s \in [Chan -> [cw : ControlWord, exp : Nat] \cup {Absent}]
      /\ \A x \in Chan : s[x] \in {store[x], Absent}
  BY <1>2 DEF TypeOK, Cache!ForgetOne
<1> QED BY <1>1, <1>2, <1>3 DEF Cache!SAdd

\* A failed addition only forgets.
LEMMA AddFailsEffect ==
    ASSUME TypeOK, NEW ch \in Chan, Cache!SAddFails(ch)
    PROVE  /\ store' \in [Chan -> [cw : ControlWord, exp : Nat] \cup {Absent}]
           /\ \A x \in Chan : store'[x] \in {store[x], Absent}
           /\ UNCHANGED <<answer, clock>>
  BY DEF TypeOK, Cache!SAddFails, Cache!ForgetOne

\* A cleaning only forgets.
LEMMA CleanEffect ==
    ASSUME TypeOK, Cache!SClean
    PROVE  /\ store' \in [Chan -> [cw : ControlWord, exp : Nat] \cup {Absent}]
           /\ \A x \in Chan : store'[x] \in {store[x], Absent}
           /\ UNCHANGED <<answer, clock>>
  BY DEF TypeOK, Cache!SClean

\* Starting a request keeps everything but the window, which the caller
\* accounts for.
LEMMA StartStep ==
    ASSUME IInv, NEW t \in Thread, NEW ch \in Chan,
           NEW lim \in UserHops \cup {0}, pc[t] = "idle",
           StartRequest(t, ch, lim)
    PROVE  /\ req' \in [Thread -> Request \cup {Absent}]
           /\ pc' \in [Thread -> {"idle", "find", "reader", "add", "reply"}]
           /\ StageInv' /\ RespInv'
<1> DEFINE r == [chan |-> ch, limit |-> lim]
<1>1. r \in Request
  BY DEF IInv, TypeOK, Request
<1>2. /\ req' = [req EXCEPT ![t] = r]
      /\ pc' = [pc EXCEPT ![t] = "find"]
      /\ resp' = resp
  BY DEF StartRequest
<1> HIDE DEF r
<1>3. req' \in [Thread -> Request \cup {Absent}]
  BY <1>1, <1>2 DEF IInv, TypeOK
<1>4. pc' \in [Thread -> {"idle", "find", "reader", "add", "reply"}]
  BY <1>2 DEF IInv, TypeOK
<1>5. StageInv'
  BY <1>1, <1>2 DEF IInv, TypeOK, StageInv
<1>6. RespInv'
  <2> SUFFICES ASSUME NEW u \in Thread, resp[u] # Absent
               PROVE  req'[u] = req[u]
    BY <1>2 DEF IInv, RespInv
  <2>1. u # t
    BY DEF IInv, StageInv
  <2> QED BY <2>1, <1>2 DEF IInv, TypeOK
<1> QED BY <1>3, <1>4, <1>5, <1>6

\* Counting an ECM keeps the types of the window.
LEMMA CountType ==
    ASSUME TypeOK, NEW c \in Client, CountEcm(c)
    PROVE  /\ ecm_window_start' \in [Client -> 0..MaxTime]
           /\ ecm_window_count' \in [Client -> 0..MaxWindow]
<1>1. 1 \in 0..MaxWindow /\ clock \in 0..MaxTime
  BY EcmAssumption DEF TypeOK
<1>2. CASE NewWindow(c)
  BY <1>1, <1>2 DEF CountEcm, TypeOK
<1>3. CASE ~NewWindow(c)
  <2>1. ecm_window_count[c] + 1 \in 0..MaxWindow
    BY <1>3, EcmAssumption DEF CountEcm, TypeOK
  <2> QED BY <1>3, <2>1 DEF CountEcm, TypeOK
<1> QED BY <1>2, <1>3

\* Letting an ECM in keeps the window invariant: the count of the window
\* bounds what was let in, and the window of another second starts at one.
LEMMA AdmitStep ==
    ASSUME IInv, NEW c \in Client, Admit(c), clock' = clock
    PROVE  /\ ecm_window_start' \in [Client -> 0..MaxTime]
           /\ ecm_window_count' \in [Client -> 0..MaxWindow]
           /\ accepted' \in [Client -> Nat]
           /\ WindowInv'
<1>1. CASE EcmLimit = 0
  BY <1>1 DEF Admit, windowv, IInv, TypeOK, WindowInv
<1>2. CASE EcmLimit # 0
  <2>1. /\ WithinRate(c)
        /\ CountEcm(c)
        /\ accepted' = [accepted EXCEPT ![c] = @ + 1]
    BY <1>2 DEF Admit
  <2>2. /\ ecm_window_start' \in [Client -> 0..MaxTime]
        /\ ecm_window_count' \in [Client -> 0..MaxWindow]
    BY <2>1, CountType DEF IInv
  <2>3. accepted' \in [Client -> Nat]
    BY <2>1 DEF IInv, TypeOK
  <2>4. EcmLimit \in Nat /\ EcmLimit > 0
    BY <1>2, EcmAssumption
  <2>5. ASSUME NEW d \in Client, d # c
        PROVE  /\ accepted'[d] = accepted[d]
               /\ ecm_window_start'[d] = ecm_window_start[d]
               /\ ecm_window_count'[d] = ecm_window_count[d]
    BY <2>1, <2>5 DEF CountEcm, IInv, TypeOK
  <2>6. /\ accepted[c] \in Nat /\ clock \in Nat
        /\ ecm_window_start[c] \in Nat /\ ecm_window_count[c] \in Nat
        /\ ecm_window_start[c] <= clock
        /\ accepted[c] > 0 => /\ ecm_window_start[c] = clock
                              /\ accepted[c] <= ecm_window_count[c]
        /\ accepted'[c] = accepted[c] + 1
    BY <2>1, <2>4 DEF IInv, TypeOK, WindowInv
  <2>7. /\ accepted'[c] <= EcmLimit
        /\ ecm_window_start'[c] = clock
        /\ accepted'[c] <= ecm_window_count'[c]
    <3>1. CASE NewWindow(c)
      <4>1. /\ ecm_window_start'[c] = clock
            /\ ecm_window_count'[c] = 1
        BY <2>1, <3>1 DEF CountEcm, IInv, TypeOK
      <4>2. accepted[c] = 0
        <5>1. ecm_window_start[c] # clock
          <6>1. clock # 0
            BY DEF IInv, TypeOK
          <6> QED BY <2>6, <3>1, <6>1 DEF NewWindow
        <5> QED BY <2>6, <5>1
      <4> QED BY <2>4, <2>6, <4>1, <4>2
    <3>2. CASE ~NewWindow(c)
      <4>1. /\ ecm_window_start'[c] = ecm_window_start[c]
            /\ ecm_window_count'[c] = ecm_window_count[c] + 1
        BY <2>1, <3>2 DEF CountEcm, IInv, TypeOK
      <4>2. ecm_window_start[c] = clock
        BY <2>6, <3>2 DEF NewWindow
      <4>3. ecm_window_count[c] + 1 <= EcmLimit
        BY <2>1, <3>2 DEF WithinRate
      <4> QED BY <2>4, <2>6, <4>1, <4>2, <4>3
    <3> QED BY <3>1, <3>2
  <2>8. WindowInv'
    <3> SUFFICES ASSUME NEW d \in Client
                 PROVE  (/\ accepted[d] <= EcmLimit
                         /\ ecm_window_start[d] <= clock
                         /\ accepted[d] > 0 =>
                               /\ ecm_window_start[d] = clock
                               /\ accepted[d] <= ecm_window_count[d])'
      BY DEF WindowInv
    <3>1. CASE d = c
      BY <2>6, <2>7, <3>1
    <3>2. CASE d # c
      BY <2>4, <2>5, <3>2 DEF IInv, WindowInv
    <3> QED BY <3>1, <3>2
  <2> QED BY <2>2, <2>3, <2>8
<1> QED BY <1>1, <1>2

\* The inductive step: every action keeps the invariant.
LEMMA StepHolds == IInv /\ [Next]_vars => IInv'
<1> SUFFICES ASSUME IInv, [Next]_vars PROVE IInv'
  OBVIOUS
<1>0. /\ TypeOK /\ OriginInv /\ StageInv /\ RespInv /\ WindowInv
  BY DEF IInv
<1>1. ASSUME NEW c \in Client, NEW ch \in Chan, ReceiveEcm(c, ch)
      PROVE  IInv'
  <2>1. /\ c \in Thread
        /\ hop_count[c] \in UserHops \cup {0}
        /\ pc[c] = "idle"
        /\ Admit(c) /\ StartRequest(c, ch, hop_count[c])
    BY <1>0, <1>1 DEF ReceiveEcm, Admit, Thread, TypeOK
  <2>2. UNCHANGED <<cachev, hop_count, resp>>
    BY <2>1 DEF StartRequest
  <2>3. UNCHANGED <<store, answer, clock, g_cache_enabled>>
    BY <2>2 DEF cachev
  <2>4. StageInv' /\ RespInv'
    BY <2>1, StartStep
  <2>5. WindowInv'
    BY <2>1, <2>3, AdmitStep
  <2>6. TypeOK'
    BY <1>0, <2>1, <2>2, <2>3, AdmitStep, StartStep DEF TypeOK
  <2>7. OriginInv'
    BY <1>0, <2>3 DEF OriginInv
  <2> QED BY <2>4, <2>5, <2>6, <2>7 DEF IInv
<1>2. ASSUME NEW c \in Client, RejectEcm(c)
      PROVE  IInv'
  <2>1. Admit(c) /\ UNCHANGED <<cachev, hop_count, pc, req, resp>>
    BY <1>2 DEF RejectEcm
  <2>2. UNCHANGED <<store, answer, clock, g_cache_enabled>>
    BY <2>1 DEF cachev
  <2>3. WindowInv'
    BY <2>1, <2>2, AdmitStep
  <2>4. TypeOK'
    BY <1>0, <2>1, <2>2, AdmitStep DEF TypeOK
  <2>5. OriginInv' /\ StageInv' /\ RespInv'
    BY <1>0, <2>1, <2>2 DEF OriginInv, StageInv, RespInv
  <2> QED BY <2>3, <2>4, <2>5 DEF IInv
<1>3. ASSUME NEW c \in Client, IgnoreEcm(c)
      PROVE  IInv'
  <2>1. /\ EcmLimit > 0 /\ ~WithinRate(c) /\ CountEcm(c)
        /\ UNCHANGED <<cachev, hop_count, pc, req, resp, accepted>>
    BY <1>3 DEF IgnoreEcm
  <2>2. UNCHANGED <<store, answer, clock, g_cache_enabled>>
    BY <2>1 DEF cachev
  <2>3. /\ ~NewWindow(c)
        /\ ecm_window_count' = [ecm_window_count EXCEPT ![c] = @ + 1]
        /\ ecm_window_start' = ecm_window_start
    BY <2>1 DEF WithinRate, CountEcm
  <2>4. \A d \in Client : /\ ecm_window_count[d] \in Nat
                          /\ accepted[d] \in Nat
                          /\ ecm_window_count'[d] \in Nat
                          /\ ecm_window_count'[d] >= ecm_window_count[d]
    BY <1>0, <2>3 DEF TypeOK
  <2>5. WindowInv'
    BY <1>0, <2>1, <2>2, <2>3, <2>4 DEF WindowInv
  <2>6. TypeOK'
    BY <1>0, <2>1, <2>2, CountType DEF TypeOK
  <2>7. OriginInv' /\ StageInv' /\ RespInv'
    BY <1>0, <2>1, <2>2 DEF OriginInv, StageInv, RespInv
  <2> QED BY <2>5, <2>6, <2>7 DEF IInv
<1>4. ASSUME NEW l \in Local, NEW ch \in Chan, LocalEcm(l, ch)
      PROVE  IInv'
  <2>1. /\ l \in Thread
        /\ 0 \in UserHops \cup {0}
        /\ pc[l] = "idle"
        /\ StartRequest(l, ch, 0)
        /\ UNCHANGED windowv
    BY <1>4 DEF LocalEcm, Thread
  <2>2. /\ UNCHANGED <<store, answer, clock, g_cache_enabled, hop_count, resp>>
        /\ UNCHANGED <<ecm_window_start, ecm_window_count, accepted>>
    BY <2>1 DEF StartRequest, cachev, windowv
  <2>3. StageInv' /\ RespInv'
    BY <2>1, StartStep
  <2>4. TypeOK'
    BY <1>0, <2>1, <2>2, StartStep DEF TypeOK
  <2>5. OriginInv' /\ WindowInv'
    BY <1>0, <2>2 DEF OriginInv, WindowInv
  <2> QED BY <2>3, <2>4, <2>5 DEF IInv
<1>5. ASSUME NEW t \in Thread, CacheFind(t)
      PROVE  IInv'
  <2>1. /\ pc[t] = "find"
        /\ Cache!SFind(req[t].chan)
        /\ UNCHANGED <<g_cache_enabled, hop_count, req>>
        /\ UNCHANGED <<ecm_window_start, ecm_window_count, accepted>>
    BY <1>5 DEF CacheFind, windowv
  <2>2. req[t] \in Request /\ req[t].chan \in Chan /\ resp[t] = Absent
    BY <1>0, <2>1 DEF StageInv, Request
  <2>3. /\ store' \in [Chan -> [cw : ControlWord, exp : Nat] \cup {Absent}]
        /\ \A x \in Chan : store'[x] \in {store[x], Absent}
        /\ answer' \in [chan : Chan, cw : ControlWord \cup {Absent}]
        /\ answer'.cw # Absent => /\ answer'.cw \in ControlWord
                                  /\ answer'.cw.hop = answer'.cw.src
        /\ clock' = clock
    BY <1>0, <2>1, <2>2, FindEffect
  <2>4. OriginInv'
    BY <1>0, <2>3 DEF OriginInv
  <2>5. WindowInv'
    BY <1>0, <2>1, <2>3 DEF WindowInv
  <2>6. /\ resp' \in [Thread -> Response \cup {Absent}]
        /\ pc' \in [Thread -> {"idle", "find", "reader", "add", "reply"}]
        /\ StageInv' /\ RespInv'
    <3>1. CASE answer'.cw = Absent
      <4>1. pc' = [pc EXCEPT ![t] = "reader"] /\ resp' = resp
        BY <1>5, <3>1 DEF CacheFind
      <4> QED BY <1>0, <2>1, <2>2, <4>1 DEF TypeOK, StageInv, RespInv
    <3>2. CASE answer'.cw # Absent
      <4> DEFINE w == answer'.cw
      <4>1. w \in ControlWord /\ w.hop = w.src
        BY <2>3, <3>2
      <4>2. Decide(t, w, "reply")
        BY <1>5, <3>2 DEF CacheFind
      <4> HIDE DEF w
      <4> QED BY <1>0, <2>1, <2>2, <4>1, <4>2, DecideStep
    <3> QED BY <3>1, <3>2
  <2>7. TypeOK'
    BY <1>0, <2>1, <2>3, <2>6 DEF TypeOK
  <2> QED BY <2>4, <2>5, <2>6, <2>7 DEF IInv
<1>6. ASSUME NEW t \in Thread, NEW h \in SourceHop, ReaderAnswers(t, h)
      PROVE  IInv'
  <2> DEFINE w == [src |-> h, hop |-> h]
  <2>1. /\ pc[t] = "reader"
        /\ Decide(t, w, "add")
        /\ UNCHANGED <<store, answer, clock, g_cache_enabled, hop_count, req>>
        /\ UNCHANGED <<ecm_window_start, ecm_window_count, accepted>>
    BY <1>6 DEF ReaderAnswers, cachev, windowv
  <2>2. req[t] \in Request /\ resp[t] = Absent
    BY <1>0, <2>1 DEF StageInv
  <2>3. w \in ControlWord /\ w.hop = w.src
    BY <2>2, EcmAssumption DEF Request, ControlWord
  <2> HIDE DEF w
  <2>4. /\ resp' \in [Thread -> Response \cup {Absent}]
        /\ pc' \in [Thread -> {"idle", "find", "reader", "add", "reply"}]
        /\ StageInv' /\ RespInv'
    BY <1>0, <2>1, <2>2, <2>3, DecideStep
  <2>5. OriginInv' /\ WindowInv'
    BY <1>0, <2>1 DEF OriginInv, WindowInv
  <2>6. TypeOK'
    BY <1>0, <2>1, <2>4 DEF TypeOK
  <2> QED BY <2>4, <2>5, <2>6 DEF IInv
<1>7. ASSUME NEW t \in Thread, ReaderFails(t)
      PROVE  IInv'
  <2>1. /\ pc[t] = "reader"
        /\ pc' = [pc EXCEPT ![t] = "reply"]
        /\ UNCHANGED <<store, answer, clock, g_cache_enabled, hop_count, req,
                       resp, ecm_window_start, ecm_window_count, accepted>>
    BY <1>7 DEF ReaderFails, cachev, windowv
  <2>2. TypeOK'
    BY <1>0, <2>1 DEF TypeOK
  <2>3. StageInv'
    BY <1>0, <2>1 DEF TypeOK, StageInv
  <2>4. OriginInv' /\ RespInv' /\ WindowInv'
    BY <1>0, <2>1 DEF OriginInv, RespInv, WindowInv
  <2> QED BY <2>2, <2>3, <2>4 DEF IInv
<1>8. ASSUME NEW t \in Thread, CacheAdd(t)
      PROVE  IInv'
  <2>1. /\ pc[t] = "add"
        /\ pc' = [pc EXCEPT ![t] = "reply"]
        /\ UNCHANGED <<g_cache_enabled, hop_count, req, resp,
                       ecm_window_start, ecm_window_count, accepted>>
    BY <1>8 DEF CacheAdd, windowv
  <2>2. req[t] \in Request /\ req[t].chan \in Chan
    BY <1>0, <2>1 DEF StageInv, Request
  <2>3. PICK w \in ControlWord : w = Cached(resp[t]) /\ w.hop = w.src
    BY <1>0, <2>1 DEF StageInv, Cached, Response
  <2>4. /\ store' \in [Chan -> [cw : ControlWord, exp : Nat] \cup {Absent}]
        /\ \A x \in Chan : \/ store'[x] \in {store[x], Absent}
                           \/ store'[x].cw = w
        /\ UNCHANGED <<answer, clock>>
    <3>1. CASE Cache!SAdd(req[t].chan, w)
      BY <1>0, <2>2, <3>1, AddEffect
    <3>2. CASE Cache!SAddFails(req[t].chan)
      BY <1>0, <2>2, <3>2, AddFailsEffect
    <3>3. CASE UNCHANGED <<store, answer, clock>>
      BY <1>0, <3>3 DEF TypeOK
    <3> QED BY <1>8, <2>3, <3>1, <3>2, <3>3 DEF CacheAdd
  <2>5. OriginInv'
    BY <1>0, <2>3, <2>4 DEF OriginInv
  <2>6. StageInv'
    BY <1>0, <2>1 DEF TypeOK, StageInv
  <2>7. RespInv' /\ WindowInv'
    BY <1>0, <2>1, <2>4 DEF RespInv, WindowInv
  <2>8. TypeOK'
    BY <1>0, <2>1, <2>4 DEF TypeOK
  <2> QED BY <2>5, <2>6, <2>7, <2>8 DEF IInv
<1>9. ASSUME NEW t \in Thread, Reply(t)
      PROVE  IInv'
  <2>1. /\ pc' = [pc EXCEPT ![t] = "idle"]
        /\ req' = [req EXCEPT ![t] = Absent]
        /\ resp' = [resp EXCEPT ![t] = Absent]
        /\ UNCHANGED <<store, answer, clock, g_cache_enabled, hop_count,
                       ecm_window_start, ecm_window_count, accepted>>
    BY <1>9 DEF Reply, cachev, windowv
  <2>2. TypeOK'
    BY <1>0, <2>1 DEF TypeOK
  <2>3. StageInv' /\ RespInv'
    BY <1>0, <2>1 DEF TypeOK, StageInv, RespInv
  <2>4. OriginInv' /\ WindowInv'
    BY <1>0, <2>1 DEF OriginInv, WindowInv
  <2> QED BY <2>2, <2>3, <2>4 DEF IInv
<1>10. CASE Clean
  <2>1. /\ Cache!SClean
        /\ UNCHANGED <<g_cache_enabled, hop_count, pc, req, resp,
                       ecm_window_start, ecm_window_count, accepted>>
    BY <1>10 DEF Clean, windowv
  <2>2. /\ store' \in [Chan -> [cw : ControlWord, exp : Nat] \cup {Absent}]
        /\ \A x \in Chan : store'[x] \in {store[x], Absent}
        /\ UNCHANGED <<answer, clock>>
    BY <1>0, <2>1, CleanEffect
  <2>3. OriginInv'
    BY <1>0, <2>2 DEF OriginInv
  <2>4. StageInv' /\ RespInv' /\ WindowInv'
    BY <1>0, <2>1, <2>2 DEF StageInv, RespInv, WindowInv
  <2>5. TypeOK'
    BY <1>0, <2>1, <2>2 DEF TypeOK
  <2> QED BY <2>3, <2>4, <2>5 DEF IInv
<1>11. CASE Tick
  <2>1. /\ clock < MaxTime
        /\ clock' = clock + 1
        /\ accepted' = [c \in Client |-> 0]
        /\ UNCHANGED <<store, answer, g_cache_enabled, hop_count, pc, req,
                       resp, ecm_window_start, ecm_window_count>>
    BY <1>11 DEF Tick, Cache!STick
  <2>2. TypeOK'
    <3>1. clock' \in 1..MaxTime
      BY <1>0, <2>1, EcmAssumption DEF TypeOK
    <3>2. accepted' \in [Client -> Nat]
      BY <2>1
    <3> QED BY <1>0, <2>1, <3>1, <3>2 DEF TypeOK
  <2>3. OriginInv' /\ StageInv' /\ RespInv'
    BY <1>0, <2>1 DEF OriginInv, StageInv, RespInv
  <2>4. WindowInv'
    <3>1. \A c \in Client : /\ accepted'[c] = 0
                            /\ ecm_window_start[c] \in Nat
                            /\ EcmLimit > 0 => ecm_window_start[c] <= clock
      BY <1>0, <2>1 DEF TypeOK, WindowInv
    <3>2. clock \in Nat /\ EcmLimit \in Nat
      BY <1>0, EcmAssumption DEF TypeOK
    <3> QED BY <2>1, <3>1, <3>2 DEF WindowInv
  <2> QED BY <2>2, <2>3, <2>4 DEF IInv
<1>12. CASE UNCHANGED vars
  <2>1. UNCHANGED <<store, answer, clock, g_cache_enabled, hop_count,
                    ecm_window_start, ecm_window_count, pc, req, resp,
                    accepted>>
    BY <1>12 DEF vars
  <2>2. TypeOK'
    BY <1>0, <2>1 DEF TypeOK
  <2>3. OriginInv' /\ StageInv' /\ RespInv' /\ WindowInv'
    BY <1>0, <2>1 DEF OriginInv, StageInv, RespInv, WindowInv
  <2> QED BY <2>2, <2>3 DEF IInv
<1> QED
  BY <1>1, <1>2, <1>3, <1>4, <1>5, <1>6, <1>7, <1>8, <1>9, <1>10, <1>11,
     <1>12 DEF Next

\* The invariant holds in every reachable state.
THEOREM Inductive == Spec => []IInv
  BY InitHolds, StepHolds, PTL DEF Spec

\* Requests, responses and the windows of the rate limit are well typed.
THEOREM TypeCorrect == Spec => []TypeOK
<1>1. IInv => TypeOK
  BY DEF IInv
<1> QED BY <1>1, Inductive, PTL

\* Every response carries the increment of the hop its control word had at
\* the reader, through any number of passages through the cache.
THEOREM ServedHopOfOrigin == Spec => []HopFromOrigin
<1>1. IInv => HopFromOrigin
  BY DEF IInv, RespInv, HopFromOrigin
<1> QED BY <1>1, Inductive, PTL

\* No response exceeds g_max_hops or the limit of the user who asked.
THEOREM LimitsRespected == Spec => []ServedWithinLimits
<1>1. IInv => ServedWithinLimits
  BY DEF IInv, RespInv, HopAllowed, ServedWithinLimits
<1> QED BY <1>1, Inductive, PTL

\* No client gets more than max_ecm_per_sec ECMs processed in a second.
THEOREM RateRespected == Spec => []RateLimited
<1>1. IInv => RateLimited
  BY DEF IInv, WindowInv, RateLimited
<1> QED BY <1>1, Inductive, PTL

-----------------------------------------------------------------------------
(* The cache behind the pipeline. *)

\* What the threads do to the cache is one operation of its specification, on
\* a channel and a control word of the right kind, or nothing.
LEMMA StoreStep == IInv /\ [Next]_vars => [Cache!SNext]_(Cache!svars)
<1> SUFFICES ASSUME IInv, [Next]_vars, ~UNCHANGED <<store, answer, clock>>
             PROVE  Cache!SNext
  BY DEF Cache!svars
<1>2. Clean \/ Tick \/ \E t \in Thread : CacheFind(t) \/ CacheAdd(t)
  <2>1. ~UNCHANGED cachev
    BY DEF cachev
  <2>2. /\ \A c \in Client, ch \in Chan : ~ReceiveEcm(c, ch)
        /\ \A c \in Client : ~RejectEcm(c) /\ ~IgnoreEcm(c)
        /\ \A l \in Local, ch \in Chan : ~LocalEcm(l, ch)
        /\ \A t \in Thread : /\ \A h \in SourceHop : ~ReaderAnswers(t, h)
                             /\ ~ReaderFails(t) /\ ~Reply(t)
    BY <2>1 DEF ReceiveEcm, RejectEcm, IgnoreEcm, LocalEcm, StartRequest,
                ReaderAnswers, ReaderFails, Reply
  <2>3. ~UNCHANGED vars
    BY DEF vars
  <2>4. QED BY <2>2, <2>3 DEF Next
<1>3. CASE Clean
  BY <1>3 DEF Clean, Cache!SNext
<1>4. CASE Tick
  BY <1>4 DEF Tick, Cache!SNext
<1>5. ASSUME NEW t \in Thread, CacheFind(t)
      PROVE  Cache!SNext
  <2>1. req[t].chan \in Chan /\ Cache!SFind(req[t].chan)
    BY <1>5 DEF CacheFind, IInv, StageInv, Request
  <2>2. QED BY <2>1 DEF Cache!SNext
<1>6. ASSUME NEW t \in Thread, CacheAdd(t)
      PROVE  Cache!SNext
  <2>1. req[t].chan \in Chan /\ Cached(resp[t]) \in ControlWord
    BY <1>6 DEF CacheAdd, IInv, StageInv, Request, Response, Cached
  <2>2. \/ Cache!SAdd(req[t].chan, Cached(resp[t]))
        \/ Cache!SAddFails(req[t].chan)
    BY <1>6 DEF CacheAdd
  <2>3. QED BY <2>1, <2>2 DEF Cache!SNext
<1>7. QED BY <1>2, <1>3, <1>4, <1>5, <1>6

\* The threads use the cache as CwStore specifies it, which is what CwCache is
\* proved to implement.
THEOREM PipelineUsesStore == Spec => Cache!SSpec
<1>1. Init => Cache!SInit
  BY DEF Init
<1>2. QED BY <1>1, StoreStep, Inductive, PTL DEF Spec, Cache!SSpec

\* The instant an entry was stored at is not to come.
StoredBefore ==
    \A ch \in Chan : store[ch] # Absent => store[ch].exp - Timeout \in 1..clock

\* cccam_ecm.c:130: the key of the cache does not tell one ECM of a channel
\* from the next.  A control word from the cache was stored g_cache_timeout
\* seconds before at most, under the channel it is asked for.
FromCacheIsFresh ==
    \A t \in Thread :
        CacheFind(t) /\ answer'.cw # Absent
            => /\ store[req[t].chan] # Absent
               /\ answer'.cw = store[req[t].chan].cw
               /\ store[req[t].chan].exp - Timeout \in (clock - Timeout)..clock

LEMMA StoredBeforeKept ==
    IInv /\ StoredBefore /\ [Next]_vars => StoredBefore'
<1> SUFFICES ASSUME IInv, StoredBefore, [Next]_vars, NEW x \in Chan, store'[x] # Absent
             PROVE  store'[x].exp - Timeout \in 1..clock'
  BY DEF StoredBefore
<1>1. clock \in Nat \ {0} /\ Timeout \in Nat /\ DOMAIN store = Chan
      /\ (store[x] # Absent => store[x].exp \in Nat)
  BY EcmAssumption DEF IInv, TypeOK
<1>2. ASSUME store[x] # Absent, store'[x] = store[x], clock' \in {clock, clock + 1}
      PROVE  store'[x].exp - Timeout \in 1..clock'
  BY <1>1, <1>2 DEF StoredBefore
<1>3. CASE UNCHANGED Cache!svars
  BY <1>2, <1>3 DEF Cache!svars
<1>4. ASSUME NEW ch \in Chan, NEW w \in ControlWord, Cache!SAdd(ch, w)
      PROVE  store'[x].exp - Timeout \in 1..clock'
  <2> DEFINE e == [cw |-> w, exp |-> clock + Timeout]
  <2>1. PICK s \in Cache!ForgetOne(store) : store' = [s EXCEPT ![ch] = e]
    BY <1>4 DEF Cache!SAdd
  <2>2. DOMAIN s = Chan /\ s[x] \in {store[x], Absent}
    BY <1>1, <2>1 DEF Cache!ForgetOne
  <2>3. clock' = clock /\ e.exp = clock + Timeout
    BY <1>4 DEF Cache!SAdd
  <2> HIDE DEF e
  <2>4. CASE x = ch
    <3>1. store'[x] = e
      BY <2>1, <2>2, <2>4
    <3>2. QED BY <1>1, <2>3, <3>1
  <2>5. CASE x # ch
    <3>1. store'[x] = s[x]
      BY <2>1, <2>2, <2>5
    <3>2. QED BY <1>2, <2>2, <2>3, <3>1
  <2>6. QED BY <2>4, <2>5
<1>5. ASSUME NEW ch \in Chan, Cache!SAddFails(ch) \/ Cache!SFind(ch) \/ Cache!SRemove(ch)
      PROVE  store'[x].exp - Timeout \in 1..clock'
  <2>1. clock' = clock /\ store'[x] \in {store[x], Absent}
    BY <1>1, <1>5 DEF Cache!SAddFails, Cache!SFind, Cache!SRemove, Cache!ForgetOne
  <2>2. QED BY <1>2, <2>1
<1>6. CASE Cache!SClean \/ Cache!STick
  <2>1. clock' \in {clock, clock + 1} /\ store'[x] \in {store[x], Absent}
    BY <1>6 DEF Cache!SClean, Cache!STick
  <2>2. QED BY <1>2, <2>1
<1>7. QED BY <1>3, <1>4, <1>5, <1>6, StoreStep DEF Cache!SNext

LEMMA FreshStep == IInv /\ StoredBefore /\ [Next]_vars => FromCacheIsFresh
<1> SUFFICES ASSUME IInv, StoredBefore, NEW t \in Thread, CacheFind(t), answer'.cw # Absent
             PROVE  /\ store[req[t].chan] # Absent
                    /\ answer'.cw = store[req[t].chan].cw
                    /\ store[req[t].chan].exp - Timeout \in (clock - Timeout)..clock
  BY DEF FromCacheIsFresh
<1> DEFINE ch == req[t].chan
           e == store[ch]
<1>1. ch \in Chan /\ Cache!SFind(ch)
  BY DEF CacheFind, IInv, StageInv, Request
<1>2. e # Absent /\ answer'.cw = e.cw /\ ~(clock > e.exp)
  BY <1>1 DEF Cache!SFind, Cache!Known, Cache!Expired
<1>3. e.exp \in Nat /\ clock \in Nat /\ Timeout \in Nat
  BY <1>1, <1>2, EcmAssumption DEF IInv, TypeOK
<1>4. e.exp - Timeout \in 1..clock
  BY <1>1, <1>2 DEF StoredBefore
<1> HIDE DEF e
<1>5. e.exp - Timeout \in (clock - Timeout)..clock
  BY <1>2, <1>3, <1>4
<1>6. QED BY <1>2, <1>5 DEF e

\* cccam_ecm.c:130: however add, find and cleaning interleave, a word found in
\* the cache belongs to the channel asked for and is g_cache_timeout old at most.
THEOREM CachedWordsAreFresh == Spec => [][FromCacheIsFresh]_vars
<1>1. Init => StoredBefore
  BY DEF Init, Cache!SInit, StoredBefore
<1>2. QED BY <1>1, Inductive, StoredBeforeKept, FreshStep, PTL DEF Spec
=============================================================================
