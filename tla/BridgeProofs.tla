---------------------------- MODULE BridgeProofs ----------------------------
(***************************************************************************)
(* Proofs about Bridge for every set of frames, hosts, workers and tokens, *)
(* every address book, and any bounds on frames and faults.                *)
(***************************************************************************)
EXTENDS Bridge, FiniteSetTheorems, WellFoundedInduction, TLAPS

---------------------------------------------------------------------------
(* The inductive invariant, in parts.                                      *)

InputOK == input \in Seq(Frames) /\ Len(input) <= MaxFrames

LoopOK ==
    /\ next \in 0 .. Len(input)
    /\ pc \in {"reading", "calling", "stopped"}
    /\ wire \in {"none", "sent", "executed"}
    /\ gone \in BOOLEAN
    /\ faults \in 0 .. MaxFaults

Answers == [frame: 1 .. MaxFrames, kind: Kinds]

Effects == [frame: 1 .. MaxFrames, worker: Workers]

(* The frame the loop is busy with is a call whose host resolves.          *)
CallInv ==
    /\ pc = "calling" <=> wire # "none"
    /\ pc = "calling" =>
          /\ next > 0
          /\ input[next].json /\ input[next].id
          /\ input[next].method = "tools/call"
          /\ Resolves(input[next].host)

(* The answers: to earlier frames, or to this one once it is done with; in *)
(* order, none missing, none to a frame that wants none.                   *)
Answered == IF pc = "calling" THEN next - 1 ELSE next

OrderInv ==
    /\ out \in Seq(Answers)
    /\ \A j \in DOMAIN out :
          out[j].frame <= Answered /\ WantsAnswer(input[out[j].frame])
    /\ \A j, k \in DOMAIN out : j < k => out[j].frame < out[k].frame
    /\ pc # "stopped" =>
          \A i \in 1 .. Answered :
              WantsAnswer(input[i]) => \E j \in DOMAIN out : out[j].frame = i

(* The effects: of calls that were taken, at most one each, and of the one *)
(* in hand only when its worker has run it.                                *)
EffectInv ==
    /\ effects \in Seq(Effects)
    /\ \A j \in DOMAIN effects :
          /\ effects[j].frame <= next
          /\ effects[j].frame = next /\ pc = "calling" => wire = "executed"
          /\ input[effects[j].frame].json /\ input[effects[j].frame].id
          /\ effects[j].worker = Resolve(input[effects[j].frame].host)
    /\ \A j, k \in DOMAIN effects :
          effects[j].frame = effects[k].frame => j = k
    /\ wire = "executed" => \E j \in DOMAIN effects : effects[j].frame = next

(* What the answers say of the effects.                                    *)
TruthInv ==
    \A j \in DOMAIN out :
        /\ out[j].kind = "result"
              /\ input[out[j].frame].method = "tools/call" =>
                 \E k \in DOMAIN effects : effects[k].frame = out[j].frame
        /\ out[j].kind \notin {"result", "no answer"} =>
              \A k \in DOMAIN effects : effects[k].frame # out[j].frame

BridgeInv == InputOK /\ LoopOK /\ CallInv /\ OrderInv /\ EffectInv /\ TruthInv

---------------------------------------------------------------------------
(* Lemmas about lines, frames and sequences.                               *)

(* A nonempty set of line numbers has a greatest one.                      *)
LEMMA GreatestLine ==
    ASSUME NEW n \in Nat, NEW S \in SUBSET (1 .. n), S # {}
    PROVE  Max(S) \in S
  <1> DEFINE T == {n - i : i \in S}
  <1>1. T \subseteq Nat /\ T # {}
    <2>1. PICK a \in S : TRUE
      OBVIOUS
    <2>2. n - a \in T
      OBVIOUS
    <2>3. \A b \in 1 .. n : n - b \in Nat
      OBVIOUS
    <2> QED
      BY <2>2, <2>3
  <1>2. PICK t \in T : \A u \in T : ~(<<u, t>> \in OpToRel(<, Nat))
    BY <1>1, NatLessThanWellFounded, WFMin, Zenon
  <1>3. \A u \in T : ~(u < t)
    BY <1>1, <1>2 DEF OpToRel
  <1>4. PICK x \in S : t = n - x
    OBVIOUS
  <1>5. \A y \in S : x >= y
    <2> SUFFICES ASSUME NEW y \in S PROVE x >= y
      OBVIOUS
    <2>1. n - y \in T
      OBVIOUS
    <2> QED
      BY <1>3, <1>4, <2>1
  <1> QED
    BY <1>5 DEF Max

(* The indices of a sequence that has grown by one.                        *)
LEMMA OneMore ==
    ASSUME NEW n \in Nat, NEW j \in 1 .. (n + 1)
    PROVE  j \in 1 .. n \/ j = n + 1
  OBVIOUS

(* What is assumed of the constants.                                       *)
LEMMA Constants ==
    /\ MaxFrames \in Nat /\ MaxFaults \in Nat
    /\ HostsFile \in Lines(Workers)
    /\ Frames \subseteq FrameTypes
  BY BridgeAssumption

(* The elements of a sequence.                                             *)
LEMMA Elements ==
    ASSUME NEW T, NEW s \in Seq(T)
    PROVE  /\ Len(s) \in Nat /\ DOMAIN s = 1 .. Len(s)
           /\ \A i \in DOMAIN s : s[i] \in T
  OBVIOUS

(* A host that resolves leads to a worker.                                 *)
LEMMA ResolvedIsWorker ==
    ASSUME NEW h, Resolves(h)
    PROVE  Resolve(h) \in Workers
  <1>1. CASE LinesOf(HostsFile, h) = {}
    BY <1>1 DEF Resolves, Resolve
  <1>2. CASE LinesOf(HostsFile, h) # {}
    <2>1. HostsFile \in Seq([name: Hosts, value: Workers])
      BY Constants DEF Lines
    <2>2. /\ Len(HostsFile) \in Nat /\ DOMAIN HostsFile = 1 .. Len(HostsFile)
          /\ \A i \in DOMAIN HostsFile :
                HostsFile[i] \in [name: Hosts, value: Workers]
      BY <2>1, Elements, Zenon
    <2>3. LinesOf(HostsFile, h) \in SUBSET (1 .. Len(HostsFile))
      BY <2>2 DEF LinesOf
    <2>4. Max(LinesOf(HostsFile, h)) \in LinesOf(HostsFile, h)
      BY <1>2, <2>2, <2>3, GreatestLine
    <2>5. Max(LinesOf(HostsFile, h)) \in DOMAIN HostsFile
      BY <2>2, <2>3, <2>4
    <2>6. Value(HostsFile, h) \in Workers
      BY <2>2, <2>5 DEF Value
    <2> QED
      BY <1>2, <2>6 DEF Resolve
  <1> QED
    BY <1>1, <1>2

(* One more element at the end of a sequence.                              *)
LEMMA Appended ==
    ASSUME NEW T, NEW s \in Seq(T), NEW e \in T
    PROVE  /\ Append(s, e) \in Seq(T) /\ Len(s) \in Nat
           /\ DOMAIN s = 1 .. Len(s)
           /\ DOMAIN Append(s, e) = 1 .. (Len(s) + 1)
           /\ Len(Append(s, e)) = Len(s) + 1
           /\ Append(s, e)[Len(s) + 1] = e
           /\ \A i \in DOMAIN s : Append(s, e)[i] = s[i] /\ s[i] \in T
  OBVIOUS

(* The loop answers a frame by itself, ...                                 *)
LEMMA AnsweredLocally ==
    ASSUME ParseError \/ Local
    PROVE  /\ pc = "reading" /\ next < Len(input) /\ next' = next + 1
           /\ UNCHANGED <<input, wire, effects, gone, faults>>
           /\ WantsAnswer(input[next + 1])
           /\ pc' \in {"reading", "stopped"}
           /\ \E k \in Kinds :
                 /\ Answer(next + 1, k)
                 /\ k = "result" => input[next + 1].method # "tools/call"
  <1> USE DEF Kinds, WantsAnswer, Reads, Take
  <1>0. \A i, k : Answer(i, k) => pc' \in {"reading", "stopped"}
    BY DEF Answer
  <1>1. CASE ParseError
    BY <1>0, <1>1 DEF ParseError
  <1>2. CASE Local
    BY <1>0, <1>2 DEF Local
  <1> QED
    BY <1>1, <1>2

(* ... or once a call has come to an end.                                  *)
LEMMA AnsweredCall ==
    ASSUME Refused \/ Returned \/ Lost
    PROVE  /\ wire # "none" /\ wire' = "none"
           /\ UNCHANGED <<input, next, effects, gone>>
           /\ UNCHANGED faults \/ (faults < MaxFaults /\ faults' = faults + 1)
           /\ pc' \in {"reading", "stopped"}
           /\ \E k \in Kinds :
                 /\ Answer(next, k)
                 /\ k = "result" => wire = "executed"
                 /\ k \notin {"result", "no answer"} => wire = "sent"
  <1>1. \A i, k : Answer(i, k) => pc' \in {"reading", "stopped"}
    BY DEF Answer
  <1>2. CASE Refused
    <2>1. /\ wire = "sent" /\ wire' = "none" /\ Answer(next, "unauthorized")
          /\ UNCHANGED <<input, next, effects, gone>> /\ UNCHANGED faults
      BY <1>2 DEF Refused
    <2>2. wire # "none" /\ "unauthorized" \in Kinds \ {"result", "no answer"}
      BY <2>1 DEF Kinds
    <2> QED
      BY <1>1, <2>1, <2>2, Zenon
  <1>3. CASE Returned
    <2>1. /\ wire = "executed" /\ wire' = "none" /\ Answer(next, "result")
          /\ UNCHANGED <<input, next, effects, gone>> /\ UNCHANGED faults
      BY <1>3 DEF Returned
    <2>2. wire # "none" /\ "result" \in Kinds
      BY <2>1 DEF Kinds
    <2> QED
      BY <1>1, <2>1, <2>2, Zenon
  <1>4. CASE Lost
    <2>1. PICK k \in {"no connection", "no answer"} :
             Answer(next, k) /\ (wire = "sent" <=> k = "no connection")
      BY <1>4 DEF Lost
    <2>2. /\ wire # "none" /\ wire' = "none" /\ faults < MaxFaults
          /\ faults' = faults + 1 /\ UNCHANGED <<input, next, effects, gone>>
      BY <1>4, Zenon DEF Lost
    <2>3. /\ k \in Kinds /\ k # "result"
          /\ k # "no answer" => wire = "sent"
      BY <2>1 DEF Kinds
    <2> QED
      BY <1>1, <2>1, <2>2, <2>3, Zenon
  <1> QED
    BY <1>2, <1>3, <1>4

(* What an answer does to the answers.                                     *)
LEMMA AnswerCases ==
    ASSUME InputOK, out \in Seq(Answers), NEW i \in 1 .. Len(input),
           NEW k \in Kinds, Answer(i, k)
    PROVE  \/ out' = out /\ pc' = "stopped"
           \/ /\ pc' = "reading" /\ out' \in Seq(Answers)
              /\ DOMAIN out = 1 .. Len(out) /\ Len(out) \in Nat
              /\ DOMAIN out' = 1 .. (Len(out) + 1)
              /\ out'[Len(out) + 1].frame = i
              /\ out'[Len(out) + 1].kind = k
              /\ \A j \in DOMAIN out : out'[j] = out[j]
  <1>1. [frame |-> i, kind |-> k] \in Answers
    BY Constants DEF InputOK, Answers
  <1>2. CASE out' = Append(out, [frame |-> i, kind |-> k]) /\ pc' = "reading"
    BY <1>1, <1>2, Appended
  <1> QED
    BY <1>2, Zenon DEF Answer

(* The frames that were sent stay as they are.                             *)
LEMMA FramesStay ==
    ASSUME InputOK, [Next]_vars
    PROVE  /\ Len(input) \in Nat /\ Len(input') \in Nat
           /\ Len(input) <= Len(input')
           /\ \A i \in 1 .. Len(input) : input'[i] = input[i]
  <1> USE DEF InputOK, Reads, Take
  <1>1. CASE Send
    <2>1. PICK f \in Frames : input' = Append(input, f)
      BY <1>1 DEF Send
    <2> QED
      BY <2>1, Appended
  <1>2. CASE UNCHANGED input
    BY <1>2
  <1>3. CASE HangUp \/ Loop
    BY <1>3, <1>2 DEF HangUp, Loop, Stop, ParseError, Skip, Local, Call
  <1>4. CASE Remote \/ Lost
    BY <1>4, <1>2 DEF Remote, Refused, Execute, Returned, Lost
  <1> QED
    BY <1>1, <1>2, <1>3, <1>4 DEF Next, vars

(* The frames that were answered are numbers of frames that were sent.     *)
LEMMA AnsweredFrames ==
    ASSUME InputOK, LoopOK, OrderInv
    PROVE  /\ Len(input) \in Nat /\ Answered \in Int
           /\ Answered <= next /\ next <= Len(input) /\ next \in Nat
           /\ Len(out) \in Nat /\ DOMAIN out = 1 .. Len(out)
           /\ \A j \in DOMAIN out :
                 /\ out[j].frame \in 1 .. Len(input)
                 /\ out[j].frame <= Answered
                 /\ WantsAnswer(input[out[j].frame])
  <1>1. out \in Seq(Answers)
    BY Zenon DEF OrderInv
  <1>2. /\ Len(out) \in Nat /\ DOMAIN out = 1 .. Len(out)
        /\ \A j \in DOMAIN out : out[j] \in Answers
    BY <1>1, Elements, Zenon
  <1>3. \A j \in DOMAIN out : out[j].frame \in Nat /\ out[j].frame > 0
    BY <1>2, Constants DEF Answers
  <1>4. \A j \in DOMAIN out :
           out[j].frame <= Answered /\ WantsAnswer(input[out[j].frame])
    BY Zenon DEF OrderInv
  <1>5. /\ Len(input) \in Nat /\ next \in Nat /\ next <= Len(input)
        /\ Answered \in Int /\ Answered <= next
    BY DEF InputOK, LoopOK, Answered
  <1> QED
    BY <1>2, <1>3, <1>4, <1>5

(* An answer to the next frame in order keeps the order.                   *)
LEMMA AnswerKeepsOrder ==
    ASSUME InputOK, LoopOK, OrderInv, NEW i \in 1 .. Len(input),
           NEW k \in Kinds, Answer(i, k), WantsAnswer(input[i]),
           pc # "stopped", Answered = i - 1, input' = input, next' = i
    PROVE  OrderInv'
  <1>1. pc' # "calling" /\ Answered' = i
    BY DEF Answer, Answered
  <1>2. Len(input) \in Nat
    BY DEF InputOK
  <1>5. \A m \in 1 .. Answered : WantsAnswer(input[m]) =>
           \E j \in DOMAIN out : out[j].frame = m
    BY Zenon DEF OrderInv
  <1>3. CASE out' = out /\ pc' = "stopped"
    BY <1>1, <1>2, <1>3, AnsweredFrames DEF OrderInv
  <1>4. CASE out' # out \/ pc' # "stopped"
    <2>1. /\ pc' = "reading" /\ out' \in Seq(Answers)
          /\ DOMAIN out = 1 .. Len(out) /\ Len(out) \in Nat
          /\ DOMAIN out' = 1 .. (Len(out) + 1)
          /\ out'[Len(out) + 1].frame = i
          /\ \A j \in DOMAIN out : out'[j] = out[j]
      BY <1>4, AnswerCases DEF OrderInv
    <2>2. \A j \in DOMAIN out : out[j].frame \in Nat /\ out[j].frame < i
      BY AnsweredFrames
    <2>3. \A j \in DOMAIN out' :
             out'[j].frame <= i /\ WantsAnswer(input[out'[j].frame])
      BY <2>1, <2>2 DEF OrderInv
    <2>4. \A j, l \in DOMAIN out' : j < l => out'[j].frame < out'[l].frame
      BY <2>1, <2>2 DEF OrderInv
    <2>5. \A m \in 1 .. i : WantsAnswer(input[m]) =>
             \E j \in DOMAIN out' : out'[j].frame = m
      <3>1. \A m \in 1 .. (i - 1) : WantsAnswer(input[m]) =>
               \E j \in DOMAIN out : out[j].frame = m
        BY <1>5, Zenon DEF OrderInv
      <3> QED
        BY <2>1, <3>1
    <2> QED
      BY <1>1, <2>1, <2>3, <2>4, <2>5 DEF OrderInv
  <1> QED
    BY <1>3, <1>4

(* Without an answer the order stays, unless a frame is passed over.       *)
LEMMA OrderKept ==
    ASSUME InputOK, LoopOK, OrderInv, [Next]_vars,
           UNCHANGED out, Answered' \in Int, Answered <= Answered',
           pc' # "stopped" => pc # "stopped",
           pc' # "stopped" => \A i \in (Answered + 1) .. Answered' :
                                 /\ i \in 1 .. Len(input)
                                 /\ ~WantsAnswer(input[i])
    PROVE  OrderInv'
  <1>1. \A i \in 1 .. Len(input) : input'[i] = input[i]
    BY FramesStay
  <1>2. out \in Seq(Answers)
    BY Zenon DEF OrderInv
  <1>3. \A j \in DOMAIN out :
           out[j].frame <= Answered' /\ WantsAnswer(input'[out[j].frame])
    BY <1>1, AnsweredFrames
  <1>4. \A j, k \in DOMAIN out : j < k => out[j].frame < out[k].frame
    BY Zenon DEF OrderInv
  <1>5. ASSUME pc' # "stopped",
               NEW i \in 1 .. Answered', WantsAnswer(input'[i])
        PROVE  \E j \in DOMAIN out : out[j].frame = i
    <2>1. i \in 1 .. Answered /\ i \in 1 .. Len(input)
      BY <1>1, <1>5, AnsweredFrames
    <2>2. WantsAnswer(input[i])
      BY <1>1, <1>5, <2>1
    <2> QED
      BY <1>5, <2>1, <2>2, Zenon DEF OrderInv
  <1> QED
    BY <1>2, <1>3, <1>4, <1>5 DEF OrderInv

(* The effects belong to frames that were taken.                           *)
LEMMA EffectFrames ==
    ASSUME InputOK, LoopOK, EffectInv
    PROVE  /\ Len(effects) \in Nat /\ DOMAIN effects = 1 .. Len(effects)
           /\ \A j \in DOMAIN effects :
                 /\ effects[j].frame \in 1 .. Len(input)
                 /\ effects[j].frame <= next
  <1>1. effects \in Seq(Effects)
    BY Zenon DEF EffectInv
  <1>2. /\ Len(effects) \in Nat /\ DOMAIN effects = 1 .. Len(effects)
        /\ \A j \in DOMAIN effects : effects[j] \in Effects
    BY <1>1, Elements, Zenon
  <1>3. \A j \in DOMAIN effects : effects[j].frame \in Nat \ {0}
    BY <1>2, Constants DEF Effects
  <1>4. \A j \in DOMAIN effects : effects[j].frame <= next
    BY Zenon DEF EffectInv
  <1> QED
    BY <1>2, <1>3, <1>4 DEF InputOK, LoopOK

(* A step that runs nothing keeps the effects' invariant.                  *)
LEMMA EffectsKept ==
    ASSUME InputOK, LoopOK, EffectInv, [Next]_vars, UNCHANGED effects,
           next' \in Nat, next <= next',
           pc' = "calling" => next < next' \/ UNCHANGED <<pc, wire, next>>,
           wire' = "executed" => UNCHANGED <<wire, next>>
    PROVE  EffectInv'
  <1>1. \A j \in DOMAIN effects :
           input'[effects[j].frame] = input[effects[j].frame]
    BY FramesStay, EffectFrames
  <1>2. next \in Nat
    BY DEF LoopOK, InputOK
  <1> QED
    BY <1>1, <1>2, EffectFrames DEF EffectInv

(* A step that runs and answers nothing changes no answer's truth.         *)
LEMMA TruthKept ==
    ASSUME InputOK, LoopOK, OrderInv, TruthInv, [Next]_vars,
           UNCHANGED <<out, effects>>
    PROVE  TruthInv'
  <1>1. \A j \in DOMAIN out : input'[out[j].frame] = input[out[j].frame]
    BY FramesStay, AnsweredFrames
  <1> QED
    BY <1>1 DEF TruthInv

(* An answer that is true keeps all answers true.                          *)
LEMMA AnswerKeepsTruth ==
    ASSUME InputOK, LoopOK, OrderInv, TruthInv, UNCHANGED <<input, effects>>,
           NEW i \in 1 .. Len(input), NEW k \in Kinds, Answer(i, k),
           k = "result" /\ input[i].method = "tools/call" =>
               \E l \in DOMAIN effects : effects[l].frame = i,
           k \notin {"result", "no answer"} =>
               \A l \in DOMAIN effects : effects[l].frame # i
    PROVE  TruthInv'
  <1>1. out \in Seq(Answers)
    BY Zenon DEF OrderInv
  <1>2. CASE out' = out
    BY <1>2 DEF TruthInv
  <1>3. CASE out' # out
    <2>1. /\ DOMAIN out = 1 .. Len(out) /\ Len(out) \in Nat
          /\ DOMAIN out' = 1 .. (Len(out) + 1)
          /\ out'[Len(out) + 1].frame = i
          /\ out'[Len(out) + 1].kind = k
          /\ \A j \in DOMAIN out : out'[j] = out[j]
      BY <1>1, <1>3, AnswerCases
    <2>2. ASSUME NEW j \in DOMAIN out
          PROVE  /\ out[j].kind = "result"
                       /\ input[out[j].frame].method = "tools/call" =>
                    \E l \in DOMAIN effects : effects[l].frame = out[j].frame
                 /\ out[j].kind \notin {"result", "no answer"} =>
                    \A l \in DOMAIN effects : effects[l].frame # out[j].frame
      BY Zenon DEF TruthInv
    <2>3. \A j \in DOMAIN out' : j \in DOMAIN out \/ j = Len(out) + 1
      BY <2>1, OneMore, Zenon
    <2>4. ASSUME NEW j \in DOMAIN out'
          PROVE  /\ out'[j].kind = "result"
                       /\ input[out'[j].frame].method = "tools/call" =>
                    \E l \in DOMAIN effects : effects[l].frame = out'[j].frame
                 /\ out'[j].kind \notin {"result", "no answer"} =>
                    \A l \in DOMAIN effects : effects[l].frame # out'[j].frame
      <3>1. CASE j \in DOMAIN out
        <4>1. out'[j] = out[j]
          BY <2>1, <3>1, Zenon
        <4> QED
          BY <2>2, <3>1, <4>1, Zenon
      <3>2. CASE j = Len(out) + 1
        <4>1. out'[j].frame = i /\ out'[j].kind = k
          BY <2>1, <3>2, Zenon
        <4> QED
          BY <4>1, Zenon
      <3> QED
        BY <2>3, <3>1, <3>2
    <2> QED
      BY <2>4 DEF TruthInv
  <1> QED
    BY <1>2, <1>3

(* What the worker has run.                                                *)
LEMMA Executed ==
    ASSUME InputOK, LoopOK, CallInv, EffectInv, Execute
    PROVE  /\ pc = "calling" /\ next \in 1 .. Len(input)
           /\ UNCHANGED <<input, next, pc, out>> /\ wire' = "executed"
           /\ effects' \in Seq(Effects)
           /\ Len(effects) \in Nat /\ DOMAIN effects = 1 .. Len(effects)
           /\ DOMAIN effects' = 1 .. (Len(effects) + 1)
           /\ effects'[Len(effects) + 1].frame = next
           /\ effects'[Len(effects) + 1].worker = Resolve(input[next].host)
           /\ \A j \in DOMAIN effects :
                 effects'[j] = effects[j] /\ effects[j].frame < next
  <1>1. /\ wire = "sent" /\ wire' = "executed"
        /\ UNCHANGED <<input, next, pc, out>>
        /\ effects' = Append(effects, [frame |-> next,
                                       worker |-> Resolve(input[next].host)])
    BY Zenon DEF Execute
  <1>2. /\ pc = "calling" /\ next > 0 /\ Resolves(input[next].host)
    BY <1>1 DEF CallInv
  <1>3. next \in 1 .. Len(input) /\ next \in 1 .. MaxFrames
    BY <1>2, Constants DEF InputOK, LoopOK
  <1>4. [frame |-> next, worker |-> Resolve(input[next].host)] \in Effects
    BY <1>2, <1>3, ResolvedIsWorker DEF Effects
  <1>5. effects \in Seq(Effects)
    BY Zenon DEF EffectInv
  <1>6. \A j \in DOMAIN effects : effects[j].frame < next
    BY <1>1, <1>2, <1>3, EffectFrames DEF EffectInv
  <1> QED
    BY <1>1, <1>2, <1>3, <1>4, <1>5, <1>6, Appended

---------------------------------------------------------------------------
(* Every step preserves each part.                                         *)

(* The input, ...                                                          *)
LEMMA InputStep ==
    ASSUME InputOK, [Next]_vars
    PROVE  InputOK'
  <1> USE Constants DEF InputOK, Reads, Take
  <1>1. ASSUME Send PROVE InputOK'
    BY <1>1 DEF Send
  <1>2. ASSUME HangUp PROVE InputOK'
    BY <1>2 DEF HangUp
  <1>3. ASSUME Stop PROVE InputOK'
    BY <1>3 DEF Stop
  <1>4. ASSUME ParseError PROVE InputOK'
    BY <1>4 DEF ParseError
  <1>5. ASSUME Skip PROVE InputOK'
    BY <1>5 DEF Skip
  <1>6. ASSUME Local PROVE InputOK'
    BY <1>6 DEF Local
  <1>7. ASSUME Call PROVE InputOK'
    BY <1>7 DEF Call
  <1>8. ASSUME Refused PROVE InputOK'
    BY <1>8 DEF Refused
  <1>9. ASSUME Execute PROVE InputOK'
    BY <1>9 DEF Execute
  <1>10. ASSUME Returned PROVE InputOK'
    BY <1>10 DEF Returned
  <1>11. ASSUME Lost PROVE InputOK'
    BY <1>11 DEF Lost
  <1>12. ASSUME UNCHANGED vars PROVE InputOK'
    BY <1>12 DEF vars
  <1> QED
    BY <1>1, <1>2, <1>3, <1>4, <1>5, <1>6, <1>7, <1>8, <1>9, <1>10, <1>11,
       <1>12
    DEF Next, Loop, Remote

(* ... the loop, ...                                                       *)
LEMMA LoopStep ==
    ASSUME InputOK, LoopOK, CallInv, [Next]_vars
    PROVE  LoopOK'
  <1> USE Constants DEF InputOK, LoopOK, CallInv, Reads, Take
  <1>1. ASSUME Send PROVE LoopOK'
    BY <1>1 DEF Send
  <1>2. ASSUME HangUp PROVE LoopOK'
    BY <1>2 DEF HangUp
  <1>3. ASSUME Stop PROVE LoopOK'
    BY <1>3 DEF Stop
  <1>4. ASSUME ParseError PROVE LoopOK'
    BY <1>4, AnsweredLocally
  <1>5. ASSUME Skip PROVE LoopOK'
    BY <1>5 DEF Skip
  <1>6. ASSUME Local PROVE LoopOK'
    BY <1>6, AnsweredLocally
  <1>7. ASSUME Call PROVE LoopOK'
    BY <1>7 DEF Call
  <1>8. ASSUME Refused PROVE LoopOK'
    <2>1. /\ wire # "none" /\ wire' = "none" /\ UNCHANGED <<input, next, gone>>
          /\ UNCHANGED faults \/ (faults < MaxFaults /\ faults' = faults + 1)
          /\ pc' \in {"reading", "stopped"}
      BY <1>8, AnsweredCall, Zenon
    <2> QED
      BY <2>1
  <1>9. ASSUME Execute PROVE LoopOK'
    BY <1>9 DEF Execute
  <1>10. ASSUME Returned PROVE LoopOK'
    <2>1. /\ wire # "none" /\ wire' = "none" /\ UNCHANGED <<input, next, gone>>
          /\ UNCHANGED faults \/ (faults < MaxFaults /\ faults' = faults + 1)
          /\ pc' \in {"reading", "stopped"}
      BY <1>10, AnsweredCall, Zenon
    <2> QED
      BY <2>1
  <1>11. ASSUME Lost PROVE LoopOK'
    <2>1. /\ wire # "none" /\ wire' = "none" /\ UNCHANGED <<input, next, gone>>
          /\ UNCHANGED faults \/ (faults < MaxFaults /\ faults' = faults + 1)
          /\ pc' \in {"reading", "stopped"}
      BY <1>11, AnsweredCall, Zenon
    <2> QED
      BY <2>1
  <1>12. ASSUME UNCHANGED vars PROVE LoopOK'
    BY <1>12 DEF vars
  <1> QED
    BY <1>1, <1>2, <1>3, <1>4, <1>5, <1>6, <1>7, <1>8, <1>9, <1>10, <1>11,
       <1>12
    DEF Next, Loop, Remote

(* ... the call in hand, ...                                               *)
LEMMA CallStep ==
    ASSUME InputOK, LoopOK, CallInv, [Next]_vars
    PROVE  CallInv'
  <1> USE Constants DEF InputOK, LoopOK, CallInv, Reads, Take
  <1>1. ASSUME Send PROVE CallInv'
    BY <1>1 DEF Send
  <1>2. ASSUME HangUp PROVE CallInv'
    BY <1>2 DEF HangUp
  <1>3. ASSUME Stop PROVE CallInv'
    BY <1>3 DEF Stop
  <1>4. ASSUME ParseError PROVE CallInv'
    BY <1>4, AnsweredLocally
  <1>5. ASSUME Skip PROVE CallInv'
    BY <1>5 DEF Skip
  <1>6. ASSUME Local PROVE CallInv'
    BY <1>6, AnsweredLocally
  <1>7. ASSUME Call PROVE CallInv'
    BY <1>7 DEF Call
  <1>8. ASSUME Refused PROVE CallInv'
    <2>1. /\ wire # "none" /\ wire' = "none" /\ UNCHANGED <<input, next, gone>>
          /\ UNCHANGED faults \/ (faults < MaxFaults /\ faults' = faults + 1)
          /\ pc' \in {"reading", "stopped"}
      BY <1>8, AnsweredCall, Zenon
    <2> QED
      BY <2>1
  <1>9. ASSUME Execute PROVE CallInv'
    BY <1>9 DEF Execute
  <1>10. ASSUME Returned PROVE CallInv'
    <2>1. /\ wire # "none" /\ wire' = "none" /\ UNCHANGED <<input, next, gone>>
          /\ UNCHANGED faults \/ (faults < MaxFaults /\ faults' = faults + 1)
          /\ pc' \in {"reading", "stopped"}
      BY <1>10, AnsweredCall, Zenon
    <2> QED
      BY <2>1
  <1>11. ASSUME Lost PROVE CallInv'
    <2>1. /\ wire # "none" /\ wire' = "none" /\ UNCHANGED <<input, next, gone>>
          /\ UNCHANGED faults \/ (faults < MaxFaults /\ faults' = faults + 1)
          /\ pc' \in {"reading", "stopped"}
      BY <1>11, AnsweredCall, Zenon
    <2> QED
      BY <2>1
  <1>12. ASSUME UNCHANGED vars PROVE CallInv'
    BY <1>12 DEF vars
  <1> QED
    BY <1>1, <1>2, <1>3, <1>4, <1>5, <1>6, <1>7, <1>8, <1>9, <1>10, <1>11,
       <1>12
    DEF Next, Loop, Remote

(* ... the order of the answers, ...                                       *)
LEMMA OrderStep ==
    ASSUME InputOK, LoopOK, CallInv, OrderInv, [Next]_vars
    PROVE  OrderInv'
  <1>1. ASSUME Send PROVE OrderInv'
    <2>1. UNCHANGED <<out, pc, next>> /\ Answered' = Answered
      BY <1>1 DEF Send, Answered
    <2> QED
      BY <2>1, AnsweredFrames, OrderKept
  <1>2. ASSUME HangUp PROVE OrderInv'
    <2>1. UNCHANGED <<out, pc, next>> /\ Answered' = Answered
      BY <1>2 DEF HangUp, Answered
    <2> QED
      BY <2>1, AnsweredFrames, OrderKept
  <1>3. ASSUME Stop PROVE OrderInv'
    <2>1. /\ UNCHANGED out /\ pc' = "stopped" /\ Answered <= Answered'
          /\ Answered' \in Int
      BY <1>3, AnsweredFrames DEF Stop, Take, Answered
    <2> QED
      BY <2>1, OrderKept
  <1>4. ASSUME ParseError PROVE OrderInv'
    <2>1. PICK k \in Kinds : Answer(next + 1, k)
      BY <1>4, AnsweredLocally, Zenon
    <2>2. /\ pc = "reading" /\ next < Len(input) /\ next' = next + 1
          /\ input' = input /\ WantsAnswer(input[next + 1])
      BY <1>4, AnsweredLocally, Zenon
    <2>3. /\ next + 1 \in 1 .. Len(input) /\ Answered = (next + 1) - 1
          /\ pc # "stopped"
      BY <2>2 DEF LoopOK, InputOK, Answered
    <2> QED
      BY <2>1, <2>2, <2>3, AnswerKeepsOrder
  <1>5. ASSUME Skip PROVE OrderInv'
    <2>1. /\ UNCHANGED out /\ pc = "reading" /\ pc' = "reading"
          /\ Answered' = Answered + 1 /\ Answered + 1 \in 1 .. Len(input)
      BY <1>5, AnsweredFrames DEF Skip, Reads, Take, Answered
    <2>2. ~WantsAnswer(input[Answered + 1])
      BY <1>5 DEF Skip, Reads, Take, Answered, WantsAnswer
    <2> QED
      BY <2>1, <2>2, AnsweredFrames, OrderKept
  <1>6. ASSUME Local PROVE OrderInv'
    <2>1. PICK k \in Kinds : Answer(next + 1, k)
      BY <1>6, AnsweredLocally, Zenon
    <2>2. /\ pc = "reading" /\ next < Len(input) /\ next' = next + 1
          /\ input' = input /\ WantsAnswer(input[next + 1])
      BY <1>6, AnsweredLocally, Zenon
    <2>3. /\ next + 1 \in 1 .. Len(input) /\ Answered = (next + 1) - 1
          /\ pc # "stopped"
      BY <2>2 DEF LoopOK, InputOK, Answered
    <2> QED
      BY <2>1, <2>2, <2>3, AnswerKeepsOrder
  <1>7. ASSUME Call PROVE OrderInv'
    <2>1. /\ UNCHANGED out /\ pc = "reading" /\ pc' = "calling"
          /\ Answered' = Answered
      BY <1>7, AnsweredFrames DEF Call, Reads, Take, Answered
    <2> QED
      BY <2>1, AnsweredFrames, OrderKept
  <1>8. ASSUME Refused PROVE OrderInv'
    <2>1. PICK k \in Kinds : Answer(next, k)
      BY <1>8, AnsweredCall, Zenon
    <2>2. wire # "none" /\ UNCHANGED <<input, next>>
      BY <1>8, AnsweredCall, Zenon
    <2>3. /\ next \in 1 .. Len(input) /\ Answered = next - 1
          /\ WantsAnswer(input[next]) /\ pc # "stopped"
      BY <2>2 DEF LoopOK, InputOK, Answered, CallInv, WantsAnswer
    <2> QED
      BY <2>1, <2>2, <2>3, AnswerKeepsOrder
  <1>9. ASSUME Execute PROVE OrderInv'
    <2>1. UNCHANGED <<out, pc, next>> /\ Answered' = Answered
      BY <1>9 DEF Execute, Answered
    <2> QED
      BY <2>1, AnsweredFrames, OrderKept
  <1>10. ASSUME Returned PROVE OrderInv'
    <2>1. PICK k \in Kinds : Answer(next, k)
      BY <1>10, AnsweredCall, Zenon
    <2>2. wire # "none" /\ UNCHANGED <<input, next>>
      BY <1>10, AnsweredCall, Zenon
    <2>3. /\ next \in 1 .. Len(input) /\ Answered = next - 1
          /\ WantsAnswer(input[next]) /\ pc # "stopped"
      BY <2>2 DEF LoopOK, InputOK, Answered, CallInv, WantsAnswer
    <2> QED
      BY <2>1, <2>2, <2>3, AnswerKeepsOrder
  <1>11. ASSUME Lost PROVE OrderInv'
    <2>1. PICK k \in Kinds : Answer(next, k)
      BY <1>11, AnsweredCall, Zenon
    <2>2. wire # "none" /\ UNCHANGED <<input, next>>
      BY <1>11, AnsweredCall, Zenon
    <2>3. /\ next \in 1 .. Len(input) /\ Answered = next - 1
          /\ WantsAnswer(input[next]) /\ pc # "stopped"
      BY <2>2 DEF LoopOK, InputOK, Answered, CallInv, WantsAnswer
    <2> QED
      BY <2>1, <2>2, <2>3, AnswerKeepsOrder
  <1>12. ASSUME UNCHANGED vars PROVE OrderInv'
    <2>1. UNCHANGED <<out, pc, next>> /\ Answered' = Answered
      BY <1>12 DEF vars, Answered
    <2> QED
      BY <2>1, AnsweredFrames, OrderKept
  <1> QED
    BY <1>1, <1>2, <1>3, <1>4, <1>5, <1>6, <1>7, <1>8, <1>9, <1>10, <1>11,
       <1>12
    DEF Next, Loop, Remote

(* ... the effects, ...                                                    *)
LEMMA EffectStep ==
    ASSUME InputOK, LoopOK, CallInv, EffectInv, [Next]_vars
    PROVE  EffectInv'
  <1>1. ASSUME Send PROVE EffectInv'
    <2>1. /\ UNCHANGED effects /\ next' \in Nat /\ next <= next'
          /\ pc' = "calling" => next < next' \/ UNCHANGED <<pc, wire, next>>
          /\ wire' = "executed" => UNCHANGED <<wire, next>>
      BY <1>1 DEF Send, Reads, Take, LoopOK, InputOK, CallInv
    <2> QED
      BY <2>1, EffectsKept
  <1>2. ASSUME HangUp PROVE EffectInv'
    <2>1. /\ UNCHANGED effects /\ next' \in Nat /\ next <= next'
          /\ pc' = "calling" => next < next' \/ UNCHANGED <<pc, wire, next>>
          /\ wire' = "executed" => UNCHANGED <<wire, next>>
      BY <1>2 DEF HangUp, Reads, Take, LoopOK, InputOK, CallInv
    <2> QED
      BY <2>1, EffectsKept
  <1>3. ASSUME Stop PROVE EffectInv'
    <2>1. /\ UNCHANGED effects /\ next' \in Nat /\ next <= next'
          /\ pc' = "calling" => next < next' \/ UNCHANGED <<pc, wire, next>>
          /\ wire' = "executed" => UNCHANGED <<wire, next>>
      BY <1>3 DEF Stop, Reads, Take, LoopOK, InputOK, CallInv
    <2> QED
      BY <2>1, EffectsKept
  <1>4. ASSUME ParseError PROVE EffectInv'
    <2>1. /\ UNCHANGED <<effects, wire>> /\ next' = next + 1 /\ pc = "reading"
          /\ pc' \in {"reading", "stopped"}
      BY <1>4, AnsweredLocally, Zenon
    <2>2. wire = "none" /\ next \in Nat
      BY <2>1 DEF CallInv, LoopOK, InputOK
    <2> QED
      BY <2>1, <2>2, EffectsKept
  <1>5. ASSUME Skip PROVE EffectInv'
    <2>1. /\ UNCHANGED effects /\ next' \in Nat /\ next <= next'
          /\ pc' = "calling" => next < next' \/ UNCHANGED <<pc, wire, next>>
          /\ wire' = "executed" => UNCHANGED <<wire, next>>
      BY <1>5 DEF Skip, Reads, Take, LoopOK, InputOK, CallInv
    <2> QED
      BY <2>1, EffectsKept
  <1>6. ASSUME Local PROVE EffectInv'
    <2>1. /\ UNCHANGED <<effects, wire>> /\ next' = next + 1 /\ pc = "reading"
          /\ pc' \in {"reading", "stopped"}
      BY <1>6, AnsweredLocally, Zenon
    <2>2. wire = "none" /\ next \in Nat
      BY <2>1 DEF CallInv, LoopOK, InputOK
    <2> QED
      BY <2>1, <2>2, EffectsKept
  <1>7. ASSUME Call PROVE EffectInv'
    <2>1. /\ UNCHANGED effects /\ next' \in Nat /\ next <= next'
          /\ pc' = "calling" => next < next' \/ UNCHANGED <<pc, wire, next>>
          /\ wire' = "executed" => UNCHANGED <<wire, next>>
      BY <1>7 DEF Call, Reads, Take, LoopOK, InputOK, CallInv
    <2> QED
      BY <2>1, EffectsKept
  <1>8. ASSUME Refused PROVE EffectInv'
    <2>1. /\ UNCHANGED <<next, effects>> /\ wire' = "none"
          /\ pc' \in {"reading", "stopped"}
      BY <1>8, AnsweredCall, Zenon
    <2>2. next \in Nat
      BY DEF LoopOK, InputOK
    <2> QED
      BY <2>1, <2>2, EffectsKept
  <1>9. ASSUME Execute PROVE EffectInv'
    <2>1. input[next].json /\ input[next].id
      BY <1>9, Executed DEF CallInv
    <2>2. /\ DOMAIN effects = 1 .. Len(effects) /\ Len(effects) \in Nat
          /\ DOMAIN effects' = 1 .. (Len(effects) + 1)
          /\ UNCHANGED <<input, next>> /\ next \in 1 .. Len(input)
          /\ wire' = "executed" /\ effects' \in Seq(Effects)
          /\ effects'[Len(effects) + 1].frame = next
          /\ effects'[Len(effects) + 1].worker = Resolve(input[next].host)
          /\ \A j \in DOMAIN effects :
                effects'[j] = effects[j] /\ effects[j].frame < next
      BY <1>9, Executed
    <2>3. \A j \in DOMAIN effects' :
             /\ effects'[j].frame <= next
             /\ input[effects'[j].frame].json /\ input[effects'[j].frame].id
             /\ effects'[j].worker = Resolve(input[effects'[j].frame].host)
      <3>1. \A j \in DOMAIN effects :
               /\ effects[j].frame <= next
               /\ input[effects[j].frame].json /\ input[effects[j].frame].id
               /\ effects[j].worker = Resolve(input[effects[j].frame].host)
        BY Zenon DEF EffectInv
      <3> QED
        BY <2>1, <2>2, <3>1
    <2>4. \A j, k \in DOMAIN effects' :
             effects'[j].frame = effects'[k].frame => j = k
      <3>1. \A j, k \in DOMAIN effects :
               effects[j].frame = effects[k].frame => j = k
        BY Zenon DEF EffectInv
      <3> QED
        BY <2>2, <3>1, EffectFrames
    <2>5. Len(effects) + 1 \in DOMAIN effects'
      BY <2>2
    <2> QED
      BY <2>2, <2>3, <2>4, <2>5 DEF EffectInv
  <1>10. ASSUME Returned PROVE EffectInv'
    <2>1. /\ UNCHANGED <<next, effects>> /\ wire' = "none"
          /\ pc' \in {"reading", "stopped"}
      BY <1>10, AnsweredCall, Zenon
    <2>2. next \in Nat
      BY DEF LoopOK, InputOK
    <2> QED
      BY <2>1, <2>2, EffectsKept
  <1>11. ASSUME Lost PROVE EffectInv'
    <2>1. /\ UNCHANGED <<next, effects>> /\ wire' = "none"
          /\ pc' \in {"reading", "stopped"}
      BY <1>11, AnsweredCall, Zenon
    <2>2. next \in Nat
      BY DEF LoopOK, InputOK
    <2> QED
      BY <2>1, <2>2, EffectsKept
  <1>12. ASSUME UNCHANGED vars PROVE EffectInv'
    <2>1. /\ UNCHANGED effects /\ next' \in Nat /\ next <= next'
          /\ pc' = "calling" => next < next' \/ UNCHANGED <<pc, wire, next>>
          /\ wire' = "executed" => UNCHANGED <<wire, next>>
      BY <1>12 DEF vars, LoopOK, InputOK
    <2> QED
      BY <2>1, EffectsKept
  <1> QED
    BY <1>1, <1>2, <1>3, <1>4, <1>5, <1>6, <1>7, <1>8, <1>9, <1>10, <1>11,
       <1>12
    DEF Next, Loop, Remote

(* ... and the truth of the answers.                                       *)
LEMMA TruthStep ==
    ASSUME InputOK, LoopOK, CallInv, OrderInv, EffectInv, TruthInv, [Next]_vars
    PROVE  TruthInv'
  <1>1. ASSUME Send PROVE TruthInv'
    <2>1. UNCHANGED <<out, effects>>
      BY <1>1 DEF Send
    <2> QED
      BY <2>1, TruthKept
  <1>2. ASSUME HangUp PROVE TruthInv'
    <2>1. UNCHANGED <<out, effects>>
      BY <1>2 DEF HangUp
    <2> QED
      BY <2>1, TruthKept
  <1>3. ASSUME Stop PROVE TruthInv'
    <2>1. UNCHANGED <<out, effects>>
      BY <1>3 DEF Stop
    <2> QED
      BY <2>1, TruthKept
  <1>4. ASSUME ParseError PROVE TruthInv'
    <2>1. PICK k \in Kinds :
             /\ Answer(next + 1, k)
             /\ k = "result" => input[next + 1].method # "tools/call"
      BY <1>4, AnsweredLocally, Zenon
    <2>2. UNCHANGED <<input, effects>> /\ next < Len(input)
      BY <1>4, AnsweredLocally, Zenon
    <2>3. /\ next + 1 \in 1 .. Len(input)
          /\ \A l \in DOMAIN effects : effects[l].frame # next + 1
      BY <2>2, EffectFrames DEF LoopOK, InputOK
    <2> QED
      BY <2>1, <2>2, <2>3, AnswerKeepsTruth
  <1>5. ASSUME Skip PROVE TruthInv'
    <2>1. UNCHANGED <<out, effects>>
      BY <1>5 DEF Skip
    <2> QED
      BY <2>1, TruthKept
  <1>6. ASSUME Local PROVE TruthInv'
    <2>1. PICK k \in Kinds :
             /\ Answer(next + 1, k)
             /\ k = "result" => input[next + 1].method # "tools/call"
      BY <1>6, AnsweredLocally, Zenon
    <2>2. UNCHANGED <<input, effects>> /\ next < Len(input)
      BY <1>6, AnsweredLocally, Zenon
    <2>3. /\ next + 1 \in 1 .. Len(input)
          /\ \A l \in DOMAIN effects : effects[l].frame # next + 1
      BY <2>2, EffectFrames DEF LoopOK, InputOK
    <2> QED
      BY <2>1, <2>2, <2>3, AnswerKeepsTruth
  <1>7. ASSUME Call PROVE TruthInv'
    <2>1. UNCHANGED <<out, effects>>
      BY <1>7 DEF Call
    <2> QED
      BY <2>1, TruthKept
  <1>8. ASSUME Refused PROVE TruthInv'
    <2>1. PICK k \in Kinds :
             /\ Answer(next, k)
             /\ k = "result" => wire = "executed"
             /\ k \notin {"result", "no answer"} => wire = "sent"
      BY <1>8, AnsweredCall, Zenon
    <2>2. UNCHANGED <<input, effects>> /\ wire # "none"
      BY <1>8, AnsweredCall, Zenon
    <2>3. next \in 1 .. Len(input) /\ pc = "calling"
      BY <2>2 DEF LoopOK, InputOK, CallInv
    <2>4. /\ wire = "executed" =>
                \E l \in DOMAIN effects : effects[l].frame = next
          /\ wire = "sent" =>
                \A l \in DOMAIN effects : effects[l].frame # next
      BY <2>3 DEF EffectInv
    <2> QED
      BY <2>1, <2>2, <2>3, <2>4, AnswerKeepsTruth
  <1>9. ASSUME Execute PROVE TruthInv'
    <2>1. \A j \in DOMAIN out : out[j].frame < next
      BY <1>9, Executed, AnsweredFrames DEF Answered
    <2>2. /\ DOMAIN effects = 1 .. Len(effects) /\ Len(effects) \in Nat
          /\ DOMAIN effects' = 1 .. (Len(effects) + 1)
          /\ effects'[Len(effects) + 1].frame = next
          /\ \A j \in DOMAIN effects : effects'[j] = effects[j]
          /\ UNCHANGED <<input, out>>
      BY <1>9, Executed
    <2>3. ASSUME NEW j \in DOMAIN out
          PROVE  /\ out[j].kind = "result"
                       /\ input[out[j].frame].method = "tools/call" =>
                    \E l \in DOMAIN effects' : effects'[l].frame = out[j].frame
                 /\ out[j].kind \notin {"result", "no answer"} =>
                    \A l \in DOMAIN effects' : effects'[l].frame # out[j].frame
      <3>1. /\ out[j].kind = "result"
                  /\ input[out[j].frame].method = "tools/call" =>
                \E l \in DOMAIN effects : effects[l].frame = out[j].frame
            /\ out[j].kind \notin {"result", "no answer"} =>
                \A l \in DOMAIN effects : effects[l].frame # out[j].frame
        BY Zenon DEF TruthInv
      <3>2. out[j].frame # next
        BY <2>1, AnsweredFrames
      <3>3. DOMAIN effects \subseteq DOMAIN effects'
        BY <2>2
      <3>4. \A l \in DOMAIN effects' :
               l \in DOMAIN effects \/ effects'[l].frame = next
        BY <2>2
      <3>5. ASSUME \E l \in DOMAIN effects : effects[l].frame = out[j].frame
            PROVE  \E l \in DOMAIN effects' :
                      effects'[l].frame = out[j].frame
        <4>1. PICK l \in DOMAIN effects : effects[l].frame = out[j].frame
          BY <3>5
        <4>2. l \in DOMAIN effects' /\ effects'[l] = effects[l]
          BY <2>2, <3>3, Zenon
        <4> QED
          BY <4>1, <4>2
      <3>6. ASSUME \A l \in DOMAIN effects : effects[l].frame # out[j].frame,
                   NEW l \in DOMAIN effects'
            PROVE  effects'[l].frame # out[j].frame
        <4>1. CASE l \in DOMAIN effects
          <5>1. effects'[l] = effects[l]
            BY <2>2, <4>1, Zenon
          <5> QED
            BY <3>6, <4>1, <5>1
        <4>2. CASE effects'[l].frame = next
          BY <3>2, <4>2
        <4> QED
          BY <3>4, <4>1, <4>2
      <3> QED
        BY <3>1, <3>5, <3>6
    <2> QED
      BY <2>2, <2>3, Zenon DEF TruthInv
  <1>10. ASSUME Returned PROVE TruthInv'
    <2>1. PICK k \in Kinds :
             /\ Answer(next, k)
             /\ k = "result" => wire = "executed"
             /\ k \notin {"result", "no answer"} => wire = "sent"
      BY <1>10, AnsweredCall, Zenon
    <2>2. UNCHANGED <<input, effects>> /\ wire # "none"
      BY <1>10, AnsweredCall, Zenon
    <2>3. next \in 1 .. Len(input) /\ pc = "calling"
      BY <2>2 DEF LoopOK, InputOK, CallInv
    <2>4. /\ wire = "executed" =>
                \E l \in DOMAIN effects : effects[l].frame = next
          /\ wire = "sent" =>
                \A l \in DOMAIN effects : effects[l].frame # next
      BY <2>3 DEF EffectInv
    <2> QED
      BY <2>1, <2>2, <2>3, <2>4, AnswerKeepsTruth
  <1>11. ASSUME Lost PROVE TruthInv'
    <2>1. PICK k \in Kinds :
             /\ Answer(next, k)
             /\ k = "result" => wire = "executed"
             /\ k \notin {"result", "no answer"} => wire = "sent"
      BY <1>11, AnsweredCall, Zenon
    <2>2. UNCHANGED <<input, effects>> /\ wire # "none"
      BY <1>11, AnsweredCall, Zenon
    <2>3. next \in 1 .. Len(input) /\ pc = "calling"
      BY <2>2 DEF LoopOK, InputOK, CallInv
    <2>4. /\ wire = "executed" =>
                \E l \in DOMAIN effects : effects[l].frame = next
          /\ wire = "sent" =>
                \A l \in DOMAIN effects : effects[l].frame # next
      BY <2>3 DEF EffectInv
    <2> QED
      BY <2>1, <2>2, <2>3, <2>4, AnswerKeepsTruth
  <1>12. ASSUME UNCHANGED vars PROVE TruthInv'
    <2>1. UNCHANGED <<out, effects>>
      BY <1>12 DEF vars
    <2> QED
      BY <2>1, TruthKept
  <1> QED
    BY <1>1, <1>2, <1>3, <1>4, <1>5, <1>6, <1>7, <1>8, <1>9, <1>10, <1>11,
       <1>12
    DEF Next, Loop, Remote

---------------------------------------------------------------------------
(* Initially nothing has been sent, run or answered.                       *)
LEMMA InitInv == Init => BridgeInv
  <1> SUFFICES ASSUME Init PROVE BridgeInv
    OBVIOUS
  <1> USE Constants DEF Init
  <1>1. InputOK
    BY DEF InputOK
  <1>2. LoopOK
    <2>1. next \in 0 .. Len(input) /\ faults \in 0 .. MaxFaults
      OBVIOUS
    <2> QED
      BY <2>1 DEF LoopOK
  <1>3. CallInv
    BY DEF CallInv
  <1>4. OrderInv
    BY DEF OrderInv, Answered
  <1>5. EffectInv
    BY DEF EffectInv
  <1>6. TruthInv
    BY DEF TruthInv
  <1> QED
    BY <1>1, <1>2, <1>3, <1>4, <1>5, <1>6 DEF BridgeInv

(* The parts hold in every reachable state.                                *)
LEMMA Invariant == Spec => []BridgeInv
  <1>1. BridgeInv /\ [Next]_vars => BridgeInv'
    BY InputStep, LoopStep, CallStep, OrderStep, EffectStep, TruthStep
    DEF BridgeInv
  <1> QED
    BY InitInv, <1>1, PTL DEF Spec

---------------------------------------------------------------------------
(* The state of the loop, the requests and the workers stays of its type   *)
(* for every address book and any number of frames (mcp.go:109-135).       *)
THEOREM TypeCorrect == Spec => []TypeOK
  <1>1. BridgeInv => TypeOK
    BY DEF BridgeInv, InputOK, LoopOK, OrderInv, EffectInv, Answers, Effects,
           TypeOK
  <1> QED
    BY <1>1, Invariant, PTL

(* The frames that want an answer get one each, in their order, before the *)
(* next frame is taken (mcp.go:109-135).                                   *)
THEOREM AnsweredInOrderHolds == Spec => []AnsweredInOrder
  <1>1. BridgeInv => AnsweredInOrder
    <2> SUFFICES ASSUME BridgeInv PROVE AnsweredInOrder
      OBVIOUS
    <2>1. OrderInv
      BY DEF BridgeInv
    <2>2. \A j \in 2 .. Len(out) : out[j - 1].frame < out[j].frame
      <3> SUFFICES ASSUME NEW j \in 2 .. Len(out)
                   PROVE  out[j - 1].frame < out[j].frame
        OBVIOUS
      <3>1. out \in Seq(Answers)
        BY <2>1, Zenon DEF OrderInv
      <3>2. j \in DOMAIN out /\ j - 1 \in DOMAIN out /\ j - 1 < j
        BY <3>1
      <3>3. \A a, b \in DOMAIN out : a < b => out[a].frame < out[b].frame
        BY <2>1, Zenon DEF OrderInv
      <3> QED
        BY <3>2, <3>3, Zenon
    <2>3. \A j \in DOMAIN out : WantsAnswer(input[out[j].frame])
      BY <2>1, Zenon DEF OrderInv
    <2>4. ASSUME pc = "reading", NEW i \in 1 .. next, WantsAnswer(input[i])
          PROVE  AnswersTo(i) # {}
      <3>1. pc # "stopped" /\ Answered = next
        BY <2>4 DEF Answered
      <3>2. PICK j \in DOMAIN out : out[j].frame = i
        BY <2>1, <2>4, <3>1, Zenon DEF OrderInv
      <3> QED
        BY <3>2 DEF AnswersTo
    <2> QED
      BY <2>2, <2>3, <2>4, Zenon DEF AnsweredInOrder
  <1> QED
    BY <1>1, Invariant, PTL

(* No call is made twice, none for a notification, and each by the worker  *)
(* its host stands for (mcp.go:126-131, client.go:28-59).                  *)
THEOREM RunsOnceHolds == Spec => []RunsOnce
  <1>1. BridgeInv => RunsOnce
    <2> SUFFICES ASSUME BridgeInv, NEW i \in 1 .. next
                 PROVE  /\ Cardinality(EffectsOf(i)) <= 1
                        /\ \A j \in EffectsOf(i) :
                              /\ input[i].json /\ input[i].id
                              /\ effects[j].worker = Resolve(input[i].host)
      BY Zenon DEF RunsOnce
    <2>1. EffectInv
      BY DEF BridgeInv
    <2>2. \A a, b \in EffectsOf(i) : a = b
      BY <2>1, Zenon DEF EffectInv, EffectsOf
    <2>3. Cardinality(EffectsOf(i)) <= 1
      <3>1. CASE EffectsOf(i) = {}
        BY <3>1, FS_EmptySet
      <3>2. CASE EffectsOf(i) # {}
        <4>1. PICK a : a \in EffectsOf(i)
          BY <3>2
        <4>2. EffectsOf(i) = {a}
          BY <2>2, <4>1
        <4>3. Cardinality({a}) = 1
          BY FS_Singleton
        <4> QED
          BY <4>2, <4>3
      <3> QED
        BY <3>1, <3>2
    <2>4. ASSUME NEW j \in EffectsOf(i)
          PROVE  /\ input[i].json /\ input[i].id
                 /\ effects[j].worker = Resolve(input[i].host)
      BY <2>1, <2>4, Zenon DEF EffectInv, EffectsOf
    <2> QED
      BY <2>3, <2>4
  <1> QED
    BY <1>1, Invariant, PTL

(* What an answer says of the operation is so: a result means it was run,  *)
(* an error other than a lost answer that it was not (mcp.go:168-184).     *)
THEOREM AnswersAreTrueHolds == Spec => []AnswersAreTrue
  <1>1. BridgeInv => AnswersAreTrue
    <2> SUFFICES ASSUME BridgeInv, NEW j \in DOMAIN out
                 PROVE  /\ (/\ out[j].kind = "result"
                            /\ input[out[j].frame].method = "tools/call") =>
                              EffectsOf(out[j].frame) # {}
                        /\ out[j].kind \notin {"result", "no answer"} =>
                              EffectsOf(out[j].frame) = {}
      BY Zenon DEF AnswersAreTrue
    <2>1. /\ (/\ out[j].kind = "result"
              /\ input[out[j].frame].method = "tools/call") =>
                \E k \in DOMAIN effects : effects[k].frame = out[j].frame
          /\ out[j].kind \notin {"result", "no answer"} =>
                \A k \in DOMAIN effects : effects[k].frame # out[j].frame
      BY Zenon DEF BridgeInv, TruthInv
    <2> QED
      BY <2>1 DEF EffectsOf
  <1> QED
    BY <1>1, Invariant, PTL
=============================================================================
