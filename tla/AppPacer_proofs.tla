-------------------------- MODULE AppPacer_proofs --------------------------
(***************************************************************************)
(* Theorems about AppPacer, for every size of the ring, every set of       *)
(* periods and leads: the loops end after their bound and where the closed *)
(* form says, and frames in flight have display times in the order of      *)
(* their ids.                                                              *)
(***************************************************************************)
EXTENDS MCAppPacer, TLAPS

-----------------------------------------------------------------------------
(* What the loops compute. *)

LEMMA DivisionWithRest ==
  ASSUME NEW a \in Int, NEW d \in Nat \ {0}
  PROVE  /\ a \div d \in Int
         /\ d * (a \div d) <= a
         /\ a < d * (a \div d) + d
OBVIOUS

\* while (val <= bound) val += step; ends above the bound, not before it
\* began, and not a step too far.
LEMMA AdvanceCorrect ==
  ASSUME NEW val \in Int, NEW bound \in Int, NEW step \in Nat \ {0}
  PROVE  /\ Advance(val, bound, step) \in Int
         /\ Advance(val, bound, step) > bound
         /\ Advance(val, bound, step) >= val
         /\ \/ Advance(val, bound, step) = val
            \/ Advance(val, bound, step) - step <= bound
<1>1. CASE val > bound
  BY <1>1 DEF Advance
<1>2. CASE val <= bound
  <2> DEFINE q == (bound - val) \div step
  <2>1. /\ q \in Int
        /\ step * q <= bound - val
        /\ bound - val < step * q + step
    BY <1>2, DivisionWithRest
  <2>2. Advance(val, bound, step) = val + step * (q + 1)
    BY <1>2 DEF Advance
  <2>3. step * (q + 1) = step * q + step /\ step * q \in Int
    BY <2>1
  <2>4. step * q + step >= 0
    BY <1>2, <2>1, <2>3
  <2> HIDE DEF q
  <2> QED
    BY <2>1, <2>2, <2>3, <2>4
<1> QED
  BY <1>1, <1>2

\* % and \div by a number that is a parameter.
LEMMA Division ==
  ASSUME NEW a \in Int, NEW n \in Nat \ {0}
  PROVE  /\ a \div n \in Int /\ a % n \in 0 .. n - 1
         /\ a % n = a - n * (a \div n)
<1>1. a % n = a - n * (a \div n)
  BY SMTT(30)
<1> QED BY <1>1

LEMMA Rest ==
  ASSUME NEW n \in Nat \ {0}, NEW q \in Int, NEW r \in 0 .. n - 1
  PROVE  (n * q + r) % n = r
OBVIOUS

LEMMA RoundLater ==
  ASSUME NEW n \in Nat \ {0}, NEW a \in Int
  PROVE  (a + n) % n = a % n
<1> DEFINE q == a \div n
           r == a % n
<1>1. q \in Int /\ r \in 0 .. n - 1 /\ r = a - n * q
  BY Division
<1> HIDE DEF q, r
<1>2. a + n = n * (q + 1) + r
  BY <1>1
<1>3. q + 1 \in Int
  BY <1>1
<1>4. (n * (q + 1) + r) % n = r
  BY <1>1, <1>3, Rest
<1> QED BY <1>2, <1>4 DEF r

LEMMA NoRest ==
  ASSUME NEW n \in Nat \ {0}, NEW k \in Int
  PROVE  (n * k) % n = 0
<1>1. 0 \in 0 .. n - 1 /\ n * k + 0 = n * k
  OBVIOUS
<1> QED BY <1>1, Rest

\* Numbers less than n apart that have the same rest are the same.
LEMMA SameRest ==
  ASSUME NEW a \in Int, NEW b \in Int, NEW n \in Nat \ {0},
         a % n = b % n, a <= b, b - a < n
  PROVE  a = b
<1> DEFINE q == a \div n
           r == b \div n
           s == a % n
<1>1. q \in Int /\ r \in Int /\ s = a - n * q /\ s = b - n * r
  BY Division
<1> HIDE DEF q, r, s
<1>2. b - a = n * (r - q)
  BY <1>1
<1>3. CASE r - q >= 1
  <2>1. n * (r - q) >= n
    BY <1>1, <1>3
  <2> QED BY <1>1, <1>2, <2>1
<1>4. CASE r - q <= 0
  <2>1. n * (r - q) <= 0
    BY <1>1, <1>4
  <2> QED BY <1>1, <1>2, <2>1
<1> QED BY <1>1, <1>3, <1>4

\* It goes there in whole steps.
LEMMA AdvanceSteps ==
  ASSUME NEW val \in Int, NEW bound \in Int, NEW step \in Nat \ {0}
  PROVE  \E k \in Int : Advance(val, bound, step) = val + step * k
<1>1. CASE val > bound
  <2>1. Advance(val, bound, step) = val + step * 0
    BY <1>1 DEF Advance
  <2> QED BY <2>1
<1>2. CASE val <= bound
  <2> DEFINE k == (bound - val) \div step + 1
  <2>1. k \in Int
    BY DivisionWithRest
  <2>2. Advance(val, bound, step) = val + step * k
    BY <1>2 DEF Advance
  <2> QED BY <2>1, <2>2
<1> QED BY <1>1, <1>2

-----------------------------------------------------------------------------
(* Frames in flight. *)

LEMMA PeriodsPositive ==
  ASSUME TypeOK
  PROVE  /\ last_input.period \in Nat \ {0}
         /\ total_app_and_compositor_time \in Int
         /\ calc_app_period \in Nat \ {0}
         /\ predict_display_time(sampled) \in Int
         /\ predict_display_time(sampled) > last_returned
<1>1. /\ last_input.period \in Nat \ {0}
      /\ last_input.display \in Int /\ last_input.extra \in Int
      /\ app.cpu \in Nat /\ app.draw \in Nat /\ app.gpu \in Nat
  BY ConstantsAssumption DEF TypeOK
<1>2. total_app_and_compositor_time \in Int
  BY <1>1, ConstantsAssumption
     DEF total_app_and_compositor_time, total_app_time
<1> DEFINE step == last_input.period
           cpu == app.cpu - 1
           draw == app.draw - 1
           gpu == app.gpu - 1
           p1 == Advance(step, cpu, step)
           p2 == Advance(p1, draw, step)
           p3 == Advance(p2, gpu, step)
<1>3. calc_app_period = p3
  BY DEF calc_app_period
<1>4. step \in Nat \ {0} /\ step \in Int /\ step > 0
  BY <1>1
<1>5. cpu \in Int /\ draw \in Int /\ gpu \in Int
  BY <1>1
<1> HIDE DEF step, cpu, draw, gpu
<1>6. p1 \in Int /\ p1 >= step
  BY <1>4, <1>5, AdvanceCorrect
<1> HIDE DEF p1
<1>7. p2 \in Int /\ p2 >= p1
  BY <1>6, <1>4, <1>5, AdvanceCorrect
<1> HIDE DEF p2
<1>8. p3 \in Int /\ p3 >= p2
  BY <1>7, <1>4, <1>5, AdvanceCorrect
<1> HIDE DEF p3
<1>9. calc_app_period \in Nat \ {0}
  BY <1>3, <1>4, <1>6, <1>7, <1>8
<1> DEFINE half == last_returned + calc_app_period \div 2
           after == Advance(last_input.display, half, calc_app_period)
<1>10. half \in Int /\ half >= last_returned
  <2>1. last_returned \in Int
    BY DEF TypeOK
  <2> QED BY <1>9, <2>1
<1>11. after \in Int /\ after > half
  <2> HIDE DEF half
  <2> QED BY <1>1, <1>9, <1>10, AdvanceCorrect
<1>12. /\ predict_display_time(sampled) \in Int
       /\ predict_display_time(sampled) >= after
  <2>1. predict_display_time(sampled) =
          Advance(after, sampled + total_app_and_compositor_time, step)
    BY DEF predict_display_time, step
  <2>2. sampled + total_app_and_compositor_time \in Int
    BY <1>2 DEF TypeOK
  <2> HIDE DEF after, half
  <2> QED BY <1>4, <1>11, <2>1, <2>2, AdvanceCorrect
<1> HIDE DEF half, after
<1>13. last_returned \in Int
  BY DEF TypeOK
<1> QED
  BY <1>1, <1>2, <1>9, <1>10, <1>11, <1>12, <1>13

-----------------------------------------------------------------------------
(* Every step keeps the inductive invariant PacerInv.                      *)

LEMMA IndexIsSlot ==
  ASSUME NEW n \in Nat
  PROVE  Index(n) \in Slots
<1>1. FrameCount \in Nat \ {0}
  BY ConstantsAssumption
<1> QED BY <1>1 DEF Index, Slots

LEMMA ReadyIsAFrame == Ready \in FrameRecords
BY DEF Ready, FrameRecords, FrameStates

LEMMA InitPacerInv == Init => PacerInv
<1> SUFFICES ASSUME Init PROVE PacerInv
  OBVIOUS
<1>1. TypeOK
  <2>1. frames \in [Slots -> FrameRecords]
    BY ReadyIsAFrame DEF Init
  <2>2. \A p \in Periods, lead \in Leads :
          [display |-> 0, period |-> p, extra |-> lead]
            \in [display: Int, period: Periods, extra: Int]
    BY ConstantsAssumption
  <2>3. last_input \in [display: Int, period: Periods, extra: Int]
    BY <2>2 DEF Init
  <2>4. app \in [cpu: Nat, draw: Nat, gpu: Nat]
    BY DEF Init
  <2>5. aborted \in BOOLEAN
    BY DEF Init
  <2> QED BY <2>1, <2>3, <2>4, <2>5 DEF Init, TypeOK
<1>2. StampsOrdered
  BY DEF Init, StampsOrdered, Ready
<1>3. Outstanding = {}
  BY DEF Init, Outstanding, Ready
<1> QED
  BY <1>1, <1>2, <1>3
     DEF PacerInv, OutstandingPredicted, DisplayTimesOrdered,
         SleepsForItsFrame, Init

\* Steps that leave the ring alone: the clock, its samples, and pa_info.
LEMMA QuietKeepsInv ==
  ASSUME PacerInv, SampleNow \/ Info \/ Tick \/ UNCHANGED vars
  PROVE  PacerInv'
<1>1. /\ UNCHANGED <<frames, frame_counter, last_returned, app, wake_up,
                     aborted>>
      /\ wpc' = wpc \/ wpc' = "predict"
  BY DEF SampleNow, Info, Tick, vars
<1>2. now' \in Nat /\ now' >= now
  BY DEF PacerInv, TypeOK, SampleNow, Info, Tick, vars
<1>3. last_input' \in [display: Int, period: Periods, extra: Int]
  <2>1. CASE Info
    <3>1. PICK lead \in Leads, p \in Periods :
            last_input' = [display |-> now + lead, period |-> p,
                           extra |-> lead]
      BY <2>1 DEF Info
    <3>2. lead \in Int /\ now + lead \in Int
      BY ConstantsAssumption DEF PacerInv, TypeOK
    <3> QED BY <3>1, <3>2
  <2>2. CASE SampleNow \/ Tick \/ UNCHANGED vars
    BY <2>2 DEF PacerInv, TypeOK, SampleNow, Tick, vars
  <2> QED BY <2>1, <2>2
<1>4. sampled' \in Nat
  BY DEF PacerInv, TypeOK, SampleNow, Info, Tick, vars
<1>5. TypeOK'
  BY <1>1, <1>2, <1>3, <1>4 DEF PacerInv, TypeOK
<1>6. StampsOrdered'
  <2>1. \A s \in Slots : /\ frames[s].woke \in Nat /\ frames[s].begin \in Nat
                         /\ frames[s].delivered \in Nat
    BY DEF PacerInv, TypeOK, FrameRecords
  <2>2. now \in Nat
    BY DEF PacerInv, TypeOK
  <2> QED BY <1>1, <1>2, <2>1, <2>2 DEF PacerInv, StampsOrdered
<1>7. OutstandingPredicted' /\ DisplayTimesOrdered'
  BY <1>1 DEF PacerInv, OutstandingPredicted, DisplayTimesOrdered, Outstanding
<1>8. SleepsForItsFrame'
  BY <1>1 DEF PacerInv, SleepsForItsFrame
<1> QED
  BY <1>5, <1>6, <1>7, <1>8 DEF PacerInv

\* Frames that move on keep their id and display time, or leave the ring.
LEMMA MovingOnKeepsOrder ==
  ASSUME PacerInv,
         UNCHANGED <<frame_counter, last_returned>>,
         \A s \in Slots :
           \/ frames'[s].state = "READY"
           \/ /\ frames[s].state # "READY"
              /\ frames'[s].frame_id = frames[s].frame_id
              /\ frames'[s].display = frames[s].display
  PROVE  OutstandingPredicted' /\ DisplayTimesOrdered'
<1>1. \A s \in Outstanding' :
        /\ s \in Outstanding
        /\ frames'[s].frame_id = frames[s].frame_id
        /\ frames'[s].display = frames[s].display
  BY DEF Outstanding
<1>2. OutstandingPredicted'
  BY <1>1 DEF PacerInv, OutstandingPredicted
<1>3. DisplayTimesOrdered'
  BY <1>1 DEF PacerInv, DisplayTimesOrdered
<1> QED BY <1>2, <1>3

LEMMA MovingOnKeepsSleep ==
  ASSUME PacerInv,
         UNCHANGED <<frame_counter, wpc, aborted>>,
         \A s \in Slots : frames[s].state = "PREDICTED" => frames'[s] = frames[s]
  PROVE  SleepsForItsFrame'
<1>1. frame_counter \in Nat /\ Index(frame_counter) \in Slots
  BY IndexIsSlot DEF PacerInv, TypeOK
<1>2. Index(frame_counter)' = Index(frame_counter)
  BY DEF Index
<1> QED BY <1>1, <1>2 DEF PacerInv, SleepsForItsFrame

\* The ring's type and stamps, when the rest keeps its type.
LEMMA FrameFields ==
  ASSUME PacerInv, NEW s \in Slots
  PROVE  /\ frames[s] \in FrameRecords
         /\ frames[s].woke \in Nat /\ frames[s].begin \in Nat
         /\ frames[s].delivered \in Nat
         /\ frames[s].frame_id \in Int /\ frames[s].display \in Int
BY DEF PacerInv, TypeOK, FrameRecords

LEMMA ClockIsNat == ASSUME PacerInv PROVE now \in Nat
BY DEF PacerInv, TypeOK

LEMMA BeginKeepsInv ==
  ASSUME PacerInv, Begin
  PROVE  PacerInv'
<1>1. PICK s \in InState({"WAIT_LEFT"}) :
        frames' = [frames EXCEPT ![s].state = "BEGUN", ![s].begin = now]
  BY DEF Begin
<1>2. s \in Slots /\ frames[s].state = "WAIT_LEFT"
  BY <1>1 DEF InState
<1>3. UNCHANGED <<frame_counter, last_returned, last_input, now, sampled,
                  wake_up, wpc, aborted, app>>
  BY DEF Begin, FrameUnchanged
<1> DEFINE f == [frames[s] EXCEPT !.state = "BEGUN", !.begin = now]
<1>4. /\ f \in FrameRecords
      /\ f.state = "BEGUN" /\ f.begin = now /\ f.woke = frames[s].woke
      /\ f.delivered = frames[s].delivered
      /\ f.frame_id = frames[s].frame_id /\ f.display = frames[s].display
  BY <1>2, FrameFields, ClockIsNat DEF FrameRecords, FrameStates
<1>5. frames \in [Slots -> FrameRecords]
  BY DEF PacerInv, TypeOK
<1>6. frames' = [frames EXCEPT ![s] = f]
  BY <1>1, <1>2, <1>5
<1> HIDE DEF f
<1>7. /\ frames' \in [Slots -> FrameRecords]
      /\ frames'[s] = f
      /\ \A t \in Slots : t # s => frames'[t] = frames[t]
  BY <1>2, <1>4, <1>5, <1>6
<1>8. TypeOK'
  BY <1>3, <1>7 DEF PacerInv, TypeOK
<1>9. StampsOrdered'
  BY <1>2, <1>3, <1>4, <1>7, ClockIsNat DEF PacerInv, StampsOrdered
<1>10. OutstandingPredicted' /\ DisplayTimesOrdered'
  BY <1>2, <1>3, <1>4, <1>7, MovingOnKeepsOrder
<1>11. SleepsForItsFrame'
  BY <1>2, <1>3, <1>7, MovingOnKeepsSleep
<1> QED
  BY <1>8, <1>9, <1>10, <1>11 DEF PacerInv

LEMMA DeliverKeepsInv ==
  ASSUME PacerInv, Deliver
  PROVE  PacerInv'
<1>1. PICK s \in InState({"BEGUN"}) :
        frames' = [frames EXCEPT ![s].state = "DELIVERED", ![s].delivered = now]
  BY DEF Deliver
<1>2. s \in Slots /\ frames[s].state = "BEGUN"
  BY <1>1 DEF InState
<1>3. UNCHANGED <<frame_counter, last_returned, last_input, now, sampled,
                  wake_up, wpc, aborted, app>>
  BY DEF Deliver, FrameUnchanged
<1> DEFINE f == [frames[s] EXCEPT !.state = "DELIVERED", !.delivered = now]
<1>4. /\ f \in FrameRecords
      /\ f.state = "DELIVERED" /\ f.delivered = now
      /\ f.woke = frames[s].woke /\ f.begin = frames[s].begin
      /\ f.frame_id = frames[s].frame_id /\ f.display = frames[s].display
  BY <1>2, FrameFields, ClockIsNat DEF FrameRecords, FrameStates
<1>5. frames \in [Slots -> FrameRecords]
  BY DEF PacerInv, TypeOK
<1>6. frames' = [frames EXCEPT ![s] = f]
  BY <1>1, <1>2, <1>5
<1> HIDE DEF f
<1>7. /\ frames' \in [Slots -> FrameRecords]
      /\ frames'[s] = f
      /\ \A t \in Slots : t # s => frames'[t] = frames[t]
  BY <1>2, <1>4, <1>5, <1>6
<1>8. TypeOK'
  BY <1>3, <1>7 DEF PacerInv, TypeOK
<1>9. StampsOrdered'
  BY <1>2, <1>3, <1>4, <1>7, ClockIsNat DEF PacerInv, StampsOrdered
<1>10. OutstandingPredicted' /\ DisplayTimesOrdered'
  BY <1>2, <1>3, <1>4, <1>7, MovingOnKeepsOrder
<1>11. SleepsForItsFrame'
  BY <1>2, <1>3, <1>7, MovingOnKeepsSleep
<1> QED
  BY <1>8, <1>9, <1>10, <1>11 DEF PacerInv

LEMMA DiscardKeepsInv ==
  ASSUME PacerInv, Discard
  PROVE  PacerInv'
<1>1. PICK S \in {InState({"BEGUN"}), InState({"BEGUN", "WAIT_LEFT"})} :
        frames' = [s \in Slots |-> IF s \in S THEN Ready ELSE frames[s]]
  BY DEF Discard
<1>2. UNCHANGED <<frame_counter, last_returned, last_input, now, sampled,
                  wake_up, wpc, aborted, app>>
  BY DEF Discard, FrameUnchanged
<1>3. \A s \in S : frames[s].state \in {"BEGUN", "WAIT_LEFT"}
  BY <1>1 DEF InState
<1>4. \A s \in Slots : frames'[s] = Ready \/ (s \notin S /\ frames'[s] = frames[s])
  BY <1>1
<1>5. frames' \in [Slots -> FrameRecords]
  BY <1>1, ReadyIsAFrame, FrameFields
<1>6. /\ Ready.state = "READY" /\ Ready.woke = 0 /\ Ready.begin = 0
      /\ Ready.delivered = 0
  BY DEF Ready
<1>7. TypeOK'
  BY <1>2, <1>5 DEF PacerInv, TypeOK
<1>8. StampsOrdered'
  BY <1>2, <1>4, <1>6, ClockIsNat DEF PacerInv, StampsOrdered
<1>9. OutstandingPredicted' /\ DisplayTimesOrdered'
  BY <1>2, <1>4, <1>6, MovingOnKeepsOrder
<1>10. SleepsForItsFrame'
  BY <1>1, <1>2, <1>3, MovingOnKeepsSleep
<1> QED
  BY <1>7, <1>8, <1>9, <1>10 DEF PacerInv

\* A mean lies between the two, so the estimates stay times.
LEMMA FilteredIsATime ==
  ASSUME NEW old \in Nat, NEW new \in Nat
  PROVE  Filtered(old, new) \subseteq Nat
BY DEF Filtered

LEMMA GpuDoneKeepsInv ==
  ASSUME PacerInv, GpuDone
  PROVE  PacerInv'
<1>1. PICK s \in NextOfTheGpu :
        Learn(frames[s]) /\ frames' = [frames EXCEPT ![s] = Ready]
  BY DEF GpuDone
<1>2. s \in Slots /\ frames[s].state = "DELIVERED"
  BY <1>1 DEF NextOfTheGpu, InState
<1>3. UNCHANGED <<frame_counter, last_returned, last_input, now, sampled,
                  wake_up, wpc, aborted>>
  BY DEF GpuDone, FrameUnchanged
<1>4. frames \in [Slots -> FrameRecords]
  BY DEF PacerInv, TypeOK
<1>5. /\ frames' \in [Slots -> FrameRecords]
      /\ frames'[s] = Ready
      /\ \A t \in Slots : t # s => frames'[t] = frames[t]
  BY <1>1, <1>2, <1>4, ReadyIsAFrame
<1>6. app' \in [cpu: Nat, draw: Nat, gpu: Nat]
  <2> DEFINE f == frames[s]
  <2>1. /\ f.begin - f.woke \in Nat /\ f.delivered - f.begin \in Nat
        /\ now - f.delivered \in Nat
    BY <1>2, FrameFields, ClockIsNat DEF PacerInv, StampsOrdered
  <2>2. app.cpu \in Nat /\ app.draw \in Nat /\ app.gpu \in Nat
    BY DEF PacerInv, TypeOK
  <2> HIDE DEF f
  <2>3. PICK cpu \in Filtered(app.cpu, f.begin - f.woke),
             draw \in Filtered(app.draw, f.delivered - f.begin),
             gpu \in Filtered(app.gpu, now - f.delivered) :
          app' = [cpu |-> cpu, draw |-> draw, gpu |-> gpu]
    BY <1>1 DEF Learn, f
  <2>4. cpu \in Nat /\ draw \in Nat /\ gpu \in Nat
    BY <2>1, <2>2, FilteredIsATime
  <2> QED BY <2>3, <2>4
<1>7. /\ Ready.state = "READY" /\ Ready.woke = 0 /\ Ready.begin = 0
      /\ Ready.delivered = 0
  BY DEF Ready
<1>8. TypeOK'
  BY <1>3, <1>5, <1>6 DEF PacerInv, TypeOK
<1>9. StampsOrdered'
  BY <1>2, <1>3, <1>5, <1>7, ClockIsNat DEF PacerInv, StampsOrdered
<1>10. OutstandingPredicted' /\ DisplayTimesOrdered'
  BY <1>3, <1>5, <1>7, MovingOnKeepsOrder
<1>11. SleepsForItsFrame'
  BY <1>2, <1>3, <1>5, MovingOnKeepsSleep
<1> QED
  BY <1>8, <1>9, <1>10, <1>11 DEF PacerInv

\* The slot is still the frame's, so the assertions of the wake up hold.
LEMMA WakeUpKeepsInv ==
  ASSUME PacerInv, WakeUp, ~aborted
  PROVE  PacerInv' /\ ~aborted'
<1> DEFINE s == Index(frame_counter)
<1>1. frame_counter \in Nat /\ s \in Slots
  BY IndexIsSlot DEF PacerInv, TypeOK
<1>2. frames[s].state = "PREDICTED" /\ frames[s].frame_id = frame_counter
  BY DEF PacerInv, SleepsForItsFrame, WakeUp
<1>3. /\ frames' = [frames EXCEPT ![s].state = "WAIT_LEFT", ![s].woke = now]
      /\ aborted' = (frames[s].frame_id # frame_counter
                       \/ frames[s].state # "PREDICTED")
      /\ wpc' = "idle"
      /\ UNCHANGED <<frame_counter, last_returned, last_input, now, sampled,
                     wake_up, app>>
  BY DEF WakeUp
<1> HIDE DEF s
<1>4. aborted' = FALSE
  BY <1>2, <1>3
<1> DEFINE f == [frames[s] EXCEPT !.state = "WAIT_LEFT", !.woke = now]
<1>5. /\ f \in FrameRecords
      /\ f.state = "WAIT_LEFT" /\ f.woke = now /\ f.begin = frames[s].begin
      /\ f.delivered = frames[s].delivered
      /\ f.frame_id = frames[s].frame_id /\ f.display = frames[s].display
  BY <1>1, FrameFields, ClockIsNat DEF FrameRecords, FrameStates
<1>6. frames \in [Slots -> FrameRecords]
  BY DEF PacerInv, TypeOK
<1>7. frames' = [frames EXCEPT ![s] = f]
  BY <1>1, <1>3, <1>6
<1> HIDE DEF f
<1>8. /\ frames' \in [Slots -> FrameRecords]
      /\ frames'[s] = f
      /\ \A t \in Slots : t # s => frames'[t] = frames[t]
  BY <1>1, <1>5, <1>6, <1>7
<1>9. TypeOK'
  <2>1. aborted' \in BOOLEAN
    BY <1>4
  <2> QED BY <1>3, <1>8, <2>1 DEF PacerInv, TypeOK
<1>10. StampsOrdered'
  BY <1>1, <1>3, <1>5, <1>8, ClockIsNat DEF PacerInv, StampsOrdered
<1>11. OutstandingPredicted' /\ DisplayTimesOrdered'
  BY <1>2, <1>3, <1>5, <1>8, MovingOnKeepsOrder
<1>12. SleepsForItsFrame'
  BY <1>3 DEF SleepsForItsFrame
<1> QED
  BY <1>4, <1>9, <1>10, <1>11, <1>12 DEF PacerInv

\* A new frame has the next id, and a later display time than all before it.
LEMMA PredictKeepsInv ==
  ASSUME PacerInv, Predict
  PROVE  PacerInv'
<1> DEFINE id == frame_counter + 1
           s == Index(id)
           display == predict_display_time(sampled)
<1>1. /\ frame_counter \in Nat /\ id \in Nat /\ id > frame_counter
      /\ last_returned \in Int /\ s \in Slots
  BY IndexIsSlot DEF PacerInv, TypeOK
<1>2. display \in Int /\ display > last_returned
  BY PeriodsPositive DEF PacerInv
<1>3. /\ frame_counter' = id /\ last_returned' = display
      /\ wpc' = "sleep"
      /\ wake_up' = display - total_app_and_compositor_time
      /\ UNCHANGED <<app, last_input, now, sampled>>
  BY DEF Predict
<1>4. wake_up' \in Int
  BY <1>2, <1>3, PeriodsPositive DEF PacerInv
<1>5. frames \in [Slots -> FrameRecords]
  BY DEF PacerInv, TypeOK
<1>6. \A t \in Outstanding :
        /\ frames[t].frame_id \in 1 .. frame_counter
        /\ frames[t].display \in Int
        /\ frames[t].display <= last_returned
  BY FrameFields DEF PacerInv, OutstandingPredicted, Outstanding
<1>7. CASE frames[s] = Ready
  <2> DEFINE f == [Ready EXCEPT !.frame_id = id, !.state = "PREDICTED",
                                !.display = display]
  <2>1. frames' = [frames EXCEPT ![s] = f] /\ UNCHANGED aborted
    BY <1>7 DEF Predict
  <2> HIDE DEF display, id
  <2>2. /\ f \in FrameRecords
        /\ f.frame_id = id /\ f.state = "PREDICTED" /\ f.display = display
        /\ f.woke = 0 /\ f.begin = 0 /\ f.delivered = 0
    BY <1>1, <1>2 DEF Ready, FrameRecords, FrameStates
  <2> HIDE DEF f, s
  <2>3. /\ frames' \in [Slots -> FrameRecords]
        /\ frames'[s] = f
        /\ \A t \in Slots : t # s => frames'[t] = frames[t]
    BY <1>1, <1>5, <2>1, <2>2
  <2>4. TypeOK'
    BY <1>1, <1>2, <1>3, <1>4, <2>1, <2>3 DEF PacerInv, TypeOK
  <2>5. StampsOrdered'
    BY <1>1, <1>3, <2>2, <2>3, ClockIsNat DEF PacerInv, StampsOrdered
  <2>6. \A t \in Outstanding' : t = s \/ (t \in Outstanding /\ t # s)
    BY <2>3 DEF Outstanding
  <2>7. OutstandingPredicted'
    <3>1. id \in 1 .. id
      BY <1>1
    <3>2. \A n \in 1 .. frame_counter : n \in 1 .. id
      BY <1>1
    <3>3. \A t \in Outstanding' :
            /\ frames'[t].frame_id \in 1 .. id
            /\ frames'[t].display <= display
      BY <1>1, <1>2, <1>6, <2>2, <2>3, <2>6, <3>1, <3>2
         DEF Outstanding
    <3> QED BY <1>3, <3>3 DEF OutstandingPredicted
  <2>8. DisplayTimesOrdered'
    <3> SUFFICES ASSUME NEW t \in Outstanding', NEW u \in Outstanding',
                        frames'[t].frame_id < frames'[u].frame_id
                 PROVE  frames'[t].display < frames'[u].display
      BY DEF DisplayTimesOrdered
    <3>1. t \in Slots /\ u \in Slots
      BY DEF Outstanding
    <3>2. CASE t # s /\ u # s
      BY <3>1, <3>2, <2>3, <2>6 DEF PacerInv, DisplayTimesOrdered
    <3>3. CASE t # s /\ u = s
      BY <3>1, <3>3, <1>1, <1>2, <1>6, <2>2, <2>3, <2>6
    <3>4. CASE t = s
      BY <3>1, <3>4, <1>1, <1>6, <2>2, <2>3, <2>6
    <3> QED BY <3>2, <3>3, <3>4
  <2>9. SleepsForItsFrame'
    <3>1. Index(frame_counter)' = s
      BY <1>3 DEF Index, s, id
    <3> QED BY <3>1, <1>3, <2>2, <2>3 DEF SleepsForItsFrame
  <2> QED BY <2>4, <2>5, <2>7, <2>8, <2>9 DEF PacerInv
<1>8. CASE frames[s] # Ready
  <2>1. UNCHANGED frames /\ aborted' = TRUE
    BY <1>8 DEF Predict
  <2> HIDE DEF s, display, id
  <2>2. aborted' \in BOOLEAN
    BY <2>1
  <2>3. TypeOK'
    BY <1>1, <1>2, <1>3, <1>4, <2>1, <2>2 DEF PacerInv, TypeOK
  <2>4. StampsOrdered'
    BY <1>3, <2>1 DEF PacerInv, StampsOrdered
  <2>5. OutstandingPredicted'
    <3>1. \A n \in 1 .. frame_counter : n \in 1 .. id
      BY <1>1
    <3> QED
      BY <1>1, <1>2, <1>3, <1>6, <2>1, <3>1
         DEF OutstandingPredicted, Outstanding
  <2>6. DisplayTimesOrdered'
    BY <2>1 DEF PacerInv, DisplayTimesOrdered, Outstanding
  <2>7. SleepsForItsFrame'
    BY <2>1 DEF SleepsForItsFrame
  <2> QED BY <2>3, <2>4, <2>5, <2>6, <2>7 DEF PacerInv
<1> QED BY <1>7, <1>8

-----------------------------------------------------------------------------
(***************************************************************************)
(* The invariant of the pacer: every call of u_pacing_app.c keeps it.      *)
(***************************************************************************)
THEOREM PacerInvariant == Spec => []PacerInv
<1>1. PacerInv /\ [Next]_vars => PacerInv'
  BY QuietKeepsInv, BeginKeepsInv, DeliverKeepsInv, DiscardKeepsInv,
     GpuDoneKeepsInv, WakeUpKeepsInv, PredictKeepsInv
     DEF Next, Running, Finished
<1> QED
  BY <1>1, InitPacerInv, PTL DEF Spec

(***************************************************************************)
(* The ring, the estimates and the times keep their types: the times a     *)
(* frame's parts took, which pa_mark_gpu_done feeds into the filters, are  *)
(* never negative.                                                         *)
(***************************************************************************)
THEOREM TypeCorrect == Spec => []TypeOK
<1>1. PacerInv => TypeOK
  BY DEF PacerInv
<1> QED BY <1>1, PacerInvariant, PTL

(***************************************************************************)
(* Frames in the ring are displayed in the order pa_predict handed them    *)
(* out in, whatever periods and leads the native compositor reports.       *)
(***************************************************************************)
THEOREM DisplaysInOrder == Spec => []DisplayTimesOrdered
<1>1. PacerInv => DisplayTimesOrdered
  BY DEF PacerInv
<1> QED BY <1>1, PacerInvariant, PTL

(***************************************************************************)
(* pa_mark_point(WAKE_UP) finds its frame in the slot pa_predict put it    *)
(* into: nothing the session, the GPU or the native compositor does while  *)
(* the application sleeps makes the slot another frame's.                  *)
(***************************************************************************)
THEOREM WakesForItsFrame == Spec => []SleepsForItsFrame
<1>1. PacerInv => SleepsForItsFrame
  BY DEF PacerInv
<1> QED BY <1>1, PacerInvariant, PTL

-----------------------------------------------------------------------------
(* The predicted display time. *)

LEMMA AppPeriodIsWhole ==
  ASSUME TypeOK
  PROVE  \E m \in Int : calc_app_period = last_input.period * m
<1> DEFINE step == last_input.period
           cpu == app.cpu - 1
           draw == app.draw - 1
           gpu == app.gpu - 1
           p1 == Advance(step, cpu, step)
           p2 == Advance(p1, draw, step)
<1>1. calc_app_period = Advance(p2, gpu, step)
  BY DEF calc_app_period
<1>2. step \in Nat \ {0} /\ step \in Int
  <2>1. last_input.period \in Nat \ {0}
    BY ConstantsAssumption DEF TypeOK
  <2> QED BY <2>1
<1>3. cpu \in Int /\ draw \in Int /\ gpu \in Int
  BY DEF TypeOK
<1> HIDE DEF step, cpu, draw, gpu
<1>4. PICK i \in Int : p1 = step + step * i
  BY <1>2, <1>3, AdvanceSteps
<1>5. p1 \in Int
  BY <1>2, <1>3, AdvanceCorrect
<1> HIDE DEF p1
<1>6. PICK j \in Int : p2 = p1 + step * j
  BY <1>2, <1>3, <1>5, AdvanceSteps
<1>7. p2 \in Int
  BY <1>2, <1>3, <1>5, AdvanceCorrect
<1> HIDE DEF p2
<1>8. PICK k \in Int : calc_app_period = p2 + step * k
  BY <1>1, <1>2, <1>3, <1>7, AdvanceSteps
<1>9. calc_app_period = step * (1 + i + j + k)
  <2>1. step * (1 + i + j + k) = step + step * i + step * j + step * k
    BY <1>2
  <2>2. step * i \in Int /\ step * j \in Int /\ step * k \in Int
    BY <1>2
  <2> QED BY <1>2, <1>4, <1>6, <1>8, <2>1, <2>2
<1> QED BY <1>9 DEF step

\* What pa_predict returns, for a time that was read before.
LEMMA PredictedTime ==
  ASSUME TypeOK
  PROVE  LET display == predict_display_time(sampled)
             earliest == sampled + total_app_and_compositor_time
             half == last_returned + calc_app_period \div 2
         IN  /\ display >= last_input.display
             /\ (display - last_input.display) % last_input.period = 0
             /\ display > half
             /\ display > earliest
             /\ \/ display = last_input.display
                \/ display - last_input.period <= earliest
                \/ display - calc_app_period <= half
<1> DEFINE d == last_input.display
           step == last_input.period
           large == calc_app_period
           half == last_returned + calc_app_period \div 2
           earliest == sampled + total_app_and_compositor_time
           after == Advance(d, half, large)
           display == predict_display_time(sampled)
<1>1. d \in Int /\ step \in Nat \ {0} /\ large \in Nat \ {0}
  BY PeriodsPositive DEF TypeOK
<1>2. half \in Int
  <2>1. last_returned \in Int /\ calc_app_period \div 2 \in Int
    BY <1>1, DivisionWithRest DEF TypeOK
  <2> QED BY <2>1
<1>3. earliest \in Int
  BY PeriodsPositive DEF TypeOK
<1>4. display = Advance(after, earliest, step)
  BY DEF predict_display_time
<1>5. PICK m \in Int : large = step * m
  BY AppPeriodIsWhole
<1> HIDE DEF d, step, large, half, earliest, display
<1>6. /\ after \in Int /\ after > half /\ after >= d
      /\ after = d \/ after - large <= half
  BY <1>1, <1>2, AdvanceCorrect
<1>7. PICK i \in Int : after = d + large * i
  BY <1>1, <1>2, AdvanceSteps
<1> HIDE DEF after
<1>8. /\ display \in Int /\ display > earliest /\ display >= after
      /\ display = after \/ display - step <= earliest
  BY <1>1, <1>3, <1>4, <1>6, AdvanceCorrect
<1>9. PICK j \in Int : display = after + step * j
  BY <1>1, <1>3, <1>4, <1>6, AdvanceSteps
<1>10. (display - d) % step = 0
  <2>1. large * i = step * (m * i) /\ m * i \in Int
    BY <1>1, <1>5
  <2>2. step * (m * i) + step * j = step * (m * i + j) /\ m * i + j \in Int
    BY <1>1, <2>1
  <2>3. step * j \in Int /\ step * (m * i) \in Int
    BY <1>1, <2>1
  <2>4. display - d = step * (m * i + j)
    BY <1>1, <1>7, <1>9, <2>1, <2>2, <2>3
  <2> QED BY <1>1, <2>2, <2>4, NoRest
<1>11. display >= d /\ display > half
  BY <1>1, <1>2, <1>6, <1>8
<1>12. display = d \/ display - step <= earliest \/ display - large <= half
  BY <1>6, <1>8
<1> QED BY <1>8, <1>10, <1>11, <1>12
        DEF d, step, large, half, earliest, display

(***************************************************************************)
(* pa_predict returns a time the display has, that leaves time for the     *)
(* work of the frame, and the first such time after the frame before: for  *)
(* any period and lead, and any estimates the pacer has come to.           *)
(***************************************************************************)
THEOREM SoonestIsPredicted == Spec => SoonestDisplay
<1>1. TypeOK /\ [Next]_vars =>
        [frame_counter' # frame_counter =>
           LET display == last_returned'
               earliest == sampled + total_app_and_compositor_time
           IN  /\ display >= last_input.display
               /\ (display - last_input.display) % last_input.period = 0
               /\ display > last_returned + calc_app_period \div 2
               /\ display > earliest
               /\ \/ display = last_input.display
                  \/ display - last_input.period <= earliest
                  \/ display - calc_app_period
                       <= last_returned + calc_app_period \div 2]_vars
  <2> SUFFICES ASSUME TypeOK, Next, frame_counter' # frame_counter
               PROVE  LET display == last_returned'
                          earliest == sampled + total_app_and_compositor_time
                      IN  /\ display >= last_input.display
                          /\ (display - last_input.display)
                                % last_input.period = 0
                          /\ display > last_returned + calc_app_period \div 2
                          /\ display > earliest
                          /\ \/ display = last_input.display
                             \/ display - last_input.period <= earliest
                             \/ display - calc_app_period
                                  <= last_returned + calc_app_period \div 2
    BY DEF vars
  <2>1. Predict
    BY DEF Next, Running, Finished, SampleNow, WakeUp, Begin, Discard, Deliver,
           GpuDone, Info, Tick, FrameUnchanged, vars
  <2>2. last_returned' = predict_display_time(sampled)
    BY <2>1 DEF Predict
  <2> QED BY <2>2, PredictedTime
<1> QED BY <1>1, TypeCorrect, PTL DEF Spec, SoonestDisplay

-----------------------------------------------------------------------------
(* Why the assertion on the slot of a new frame fails. *)

Waiting == {"PREDICTED", "WAIT_LEFT"}

\* Until an assertion fails, the ring has the frames of one round: the latest
\* one waits or is begun, the one before it is begun until then.
RingInv ==
  ~aborted =>
    /\ \A s \in Slots : frames[s].state = "READY" => frames[s] = Ready
    /\ \A s \in Outstanding : /\ Index(frames[s].frame_id) = s
                              /\ frames[s].frame_id > frame_counter - FrameCount
    /\ \A s \in InState(Waiting) : frames[s].frame_id = frame_counter
    /\ \A s \in InState({"BEGUN"}) :
         \/ frames[s].frame_id = frame_counter
         \/ InState(Waiting) # {} /\ frames[s].frame_id = frame_counter - 1
    /\ wpc = "predict" => InState(Waiting) = {}

LapInv == RingInv /\ AbortsOnlyWhenLapped

LEMMA LapInvInit == Init => LapInv
<1> SUFFICES ASSUME Init PROVE LapInv
  OBVIOUS
<1>1. \A s \in Slots : frames[s] = Ready /\ frames[s].state = "READY"
  BY DEF Init, Ready
<1> QED BY <1>1 DEF Init, LapInv, RingInv, AbortsOnlyWhenLapped, Outstanding,
                    InState, Waiting

\* A step that neither predicts a frame nor changes its place in the ring.
LEMMA MovingOnKeepsRing ==
  ASSUME PacerInv, RingInv, ~aborted, ~aborted',
         UNCHANGED frame_counter,
         \A s \in Slots :
           \/ frames'[s] = Ready
           \/ /\ frames[s].state # "READY" /\ frames'[s].state # "READY"
              /\ frames'[s].frame_id = frames[s].frame_id
           \/ frames'[s] = frames[s]
  PROVE  /\ \A s \in Slots : frames'[s].state = "READY" => frames'[s] = Ready
         /\ \A s \in Outstanding' :
              /\ Index(frames'[s].frame_id) = s
              /\ frames'[s].frame_id > frame_counter' - FrameCount
<1>1. Ready.state = "READY"
  BY DEF Ready
<1>2. \A s \in Outstanding' : s \in Outstanding
        /\ frames'[s].frame_id = frames[s].frame_id
  BY <1>1 DEF Outstanding
<1> QED BY <1>1, <1>2 DEF RingInv, Outstanding

\* Steps that leave the ring alone.
LEMMA QuietKeepsRing ==
  ASSUME RingInv, SampleNow \/ Info \/ Tick \/ UNCHANGED vars
  PROVE  RingInv'
<1>1. /\ UNCHANGED <<frames, frame_counter, aborted>>
      /\ wpc' = "predict" => wpc = "predict" \/ InState(Waiting) = {}
  BY DEF SampleNow, Info, Tick, vars, Waiting
<1> QED BY <1>1 DEF RingInv, Outstanding, InState

LEMMA BeginKeepsRing ==
  ASSUME PacerInv, RingInv, ~aborted, Begin
  PROVE  RingInv'
<1>1. PICK s \in InState({"WAIT_LEFT"}) :
        frames' = [frames EXCEPT ![s].state = "BEGUN", ![s].begin = now]
  BY DEF Begin
<1>2. s \in Slots /\ frames[s].state = "WAIT_LEFT"
  BY <1>1 DEF InState
<1>3. UNCHANGED <<frame_counter, wpc, aborted>>
  BY DEF Begin, FrameUnchanged
<1>4. frames \in [Slots -> FrameRecords]
  BY DEF PacerInv, TypeOK
<1>5. /\ frames'[s].state = "BEGUN" /\ frames'[s].frame_id = frames[s].frame_id
      /\ \A t \in Slots : t # s => frames'[t] = frames[t]
  BY <1>1, <1>2, <1>4, FrameFields DEF FrameRecords
<1>6. /\ frames[s].frame_id = frame_counter
      /\ InState({"BEGUN"}) = {}
      /\ wpc # "predict"
  BY <1>2 DEF Begin, RingInv, InState, Waiting
<1>7. \A t \in InState(Waiting)' : t \in InState(Waiting) /\ t # s
        /\ frames'[t] = frames[t]
  BY <1>5 DEF InState, Waiting
<1>8. \A t \in InState({"BEGUN"})' : t = s
  BY <1>5, <1>6 DEF InState
<1> QED BY <1>2, <1>3, <1>5, <1>6, <1>7, <1>8, MovingOnKeepsRing DEF RingInv

LEMMA DeliverKeepsRing ==
  ASSUME PacerInv, RingInv, ~aborted, Deliver
  PROVE  RingInv'
<1>1. PICK s \in InState({"BEGUN"}) :
        frames' = [frames EXCEPT ![s].state = "DELIVERED", ![s].delivered = now]
  BY DEF Deliver
<1>2. s \in Slots /\ frames[s].state = "BEGUN"
  BY <1>1 DEF InState
<1>3. UNCHANGED <<frame_counter, wpc, aborted>>
  BY DEF Deliver, FrameUnchanged
<1>4. frames \in [Slots -> FrameRecords]
  BY DEF PacerInv, TypeOK
<1>5. /\ frames'[s].state = "DELIVERED"
      /\ frames'[s].frame_id = frames[s].frame_id
      /\ \A t \in Slots : t # s => frames'[t] = frames[t]
  BY <1>1, <1>2, <1>4, FrameFields DEF FrameRecords
<1>6. InState(Waiting)' = InState(Waiting)
      /\ \A t \in InState(Waiting) : frames'[t] = frames[t]
  BY <1>2, <1>5 DEF InState, Waiting
<1>7. \A t \in InState({"BEGUN"})' : t \in InState({"BEGUN"})
        /\ frames'[t] = frames[t]
  BY <1>5 DEF InState
<1> QED BY <1>2, <1>3, <1>5, <1>6, <1>7, MovingOnKeepsRing DEF RingInv

LEMMA DiscardKeepsRing ==
  ASSUME PacerInv, RingInv, ~aborted, Discard
  PROVE  RingInv'
<1>1. PICK S \in {InState({"BEGUN"}), InState({"BEGUN", "WAIT_LEFT"})} :
        frames' = [s \in Slots |-> IF s \in S THEN Ready ELSE frames[s]]
  BY DEF Discard
<1>2. UNCHANGED <<frame_counter, wpc, aborted>>
  BY DEF Discard, FrameUnchanged
<1>3. \A s \in Slots : frames'[s] = Ready \/ frames'[s] = frames[s]
  BY <1>1
<1>4. Ready.state = "READY"
  BY DEF Ready
<1>5. InState({"BEGUN"})' = {}
  BY <1>1, <1>4 DEF InState
<1>6. \A t \in InState(Waiting)' : t \in InState(Waiting)
        /\ frames'[t] = frames[t]
  BY <1>3, <1>4 DEF InState, Waiting
<1> QED BY <1>2, <1>3, <1>5, <1>6, MovingOnKeepsRing DEF RingInv

LEMMA GpuDoneKeepsRing ==
  ASSUME PacerInv, RingInv, ~aborted, GpuDone
  PROVE  RingInv'
<1>1. PICK s \in NextOfTheGpu : frames' = [frames EXCEPT ![s] = Ready]
  BY DEF GpuDone
<1>2. s \in Slots /\ frames[s].state = "DELIVERED"
  BY <1>1 DEF NextOfTheGpu, InState
<1>3. UNCHANGED <<frame_counter, wpc, aborted>>
  BY DEF GpuDone, FrameUnchanged
<1>4. frames \in [Slots -> FrameRecords]
  BY DEF PacerInv, TypeOK
<1>5. frames'[s] = Ready /\ \A t \in Slots : t # s => frames'[t] = frames[t]
  BY <1>1, <1>2, <1>4
<1>6. Ready.state = "READY"
  BY DEF Ready
<1>7. /\ InState(Waiting)' = InState(Waiting)
      /\ InState({"BEGUN"})' = InState({"BEGUN"})
      /\ \A t \in Slots : frames[t].state # "DELIVERED" => frames'[t] = frames[t]
  BY <1>2, <1>5, <1>6 DEF InState, Waiting
<1>8. \A t \in InState(Waiting) \union InState({"BEGUN"}) :
        frames'[t] = frames[t]
  BY <1>7 DEF InState, Waiting
<1> QED BY <1>3, <1>5, <1>7, <1>8, MovingOnKeepsRing DEF RingInv

LEMMA WakeUpKeepsRing ==
  ASSUME PacerInv, RingInv, ~aborted, WakeUp
  PROVE  RingInv' /\ ~aborted'
<1> DEFINE s == Index(frame_counter)
<1>1. s \in Slots
  BY IndexIsSlot DEF PacerInv, TypeOK
<1>2. frames[s].state = "PREDICTED" /\ ~aborted'
  BY WakeUpKeepsInv DEF PacerInv, SleepsForItsFrame, WakeUp
<1>3. /\ frames' = [frames EXCEPT ![s].state = "WAIT_LEFT", ![s].woke = now]
      /\ wpc' = "idle" /\ UNCHANGED frame_counter
  BY DEF WakeUp
<1> HIDE DEF s
<1>4. frames \in [Slots -> FrameRecords]
  BY DEF PacerInv, TypeOK
<1>5. /\ frames'[s].state = "WAIT_LEFT"
      /\ frames'[s].frame_id = frames[s].frame_id
      /\ \A t \in Slots : t # s => frames'[t] = frames[t]
  BY <1>1, <1>3, <1>4, FrameFields DEF FrameRecords
<1>6. /\ InState(Waiting)' = InState(Waiting)
      /\ InState({"BEGUN"})' = InState({"BEGUN"})
      /\ \A t \in Slots : frames'[t].frame_id = frames[t].frame_id
  BY <1>1, <1>2, <1>5 DEF InState, Waiting
<1>7. \A t \in InState(Waiting) \union InState({"BEGUN"}) : t \in Slots
  BY DEF InState
<1>8. \A t \in Slots :
        \/ /\ frames[t].state # "READY" /\ frames'[t].state # "READY"
           /\ frames'[t].frame_id = frames[t].frame_id
        \/ frames'[t] = frames[t]
  BY <1>2, <1>5
<1>9. /\ \A t \in Slots : frames'[t].state = "READY" => frames'[t] = Ready
      /\ \A t \in Outstanding' :
           /\ Index(frames'[t].frame_id) = t
           /\ frames'[t].frame_id > frame_counter' - FrameCount
  BY <1>2, <1>3, <1>8, MovingOnKeepsRing
<1> QED BY <1>2, <1>3, <1>6, <1>7, <1>9 DEF RingInv

\* The new frame's slot is free, or holds the frame of the round before.
LEMMA PredictKeepsRing ==
  ASSUME FrameCount > 1, PacerInv, RingInv, ~aborted, Predict
  PROVE  RingInv' /\ AbortsOnlyWhenLapped'
<1> DEFINE id == frame_counter + 1
           s == Index(id)
<1>1. frame_counter \in Nat /\ id \in Nat /\ s \in Slots
      /\ FrameCount \in Nat \ {0}
  BY IndexIsSlot, ConstantsAssumption DEF PacerInv, TypeOK
<1>2. /\ frame_counter' = id /\ wpc = "predict" /\ wpc' = "sleep"
  BY DEF Predict
<1>3. InState(Waiting) = {}
  BY <1>2 DEF RingInv
<1>4. \A t \in Outstanding :
        /\ frames[t].frame_id \in Int /\ frames[t].frame_id <= frame_counter
        /\ frames[t].frame_id >= id - FrameCount
        /\ frames[t].frame_id = id - FrameCount => t = s
        /\ t = s => frames[t].frame_id = id - FrameCount
  <2> SUFFICES ASSUME NEW t \in Outstanding
               PROVE  /\ frames[t].frame_id \in Int
                      /\ frames[t].frame_id <= frame_counter
                      /\ frames[t].frame_id >= id - FrameCount
                      /\ frames[t].frame_id = id - FrameCount => t = s
                      /\ t = s => frames[t].frame_id = id - FrameCount
    OBVIOUS
  <2> DEFINE f == frames[t].frame_id
  <2>1. /\ f \in 1 .. frame_counter /\ f > frame_counter - FrameCount
        /\ Index(f) = t
    BY DEF PacerInv, OutstandingPredicted, RingInv
  <2> HIDE DEF f
  <2>2. f \in Int /\ f <= frame_counter /\ f >= id - FrameCount
    BY <1>1, <2>1
  <2>3. ASSUME f = id - FrameCount PROVE t = s
    <3>1. id = f + FrameCount
      BY <1>1, <2>2, <2>3
    <3>2. (f + FrameCount) % FrameCount = f % FrameCount
      BY <1>1, <2>2, RoundLater
    <3> QED BY <2>1, <3>1, <3>2 DEF Index, s
  <2>4. ASSUME t = s PROVE f = id - FrameCount
    <3>1. f % FrameCount = id % FrameCount
      BY <2>1, <2>4 DEF Index, s
    <3>2. f <= id /\ f \in Int /\ id \in Int
      BY <1>1, <2>2
    <3>3. f # id
      BY <1>1, <2>2
    <3>4. ~(id - f < FrameCount)
      <4> HIDE DEF id
      <4> QED BY <1>1, <3>1, <3>2, <3>3, SameRest
    <3> QED BY <1>1, <2>2, <3>4
  <2> QED BY <2>2, <2>3, <2>4 DEF f
<1>5. CASE frames[s] = Ready
  <2> DEFINE f == [Ready EXCEPT !.frame_id = id, !.state = "PREDICTED",
                     !.display = predict_display_time(sampled)]
  <2>1. frames' = [frames EXCEPT ![s] = f] /\ UNCHANGED aborted
    BY <1>5 DEF Predict
  <2>2. f.frame_id = id /\ f.state = "PREDICTED" /\ Ready.state = "READY"
    BY DEF Ready
  <2> HIDE DEF f
  <2>3. frames'[s] = f /\ \A t \in Slots : t # s => frames'[t] = frames[t]
    BY <1>1, <2>1 DEF PacerInv, TypeOK
  <2> HIDE DEF s, id
  <2>4. \A t \in Outstanding' : t = s \/ (t # s /\ t \in Outstanding)
    BY <2>3 DEF Outstanding
  <2>5. \A t \in Slots : frames'[t].state = "READY" => frames'[t] = Ready
    BY <2>2, <2>3 DEF RingInv
  <2>6. id > id - FrameCount
    BY <1>1
  <2>7. \A t \in Outstanding :
          t # s => frames[t].frame_id > id - FrameCount
                   /\ Index(frames[t].frame_id) = t
    BY <1>1, <1>4 DEF RingInv
  <2>8. \A t \in Outstanding' : /\ Index(frames'[t].frame_id) = t
                                /\ frames'[t].frame_id > id - FrameCount
    BY <2>2, <2>3, <2>4, <2>6, <2>7 DEF s, Outstanding
  <2>9. \A t \in InState(Waiting)' : t = s
    BY <1>3, <2>3 DEF InState
  <2>10. s \in InState(Waiting)'
    BY <1>1, <2>2, <2>3 DEF InState, Waiting
  <2>11. \A t \in InState({"BEGUN"})' :
           t \in InState({"BEGUN"}) /\ frames'[t] = frames[t]
    BY <2>2, <2>3 DEF InState
  <2>12. \A t \in InState({"BEGUN"}) : frames[t].frame_id = frame_counter
    BY <1>3 DEF RingInv
  <2>13. frame_counter = id - 1
    BY <1>1 DEF id
  <2>14. RingInv'
    BY <1>2, <2>2, <2>3, <2>5, <2>8, <2>9, <2>10, <2>11, <2>12, <2>13
    DEF RingInv
  <2> QED BY <2>1, <2>14 DEF AbortsOnlyWhenLapped
<1>6. CASE frames[s] # Ready
  <2>1. UNCHANGED frames /\ aborted' = TRUE
    BY <1>6 DEF Predict
  <2> HIDE DEF s, id
  <2>2. s \in Outstanding
    BY <1>1, <1>6 DEF RingInv, Outstanding
  <2>3. frames[s].frame_id = id - FrameCount
    BY <1>4, <2>2
  <2>4. frames[s].state \notin Waiting
    BY <1>1, <1>3 DEF InState
  <2>5. frames[s].state # "BEGUN"
    <3>1. frame_counter # id - FrameCount
      BY <1>1 DEF id
    <3> QED BY <1>1, <1>3, <2>3, <3>1 DEF RingInv, InState
  <2>6. frames[s].state \in FrameStates
    BY <1>1 DEF PacerInv, TypeOK, FrameRecords
  <2>7. frames[s].state = "DELIVERED"
    BY <2>2, <2>4, <2>5, <2>6 DEF FrameStates, Waiting, Outstanding
  <2> QED BY <1>1, <1>2, <2>1, <2>3, <2>7 DEF RingInv, AbortsOnlyWhenLapped
<1> QED BY <1>5, <1>6

LEMMA LapInvStep ==
  ASSUME FrameCount > 1, PacerInv, LapInv, [Next]_vars
  PROVE  LapInv'
<1>1. CASE UNCHANGED vars
  BY <1>1, QuietKeepsRing DEF LapInv, AbortsOnlyWhenLapped, vars
<1>2. CASE ~aborted /\ Running
  <2>1. CASE Predict
    BY <1>2, <2>1, PredictKeepsRing DEF LapInv
  <2>2. CASE WakeUp
    BY <1>2, <2>2, WakeUpKeepsRing DEF LapInv, AbortsOnlyWhenLapped
  <2>3. CASE SampleNow \/ Info \/ Tick
    BY <1>2, <2>3, QuietKeepsRing
    DEF LapInv, AbortsOnlyWhenLapped, SampleNow, Info, Tick
  <2>4. CASE Begin \/ Discard \/ Deliver \/ GpuDone
    BY <1>2, <2>4, BeginKeepsRing, DiscardKeepsRing, DeliverKeepsRing,
       GpuDoneKeepsRing
    DEF LapInv, AbortsOnlyWhenLapped, Begin, Discard, Deliver, GpuDone,
        FrameUnchanged
  <2> QED BY <1>2, <2>1, <2>2, <2>3, <2>4 DEF Running
<1> QED BY <1>1, <1>2 DEF Next, Finished

(***************************************************************************)
(* The assertion that a new frame finds its slot free fails only when the  *)
(* GPU has not finished a frame that is a whole round of the ring older,   *)
(* and no other assertion of the pacer fails at all.  A ring of one slot   *)
(* would fail with a frame that is begun; FRAME_COUNT is 128.              *)
(***************************************************************************)
THEOREM OnlyALapAborts ==
  ASSUME FrameCount > 1
  PROVE  Spec => []AbortsOnlyWhenLapped
<1>1. PacerInv /\ LapInv /\ [Next]_vars => LapInv'
  BY LapInvStep
<1>2. LapInv => AbortsOnlyWhenLapped
  BY DEF LapInv
<1> QED BY <1>1, <1>2, LapInvInit, PacerInvariant, PTL DEF Spec

-----------------------------------------------------------------------------
(* The closed form is what the loops of u_pacing_app.c compute. *)

\* while (val <= bound) val += step; stops at r, after k steps.
StopsAt(val, bound, step, r) ==
  \E k \in Nat : /\ r = val + step * k
                 /\ r > bound
                 /\ k = 0 \/ r - step <= bound

LEMMA AdvanceStops ==
  ASSUME NEW val \in Int, NEW bound \in Int, NEW step \in Nat \ {0}
  PROVE  StopsAt(val, bound, step, Advance(val, bound, step))
<1> DEFINE r == Advance(val, bound, step)
<1>1. PICK k \in Int : r = val + step * k
  BY AdvanceSteps
<1>2. /\ r \in Int /\ r > bound /\ r >= val
      /\ r = val \/ r - step <= bound
  BY AdvanceCorrect
<1> HIDE DEF r
<1>3. CASE r = val
  <2>1. r = val + step * 0
    BY <1>3
  <2> QED BY <1>2, <2>1 DEF StopsAt, r
<1>4. CASE r # val
  <2>1. step * k > 0
    BY <1>1, <1>2, <1>4
  <2>2. CASE k <= 0
    <3>1. step * k <= 0
      BY <2>2
    <3> QED BY <2>1, <3>1
  <2>3. CASE k > 0
    BY <1>1, <1>2, <1>4, <2>3 DEF StopsAt, r
  <2> QED BY <2>2, <2>3
<1> QED BY <1>3, <1>4

\* A value after fewer steps is a step or more below a value after more.
LEMMA FewerSteps ==
  ASSUME NEW val \in Int, NEW step \in Nat \ {0},
         NEW k \in Nat, NEW l \in Nat, k < l
  PROVE  val + step * k <= val + step * l - step
<1>1. l - 1 - k \in Nat /\ step * (l - 1 - k) >= 0
  OBVIOUS
<1>2. step * (l - 1 - k) = step * l - step - step * k
  BY <1>1
<1>3. step * l \in Int /\ step * k \in Int
  OBVIOUS
<1> QED BY <1>1, <1>2, <1>3

\* A loop stops at one value only, the smallest it takes above the bound.
LEMMA StopsAtLeast ==
  ASSUME NEW val \in Int, NEW bound \in Int, NEW step \in Nat \ {0},
         NEW r, StopsAt(val, bound, step, r),
         NEW k \in Nat, val + step * k > bound
  PROVE  r \in Int /\ r <= val + step * k
<1>1. PICK l \in Nat : r = val + step * l /\ r > bound
                         /\ (l = 0 \/ r - step <= bound)
  BY DEF StopsAt
<1>2. step * l \in Int /\ step * k \in Int
  OBVIOUS
<1>3. CASE k < l
  <2>1. val + step * k <= val + step * l - step
    BY <1>3, FewerSteps
  <2> QED BY <1>1, <1>2, <1>3, <2>1
<1>4. CASE l < k
  <2>1. val + step * l <= val + step * k - step
    BY <1>4, FewerSteps
  <2> QED BY <1>1, <1>2, <2>1
<1> QED BY <1>1, <1>2, <1>3, <1>4

LEMMA StopsOnce ==
  ASSUME NEW val \in Int, NEW bound \in Int, NEW step \in Nat \ {0},
         NEW r, StopsAt(val, bound, step, r),
         NEW s, StopsAt(val, bound, step, s)
  PROVE  r = s
<1>1. PICK k \in Nat : r = val + step * k /\ r > bound
  BY DEF StopsAt
<1>2. PICK l \in Nat : s = val + step * l /\ s > bound
  BY DEF StopsAt
<1>3. s \in Int /\ s <= r
  BY <1>1, StopsAtLeast
<1>4. r \in Int /\ r <= s
  BY <1>2, StopsAtLeast
<1> QED BY <1>3, <1>4

\* One loop after another, with the same step, stops where one loop with the
\* larger of their bounds does.
LEMMA LoopAfterLoop ==
  ASSUME NEW val \in Int, NEW a \in Int, NEW b \in Int,
         NEW step \in Nat \ {0}, NEW m \in {a, b}, m >= a, m >= b
  PROVE  Advance(Advance(val, a, step), b, step) = Advance(val, m, step)
<1> DEFINE p == Advance(val, a, step)
           q == Advance(p, b, step)
<1>1. p \in Int /\ StopsAt(val, a, step, p)
  BY AdvanceCorrect, AdvanceStops
<1>2. StopsAt(p, b, step, q)
  <2> HIDE DEF p
  <2> QED BY <1>1, AdvanceStops
<1>3. StopsAt(val, m, step, Advance(val, m, step))
  BY AdvanceStops
<1> HIDE DEF p, q
<1>4. PICK i \in Nat : p = val + step * i /\ p > a
                         /\ (i = 0 \/ p - step <= a)
  BY <1>1 DEF StopsAt
<1>5. PICK j \in Nat : q = p + step * j /\ q > b
                         /\ (j = 0 \/ q - step <= b)
  BY <1>2 DEF StopsAt
<1>6. step * i \in Int /\ step * j \in Int /\ step * j >= 0
  OBVIOUS
<1>7. q = val + step * (i + j) /\ i + j \in Nat
  BY <1>4, <1>5, <1>6
<1>8. q > m
  BY <1>4, <1>5, <1>6
<1>9. i + j = 0 \/ q - step <= m
  <2>1. CASE j = 0
    BY <1>4, <1>5, <1>6, <2>1
  <2>2. CASE j # 0
    BY <1>4, <1>5, <1>6, <2>2
  <2> QED BY <2>1, <2>2
<1>10. StopsAt(val, m, step, q)
  BY <1>7, <1>8, <1>9 DEF StopsAt
<1> QED BY <1>3, <1>10, StopsOnce DEF p, q

\* The value TLC finds by trying the steps one by one is the closed form.
LEMMA LoopIsAdvance ==
  ASSUME NEW val \in Int, NEW bound \in Int, NEW step \in Nat \ {0}
  PROVE  LoopResult(val, bound, step) = Advance(val, bound, step)
<1> DEFINE r == Advance(val, bound, step)
           steps == IF val > bound THEN 0 ELSE bound - val + 1
           S == {v \in {val + k * step : k \in 0 .. steps} : v > bound}
<1>1. StopsAt(val, bound, step, r)
  BY AdvanceStops
<1> HIDE DEF r
<1>2. PICK k \in Nat : r = val + step * k /\ r > bound
                         /\ (k = 0 \/ r - step <= bound)
  BY <1>1 DEF StopsAt
<1>3. step * k \in Int /\ step * k = k * step
  OBVIOUS
<1>4. steps \in Nat
  OBVIOUS
<1>5. k <= steps
  <2>1. CASE k = 0
    BY <1>4, <2>1
  <2>2. CASE k # 0
    <3>1. step * (k - 1) = step * k - step
      OBVIOUS
    <3>2. step * (k - 1) >= k - 1
      BY <2>2
    <3> QED BY <1>2, <1>3, <2>2, <3>1, <3>2
  <2> QED BY <2>1, <2>2
<1>6. r \in S
  <2>1. r = val + k * step
    BY <1>2, <1>3
  <2> QED BY <1>2, <1>4, <1>5, <2>1
<1>7. \A v \in S : v \in Int /\ r <= v
  <2> SUFFICES ASSUME NEW l \in 0 .. steps, val + l * step > bound
               PROVE  val + l * step \in Int /\ r <= val + l * step
    OBVIOUS
  <2>1. l \in Nat /\ l * step = step * l /\ step * l \in Int
    BY <1>4
  <2> QED BY <1>1, <2>1, StopsAtLeast
<1> HIDE DEF S
<1>8. \A v \in S : (\A w \in S : v <= w) => v = r
  BY <1>6, <1>7
<1>9. Min(S) = r
  BY <1>6, <1>7, <1>8 DEF Min
<1> QED BY <1>9 DEF LoopResult, S, r

LEMMA PredictsAsTheLoops ==
  ASSUME TypeOK
  PROVE  PredictionIsTheLoops
<1> DEFINE step == last_input.period
           longest == Max({app.cpu, app.draw, app.gpu})
<1>1. /\ step \in Nat \ {0} /\ step \in Int
      /\ app.cpu \in Nat /\ app.draw \in Nat /\ app.gpu \in Nat
  <2>1. last_input.period \in Nat \ {0}
    BY ConstantsAssumption DEF TypeOK
  <2> QED BY <2>1 DEF TypeOK
<1>2. /\ longest \in {app.cpu, app.draw, app.gpu}
      /\ longest >= app.cpu /\ longest >= app.draw /\ longest >= app.gpu
  <2> DEFINE S == {app.cpu, app.draw, app.gpu}
  <2>1. \E x \in S : \A y \in S : x >= y
    BY <1>1
  <2>2. Max(S) \in S /\ \A y \in S : Max(S) >= y
    <3> HIDE DEF S
    <3> QED BY <2>1 DEF Max
  <2> QED BY <2>2
<1> DEFINE cpu == app.cpu - 1
           draw == app.draw - 1
           gpu == app.gpu - 1
           top == longest - 1
<1>3. /\ cpu \in Int /\ draw \in Int /\ gpu \in Int
      /\ top \in {cpu, draw, gpu} /\ top \in Int
      /\ top >= cpu /\ top >= draw /\ top >= gpu
  <2> HIDE DEF longest
  <2> QED BY <1>1, <1>2
<1>4. calc_app_period =
        Advance(Advance(Advance(step, cpu, step), draw, step), gpu, step)
  BY DEF calc_app_period
<1> HIDE DEF step, longest, cpu, draw, gpu, top
<1>5. PICK m \in {cpu, draw} : m >= cpu /\ m >= draw
  BY <1>3
<1>6. calc_app_period = Advance(Advance(step, m, step), gpu, step)
  BY <1>1, <1>3, <1>4, <1>5, LoopAfterLoop
<1>7. m \in Int
  BY <1>3, <1>5
<1>8. top \in {m, gpu} /\ top >= m /\ top >= gpu
  BY <1>3, <1>5
<1>9. calc_app_period = Advance(step, top, step)
  BY <1>1, <1>3, <1>6, <1>7, <1>8, LoopAfterLoop
<1> DEFINE large == LoopResult(step, longest - 1, step)
<1>10. calc_app_period = large
  BY <1>1, <1>3, <1>9, LoopIsAdvance DEF top
<1> DEFINE half == last_returned + large \div 2
           after == LoopResult(last_input.display, half, large)
           earliest == sampled + total_app_and_compositor_time
<1>11. /\ large \in Nat \ {0} /\ last_input.display \in Int
       /\ half \in Int /\ earliest \in Int
  <2>1. large \in Nat \ {0} /\ earliest \in Int
    BY <1>10, PeriodsPositive DEF TypeOK
  <2>2. last_input.display \in Int /\ last_returned \in Int
    BY DEF TypeOK
  <2> HIDE DEF large
  <2> QED BY <2>1, <2>2, DivisionWithRest
<1> HIDE DEF large, earliest
<1>12. after = Advance(last_input.display, half, large)
  <2> HIDE DEF half
  <2> QED BY <1>11, LoopIsAdvance
<1>13. after \in Int
  <2> HIDE DEF half
  <2> QED BY <1>11, <1>12, AdvanceCorrect
<1>14. predict_display_time(sampled) = Advance(after, earliest, step)
  BY <1>10, <1>12 DEF predict_display_time, earliest, step
<1> HIDE DEF after
<1>15. predict_display_time(sampled) = LoopResult(after, earliest, step)
  BY <1>1, <1>11, <1>13, <1>14, LoopIsAdvance
<1> QED BY <1>10, <1>15
        DEF PredictionIsTheLoops, step, longest, large, after, earliest

(***************************************************************************)
(* What the pacer predicts is what the loops of calc_app_period and        *)
(* predict_display_time stop at when they are run step by step, for every  *)
(* period, lead, estimate and time; and its assertions hold but for that   *)
(* of a ring that came round.                                              *)
(***************************************************************************)
THEOREM PredictsByItsLoops ==
  ASSUME FrameCount > 1
  PROVE  Spec => []PacerIsItsLoops
<1>1. TypeOK /\ AbortsOnlyWhenLapped => PacerIsItsLoops
  BY PredictsAsTheLoops DEF PacerIsItsLoops
<1> QED BY <1>1, TypeCorrect, OnlyALapAborts, PTL
=============================================================================
