---------------------------- MODULE PlanRunProofs ---------------------------
(***************************************************************************)
(* The two halves of pipeline.py that no search decides.                   *)
(*                                                                         *)
(* A job: what it leaves on the machine and what it reports, for any list  *)
(* of jobs, any number of GPUs and any number of faults.  RunnerInv is its *)
(* inductive invariant.  The parts hardly depend on one another: the types *)
(* and the places of a job are kept first, and each of the others has a    *)
(* lemma that goes through the actions it is about.                        *)
(*                                                                         *)
(* The planner: what it keeps is what fits, for any machine, model,        *)
(* request and sizes of the files.  PlannerInv is its inductive invariant; *)
(* PlannerSteps sorts the actions into what they do to the plans.  The     *)
(* names it gives to configurations tell servers apart, as every stage of  *)
(* a search keeps the shape of its engine's grid.                          *)
(***************************************************************************)
EXTENDS Runner, Planner, TLAPS, SequenceTheorems, FiniteSetTheorems, WellFoundedInduction

-----------------------------------------------------------------------------
(* A job.                                                                  *)

\* The jobs, as the proofs use them.
LEMMA JobIs ==
  ASSUME TypeOKRunner
  PROVE  /\ Kind \in {"none", "trial", "sweep", "replicas", "pair", "serve"}
         /\ job.n \in 0..NGpus
         /\ job.settings \in Seq(Setting)
         /\ Kind \in {"trial", "sweep"} => job.n = 1
         /\ Kind = "pair" => job.n = 2
         /\ Kind \in {"trial", "replicas"} => Len(job.settings) = 1
         /\ Kind \in {"serve", "none"} <=> job.settings = <<>>
         /\ Kind = "none" => job.n = 0
<1>1. CASE job = NoJob
  BY <1>1, BoundsAssumption DEF NoJob, Kind
<1>2. CASE job \in Jobs
  BY <1>2, JobsAssumption, BoundsAssumption DEF Kind
<1> QED BY <1>1, <1>2 DEF TypeOKRunner

\* A failed result for each of the settings, in their order.
LEMMA FailedReports ==
  ASSUME NEW settings \in Seq(Setting), device \in Setting \cup {"mixed"}
  PROVE  /\ Failed(settings) \in Seq(Result)
         /\ Len(Failed(settings)) = Len(settings)
         /\ \A i \in 1..Len(settings) :
              Failed(settings)[i].setting = settings[i] /\ ~Failed(settings)[i].ok
  BY DEF Failed, Result

LEMMA InitRunner == Init => RunnerInv
<1> SUFFICES ASSUME Init PROVE RunnerInv
  OBVIOUS
<1>1. TypeOKRunner
  <2>1. todo \in Seq(Setting) /\ results \in Seq(Result)
    BY DEF Init
  <2>2. ran \in 0..MaxJobs /\ device \in Setting \cup {"mixed"} /\ applied \in Setting
    BY BoundsAssumption, SettingAssumption DEF Init, Default
  <2> QED BY <2>1, <2>2, Zenon DEF Init, TypeOKRunner
<1>2. KindAgrees /\ BookComplete
  BY DEF Init, KindAgrees, BookComplete, Kind, NoJob
<1>3. MeterTrue /\ MeasuredUnderItsSetting
  BY DEF Init, MeterTrue, MeasuredUnderItsSetting
<1>4. NothingHeld
  BY DEF Init, NothingHeld
<1> QED BY <1>1, <1>2, <1>3, <1>4 DEF RunnerInv

-----------------------------------------------------------------------------
(* The order in which engines are started and stopped.                     *)

\* A set of naturals that is not empty has a least element.
LEMMA LeastOf ==
  ASSUME NEW S \in SUBSET Nat, S # {}
  PROVE  \E x \in S : \A y \in S : x <= y
<1>1. PICK x \in S : \A y \in S : ~(<<y, x>> \in OpToRel(<, Nat))
  BY WFMin, NatLessThanWellFounded
<1>2. \A y \in S : ~(y < x)
  BY <1>1 DEF OpToRel
<1> QED BY <1>2

\* While an engine is still to be launched, Launch takes one of those.
LEMMA NextIsOff ==
  ASSUME TypeOKRunner, Launching
  PROVE  Next1 \in 1..job.n /\ engine[Next1] = "off"
<1> DEFINE Off == {g \in 1..job.n : engine[g] = "off"}
<1>1. job.n \in Nat
  BY JobIs, BoundsAssumption
<1>2. Off # {} /\ Off \in SUBSET Nat
  BY <1>1 DEF Launching
<1>3. PICK g \in Off : \A h \in Off : g <= h
  BY <1>2, LeastOf
<1>4. \A h \in 1..(g - 1) : engine[h] # "off"
  BY <1>1, <1>3
<1> QED BY <1>3, <1>4 DEF Next1

\* While an engine is held, the next one to stop is one of those.
LEMMA NextIsHeld ==
  ASSUME TypeOKRunner, Held # {}
  PROVE  NextToStop \in Held
<1>1. Held \in SUBSET Nat /\ Held \subseteq 1..job.n /\ job.n \in Nat
  BY JobIs, BoundsAssumption DEF Held
<1>2. CASE Kind = "pair"
  <2>1. Held \subseteq {1, 2}
    BY <1>1, <1>2, JobIs
  <2>2. \E g \in Held : \A h \in Held : h <= g
    <3>1. CASE 2 \in Held
      <4>1. \A h \in Held : h <= 2
        BY <2>1
      <4> QED BY <3>1, <4>1
    <3>2. CASE 2 \notin Held
      <4>1. \A h \in Held : h = 1
        BY <2>1, <3>2, Zenon
      <4> QED BY <4>1
    <3> QED BY <3>1, <3>2
  <2> QED BY <1>2, <2>2 DEF NextToStop
<1>3. CASE Kind # "pair"
  <2>1. PICK g \in Held : \A h \in Held : g <= h
    BY <1>1, LeastOf
  <2> QED BY <1>3, <2>1 DEF NextToStop
<1> QED BY <1>2, <1>3

-----------------------------------------------------------------------------
(* Types.                                                                  *)

LEMMA NextTyped ==
  ASSUME TypeOKRunner, BookComplete, [Next]_rvars
  PROVE  TypeOKRunner'
<1>d. pc \in {"set", "measure"} => todo # <<>> /\ Head(todo) \in Setting /\ Tail(todo) \in Seq(Setting)
  BY DEF BookComplete, TypeOKRunner
<1>a. GPUs = 1..NGpus /\ NGpus \in Nat /\ MaxJobs \in Nat
  BY BoundsAssumption DEF GPUs
<1>b. job.settings \in Seq(Setting) /\ job.n \in 0..NGpus
  BY JobIs
<1>c. Held \subseteq GPUs
  BY <1>a, <1>b DEF Held
<1> USE DEF TypeOKRunner
<1>1. CASE \E j \in Jobs : Begin(j)
  <2>1. PICK j \in Jobs : Begin(j)
    BY <1>1
  <2> QED BY <1>a, <2>1, JobsAssumption DEF Begin, Meter
<1>2. CASE Launch
  BY <1>2, <1>a, <1>b, NextIsOff DEF Launch, Meter, Book
<1>3. CASE LaunchRaises
  BY <1>3, FailedReports, Zenon DEF LaunchRaises, Meter, World
<1>4. CASE WaitReady \/ StartRouter \/ RouterUp \/ Unroute \/ Stopped \/ ServeEnds \/ Interrupted
  BY <1>4, Zenon DEF WaitReady, StartRouter, RouterUp, Unroute, Stopped, ServeEnds, Interrupted,
              AfterInterrupt, World, Meter, Book
<1>5. CASE WaitFails
  BY <1>5, <1>b, FailedReports DEF WaitFails, NotReady, World, Meter
<1>6. CASE RouterFails
  BY <1>6, FailedReports DEF RouterFails, Meter
<1>7. CASE SetDefault \/ Restore \/ RestoreRaises \/ Exit
  <2>1. device' \in Setting \cup {"mixed"} /\ applied' \in Setting
    BY <1>7, SettingAssumption DEF SetDefault, Restore, RestoreRaises, Exit, Restored, Meter, Default
  <2>2. UNCHANGED <<job, ran, engine, router, left, todo, results>> /\ raising' \in {raising, raising \/ Kind = "pair"}
    BY <1>7, Zenon DEF SetDefault, Restore, RestoreRaises, Exit, World, Book
  <2>3. pc' \in {"measure", "unroute", "leave", "ended"}
    BY <1>7 DEF SetDefault, Restore, RestoreRaises, Exit
  <2> QED BY <2>1, <2>2, <2>3
<1>8. CASE SetDefaultRaises
  <2>1. results' \in Seq(Result)
    <3>1. Failed(todo) \in Seq(Result) /\ Len(Failed(todo)) = Len(todo) /\ todo # <<>>
      BY <1>8, <1>d, FailedReports DEF SetDefaultRaises
    <3>2. Failed(todo)[1] \in Result
      BY <3>1
    <3> QED BY <1>8, <3>2 DEF SetDefaultRaises
  <2> QED BY <1>8, <2>1, SettingAssumption DEF SetDefaultRaises, Restored, World, Default, ErrorIsResult
<1>9. CASE SetPower
  BY <1>9, <1>d DEF SetPower, World, Book
<1>10. CASE SetPowerRefused \/ Measured
  <2>1. PICK ok \in BOOLEAN : Record(ok) /\ pc \in {"set", "measure"}
    BY <1>10 DEF SetPowerRefused, Measured
  <2>2. todo' \in Seq(Setting) /\ results' \in Seq(Result) /\ pc' \in {"restore", "set"}
    BY <2>1, <1>d DEF Record, Result
  <2> QED BY <1>10, <2>2 DEF SetPowerRefused, Measured, World, Meter
<1>11. CASE StopOne \/ StopRaises \/ Leave
  BY <1>11, <1>c, NextIsHeld DEF StopOne, StopRaises, AfterStopRaises, Leave, Meter, Book
<1>12. CASE \E g \in GPUs : BecomesReady(g) \/ Dies(g)
  BY <1>12 DEF BecomesReady, Dies, Meter, Book
<1>13. CASE UNCHANGED rvars
  BY <1>13 DEF rvars
<1> QED
  BY <1>1, <1>2, <1>3, <1>4, <1>5, <1>6, <1>7, <1>8, <1>9, <1>10, <1>11, <1>12, <1>13 DEF Next

-----------------------------------------------------------------------------
(* The results of a job.                                                   *)

\* Nothing is reported yet.
LEMMA MakeUpNone ==
  ASSUME NEW settings \in Seq(Setting)
  PROVE  MakeUp(<<>>, settings, settings)
  BY DEF MakeUp

\* Everything is reported as failed.
LEMMA MakeUpAll ==
  ASSUME NEW settings \in Seq(Setting), device \in Setting \cup {"mixed"}
  PROVE  MakeUp(Failed(settings), <<>>, settings)
  BY FailedReports DEF MakeUp

\* One more is reported.
LEMMA MakeUpOne ==
  ASSUME NEW done \in Seq(Result), NEW rest \in Seq(Setting), NEW settings \in Seq(Setting), rest # <<>>,
         MakeUp(done, rest, settings), NEW result \in Result, result.setting = Head(rest)
  PROVE  MakeUp(Append(done, result), Tail(rest), settings)
<1>1. /\ Append(done, result) \in Seq(Result) /\ Len(Append(done, result)) = Len(done) + 1
      /\ Append(done, result)[Len(done) + 1] = result
      /\ \A i \in 1..Len(done) : Append(done, result)[i] = done[i]
  OBVIOUS
<1>2. /\ Tail(rest) \in Seq(Setting) /\ Len(Tail(rest)) = Len(rest) - 1
      /\ \A i \in 1..Len(Tail(rest)) : Tail(rest)[i] = rest[i + 1]
      /\ Len(rest) \in Nat /\ Len(rest) >= 1 /\ Head(rest) = rest[1]
  OBVIOUS
<1>3. Len(Append(done, result)) + Len(Tail(rest)) = Len(settings)
  BY <1>1, <1>2 DEF MakeUp
<1>4. \A i \in 1..Len(Append(done, result)) : Append(done, result)[i].setting = settings[i]
  <2> TAKE i \in 1..Len(Append(done, result))
  <2>1. CASE i = Len(done) + 1
    <3>1. rest[1] = settings[Len(done) + 1]
      BY <1>2 DEF MakeUp
    <3> QED BY <1>1, <1>2, <2>1, <3>1
  <2>2. CASE i \in 1..Len(done)
    BY <1>1, <2>2 DEF MakeUp
  <2> QED BY <1>1, <2>1, <2>2
<1>5. \A i \in 1..Len(Tail(rest)) : Tail(rest)[i] = settings[Len(Append(done, result)) + i]
  <2> TAKE i \in 1..Len(Tail(rest))
  <2>1. Tail(rest)[i] = rest[i + 1] /\ i + 1 \in 1..Len(rest)
    BY <1>2
  <2>2. rest[i + 1] = settings[Len(done) + (i + 1)]
    BY <2>1 DEF MakeUp
  <2> QED BY <1>1, <2>1, <2>2
<1> QED BY <1>3, <1>4, <1>5 DEF MakeUp

LEMMA NextKindAgrees ==
  ASSUME TypeOKRunner, KindAgrees, [Next]_rvars
  PROVE  KindAgrees'
<1> USE DEF KindAgrees, Kind, HasRouter
<1>1. CASE \E j \in Jobs : Begin(j)
  BY <1>1, JobsAssumption DEF Begin
<1>2. CASE Exit \/ UNCHANGED rvars
  BY <1>2 DEF Exit, rvars, World, Book
<1>3. CASE Launch \/ StartRouter \/ Interrupted \/ \E g \in GPUs : BecomesReady(g) \/ Dies(g)
  <2>1. job' = job /\ (pc' = pc \/ pc' \in {"launch", "wait", "restore", "stop", "leave"})
    BY <1>3 DEF Launch, StartRouter, Interrupted, AfterInterrupt, BecomesReady, Dies
  <2>2. Kind # "none" \/ pc' = pc
    BY <1>3, JobIs DEF Launch, Launching, StartRouter, Interrupted, BecomesReady, Dies
  <2> QED BY <2>1, <2>2
<1>4. CASE WaitReady
  BY <1>4 DEF WaitReady
<1>5. CASE SetPowerRefused \/ Measured
  BY <1>5 DEF SetPowerRefused, Measured, Record
<1>6. CASE LaunchRaises \/ WaitFails \/ RouterUp \/ RouterFails \/ SetDefault \/ SetDefaultRaises \/ SetPower
          \/ ServeEnds
  BY <1>6 DEF LaunchRaises, WaitFails, RouterUp, RouterFails, SetDefault, SetDefaultRaises, SetPower, ServeEnds
<1>7. CASE Restore \/ RestoreRaises \/ Unroute \/ StopOne \/ StopRaises \/ Stopped \/ Leave
  BY <1>7 DEF Restore, RestoreRaises, Unroute, StopOne, StopRaises, Stopped, Leave, AfterStopRaises
<1> QED BY <1>1, <1>2, <1>3, <1>4, <1>5, <1>6, <1>7 DEF Next

LEMMA NextBookComplete ==
  ASSUME TypeOKRunner, KindAgrees, BookComplete, [Next]_rvars
  PROVE  BookComplete'
<1>a. /\ job.settings \in Seq(Setting) /\ todo \in Seq(Setting) /\ results \in Seq(Result)
      /\ device \in Setting \cup {"mixed"}
  BY JobIs DEF TypeOKRunner
<1> USE DEF BookComplete, Kind
<1>1. CASE \E j \in Jobs : Begin(j)
  BY <1>1 DEF Begin
<1>2. CASE Launch \/ StartRouter
  BY <1>2 DEF Launch, StartRouter, Book
<1>3. CASE LaunchRaises
  BY <1>3, <1>a, MakeUpAll DEF LaunchRaises, World, Meter, LaunchGuarded
<1>4. CASE WaitReady \/ RouterUp
  <2>1. pc' = "set" => todo # <<>>
    BY <1>4, <1>a, JobIs DEF WaitReady, RouterUp, HasRouter, KindAgrees
  <2> QED BY <1>4, <1>a, <2>1, MakeUpNone DEF WaitReady, RouterUp, World, Meter, Book
<1>5. CASE WaitFails
  BY <1>5, <1>a, MakeUpAll DEF WaitFails, NotReady, World, Meter
<1>6. CASE RouterFails
  BY <1>6, <1>a, MakeUpAll DEF RouterFails, Meter, ErrorIsResult
<1>7. CASE SetDefault \/ SetPower
  BY <1>7 DEF SetDefault, SetPower, World, Book
<1>8. CASE SetDefaultRaises
  <2>1. CASE ErrorIsResult
    <3>1. /\ todo # <<>> /\ MakeUp(results, todo, job.settings) /\ Len(job.settings) = 1
          /\ results' = Append(results, Failed(todo)[1]) /\ job' = job
      BY <1>8, <2>1, JobIs DEF SetDefaultRaises, ErrorIsResult
    <3>2. Failed(todo)[1] \in Result /\ Failed(todo)[1].setting = Head(todo)
      BY <1>a, <3>1, FailedReports
    <3>3. MakeUp(results', Tail(todo), job.settings)
      BY <1>a, <3>1, <3>2, MakeUpOne
    <3>4. Tail(todo) = <<>>
      BY <1>a, <3>1 DEF MakeUp
    <3> QED BY <1>8, <3>1, <3>3, <3>4 DEF SetDefaultRaises
  <2>2. CASE ~ErrorIsResult
    BY <1>8, <2>2 DEF SetDefaultRaises
  <2> QED BY <2>1, <2>2
<1>9. CASE SetPowerRefused \/ Measured
  <2>1. PICK ok \in BOOLEAN : Record(ok) /\ pc \in {"set", "measure"} /\ job' = job
    BY <1>9 DEF SetPowerRefused, Measured
  <2> DEFINE result == [setting |-> Head(todo), ok |-> ok, under |-> device]
  <2>2. todo # <<>> /\ MakeUp(results, todo, job.settings)
    BY <2>1
  <2>3. Head(todo) \in Setting
    BY <1>a, <2>2
  <2>4. result \in Result /\ result.setting = Head(todo)
    BY <1>a, <2>3 DEF Result
  <2>5. MakeUp(Append(results, result), Tail(todo), job.settings)
    BY <1>a, <2>2, <2>4, MakeUpOne
  <2>6. (Len(todo) = 1 => Tail(todo) = <<>>) /\ (Len(todo) # 1 => Tail(todo) # <<>>)
    <3>1. Len(todo) \in Nat /\ Tail(todo) \in Seq(Setting) /\ Len(Tail(todo)) = Len(todo) - 1 /\ Len(todo) # 0
      BY <1>a, <2>2
    <3>2. Tail(todo) = <<>> <=> Len(Tail(todo)) = 0
      BY <3>1, EmptySeq
    <3> QED BY <3>1, <3>2
  <2>7. /\ results' = Append(results, result) /\ todo' = Tail(todo)
        /\ pc' = IF Len(todo) = 1 THEN "restore" ELSE "set"
    BY <2>1 DEF Record
  <2> HIDE DEF result
  <2> QED BY <2>1, <2>5, <2>6, <2>7
<1>10. CASE ServeEnds
  <2>1. job.kind = "serve" /\ job' = job /\ pc' = "stop"
    BY <1>10 DEF ServeEnds, KindAgrees
  <2> QED BY <2>1
<1>11. CASE Restore \/ RestoreRaises \/ Unroute \/ StopOne \/ StopRaises \/ Stopped \/ Leave \/ Exit \/ Interrupted
  BY <1>11 DEF Restore, RestoreRaises, Unroute, StopOne, StopRaises, Stopped, Leave, Exit, Interrupted,
               AfterInterrupt, AfterStopRaises, World, Book
<1>12. CASE \E g \in GPUs : BecomesReady(g) \/ Dies(g)
  <2>1. UNCHANGED <<job, pc, raising, todo, results>>
    BY <1>12 DEF BecomesReady, Dies, Book
  <2> QED BY <2>1
<1>13. CASE UNCHANGED rvars
  BY <1>13 DEF rvars
<1> QED
  BY <1>1, <1>2, <1>3, <1>4, <1>5, <1>6, <1>7, <1>8, <1>9, <1>10, <1>11, <1>12, <1>13 DEF Next

-----------------------------------------------------------------------------
(* The setting measured under.                                             *)

LEMMA RefusalIsNoted == Fault("refused") => Refused'
<1> SUFFICES ASSUME Fault("refused") PROVE Refused'
  OBVIOUS
<1>1. [fault |-> "refused", at |-> pc, kind |-> Kind] \in blame'
  BY DEF Fault
<1>2. [fault |-> "refused", at |-> pc, kind |-> Kind].fault = "refused"
  OBVIOUS
<1> QED BY <1>1, <1>2, Zenon DEF Refused

LEMMA NextMeterTrue ==
  ASSUME TypeOKRunner, BookComplete, MeterTrue, MeasuredUnderItsSetting, [Next]_rvars
  PROVE  MeterTrue' /\ MeasuredUnderItsSetting'
<1>a. Refused => Refused'
  <2>1. blame \subseteq blame'
    BY DEF Next, rvars, Begin, Launch, LaunchRaises, WaitReady, WaitFails, StartRouter, RouterUp, RouterFails, SetDefault,
        SetDefaultRaises, SetPower, SetPowerRefused, Measured, ServeEnds, Restore, RestoreRaises, Unroute,
        StopOne, StopRaises, Stopped, Leave, Exit, Interrupted, BecomesReady, Dies, Fault, World, Book, Meter
  <2> QED BY <2>1 DEF Refused
<1> SUFFICES ASSUME ~Refused'
             PROVE  MeterTrue' /\ MeasuredUnderItsSetting'
  BY DEF MeterTrue, MeasuredUnderItsSetting, Refused
<1>b. /\ applied = Default => device = Default
      /\ pc = "measure" => device = Head(todo)
      /\ \A i \in 1..Len(results) : results[i].ok => results[i].under = results[i].setting
  BY <1>a DEF MeterTrue, MeasuredUnderItsSetting, Refused
<1> SUFFICES /\ applied' = Default => device' = Default
             /\ pc' = "measure" => device' = Head(todo')
             /\ \A i \in 1..Len(results') : results'[i].ok => results'[i].under = results'[i].setting
  BY DEF MeterTrue, MeasuredUnderItsSetting
<1>c. /\ job.settings \in Seq(Setting) /\ todo \in Seq(Setting) /\ results \in Seq(Result)
      /\ device \in Setting \cup {"mixed"}
  BY JobIs DEF TypeOKRunner
<1>1. CASE \E j \in Jobs : Begin(j)
  BY <1>1, <1>b DEF Begin, Meter
<1>2. CASE LaunchRaises
  BY <1>2, <1>b, <1>c, FailedReports DEF LaunchRaises, World, Meter
<1>3. CASE WaitFails
  BY <1>3, <1>b, <1>c, FailedReports DEF WaitFails, NotReady, World, Meter
<1>4. CASE RouterFails
  BY <1>4, <1>b, <1>c, FailedReports DEF RouterFails, Meter
<1>5. CASE SetDefault
  <2>1. CASE ~DefaultNeedsRestore
    BY <1>5, <2>1, <1>b DEF SetDefault, Restored, World, Book, Meter, DefaultNeedsRestore
  <2>2. CASE DefaultNeedsRestore
    <3>1. ~Fault("refused")
      BY RefusalIsNoted
    <3> QED BY <1>5, <2>2, <3>1, <1>b DEF SetDefault, Restored, World, Book
  <2> QED BY <2>1, <2>2
<1>6. CASE SetDefaultRaises
  <2>1. device' = Default /\ applied' = Default /\ pc' = "restore"
    BY <1>6 DEF SetDefaultRaises, Restored
  <2>2. todo # <<>>
    BY <1>6 DEF SetDefaultRaises, BookComplete
  <2>3. results' = results \/ (results' = Append(results, Failed(todo)[1]) /\ ~Failed(todo)[1].ok
                                 /\ Failed(todo)[1] \in Result)
    BY <1>6, <1>c, <2>2, FailedReports DEF SetDefaultRaises
  <2> QED BY <1>b, <1>c, <2>1, <2>3
<1>7. CASE SetPower
  BY <1>7, <1>b DEF SetPower, World, Book
<1>8. CASE SetPowerRefused \/ Measured
  <2>1. PICK ok \in BOOLEAN :
          /\ Record(ok) /\ applied' = applied
          /\ applied = Default => device' = device
          /\ ok => pc = "measure"
    BY <1>8 DEF SetPowerRefused, Measured, Meter
  <2>2. /\ results' = Append(results, [setting |-> Head(todo), ok |-> ok, under |-> device])
        /\ pc' # "measure"
    BY <2>1 DEF Record
  <2>3. \A i \in 1..Len(results') : results'[i].ok => results'[i].under = results'[i].setting
    BY <1>b, <1>c, <2>1, <2>2
  <2> QED BY <1>b, <2>1, <2>2, <2>3
<1>9. CASE Restore \/ RestoreRaises \/ Exit
  <2>1. ~Fault("refused")
    BY RefusalIsNoted
  <2> QED BY <1>9, <1>b, <2>1 DEF Restore, RestoreRaises, Exit, Restored, World, Book, Meter
<1>10. CASE \/ Launch \/ StartRouter \/ WaitReady \/ RouterUp \/ ServeEnds \/ Unroute \/ StopOne \/ StopRaises
            \/ Stopped \/ Leave \/ Interrupted \/ \E g \in GPUs : BecomesReady(g) \/ Dies(g)
  <2>1. UNCHANGED <<device, applied, todo, results>>
    BY <1>10 DEF Launch, StartRouter, WaitReady, RouterUp, ServeEnds, Unroute, StopOne, StopRaises, Stopped,
                 Leave, Interrupted, BecomesReady, Dies, World, Meter, Book
  <2>2. pc' = "measure" => pc = "measure"
    BY <1>10 DEF Launch, StartRouter, WaitReady, RouterUp, ServeEnds, Unroute, StopOne, StopRaises, Stopped,
                 Leave, Interrupted, BecomesReady, Dies, AfterInterrupt, AfterStopRaises
  <2> QED BY <1>b, <2>1, <2>2
<1>11. CASE UNCHANGED rvars
  BY <1>11, <1>b DEF rvars
<1> QED
  BY <1>1, <1>2, <1>3, <1>4, <1>5, <1>6, <1>7, <1>8, <1>9, <1>10, <1>11 DEF Next

-----------------------------------------------------------------------------
(* What is left running.                                                   *)

\* Every fault is noted with its place and the kind of the job.
LEMMA FaultIsNoted ==
  ASSUME NEW f, Fault(f)
  PROVE  \E b \in blame' : b.fault = f /\ b.at = pc /\ b.kind = Kind
<1> DEFINE b == [fault |-> f, at |-> pc, kind |-> Kind]
<1>1. b \in blame' /\ b.fault = f /\ b.at = pc /\ b.kind = Kind
  BY DEF Fault
<1> HIDE DEF b
<1> QED BY <1>1

\* What has been noted stays noted.
LEMMA CleanupStaysLost ==
  ASSUME [Next]_rvars, CleanupLost
  PROVE  CleanupLost'
<1>1. blame \subseteq blame'
  BY DEF Next, rvars, Begin, Launch, LaunchRaises, WaitReady, WaitFails, StartRouter, RouterUp, RouterFails, SetDefault,
      SetDefaultRaises, SetPower, SetPowerRefused, Measured, ServeEnds, Restore, RestoreRaises, Unroute,
      StopOne, StopRaises, Stopped, Leave, Exit, Interrupted, BecomesReady, Dies, Fault, World, Book, Meter
<1> QED BY <1>1, Zenon DEF CleanupLost, Blamed

LEMMA NextNothingHeld ==
  ASSUME TypeOKRunner, KindAgrees, NothingHeld, [Next]_rvars
  PROVE  NothingHeld'
<1> SUFFICES ASSUME ~CleanupLost' PROVE NothingHeld'
  BY DEF NothingHeld
<1>a. /\ left = {}
      /\ pc \notin {"router", "set", "measure", "restore", "unroute"} => router = "off"
      /\ router = "starting" => pc = "router"
      /\ pc = "leave" => Held = {}
  BY CleanupStaysLost DEF NothingHeld
<1> SUFFICES /\ left' = {}
             /\ pc' \notin {"router", "set", "measure", "restore", "unroute"} => router' = "off"
             /\ router' = "starting" => pc' = "router"
             /\ pc' = "leave" => Held' = {}
  BY DEF NothingHeld
<1>1. CASE (\E j \in Jobs : Begin(j)) \/ Launch \/ Exit
  BY <1>1, <1>a DEF Begin, Launch, Exit, World, Meter
<1>2. CASE LaunchRaises
  <2>1. Kind \in {"trial", "sweep", "serve"}
    <3>1. Fault("popen") /\ pc = "launch"
      BY <1>2 DEF LaunchRaises
    <3>2. ~Blamed("popen", {"replicas", "pair"}, {"launch"})'
      BY DEF CleanupLost
    <3>3. Kind \notin {"replicas", "pair"}
      BY <3>1, <3>2, FaultIsNoted DEF Blamed
    <3> QED BY <3>1, <3>3, JobIs DEF KindAgrees
  <2> QED BY <1>2, <1>a, <2>1 DEF LaunchRaises, LaunchGuarded, World, Meter
<1>3. CASE WaitReady \/ WaitFails \/ StartRouter \/ RouterUp \/ RouterFails
  BY <1>3, <1>a, JobIs DEF WaitReady, WaitFails, StartRouter, RouterUp, RouterFails, World, Meter, HasRouter
<1>4. CASE SetDefault \/ SetDefaultRaises \/ SetPower \/ SetPowerRefused \/ Measured \/ ServeEnds \/ Restore
  <2>1. UNCHANGED <<router, left>> /\ pc \in {"set", "measure", "serving", "restore"}
    BY <1>4, Zenon DEF SetDefault, SetDefaultRaises, SetPower, SetPowerRefused, Measured, ServeEnds, Restore, World
  <2>2. pc' \in {"set", "measure", "restore", "unroute"} \/ (pc = "serving" /\ pc' = "stop")
    BY <1>4 DEF SetDefault, SetDefaultRaises, SetPower, SetPowerRefused, Measured, ServeEnds, Restore, Record
  <2> QED BY <1>a, <2>1, <2>2
<1>5. CASE RestoreRaises
  <2>1. Kind # "pair"
    <3>1. Fault("restore") /\ pc = "restore"
      BY <1>5 DEF RestoreRaises
    <3>2. ~Blamed("restore", {"pair"}, {"restore"})'
      BY DEF CleanupLost
    <3> QED BY <3>1, <3>2, FaultIsNoted DEF Blamed
  <2> QED BY <1>5, <1>a, <2>1 DEF RestoreRaises, World
<1>6. CASE Unroute
  BY <1>6, <1>a DEF Unroute, TypeOKRunner
<1>7. CASE StopOne \/ Stopped
  BY <1>7, <1>a DEF StopOne, Stopped, World, Held
<1>8. CASE StopRaises
  <2>1. Fault("stop")
    BY <1>8 DEF StopRaises
  <2> QED BY <2>1, FaultIsNoted, Zenon DEF CleanupLost
<1>9. CASE Leave
  BY <1>9, <1>a DEF Leave
<1>10. CASE Interrupted
  <2>1. pc \in {"launch", "wait", "router", "set", "measure", "serving", "restore", "unroute", "stop"}
    BY <1>10 DEF Interrupted
  <2>2. PICK b \in blame' : b.fault = "interrupt" /\ b.at = pc /\ b.kind = Kind
    BY <1>10, FaultIsNoted DEF Interrupted
  <2>3. pc \notin {"restore", "unroute", "stop"}
    BY <2>2 DEF CleanupLost
  <2>4. pc \in {"launch", "wait"} => Kind \notin {"replicas", "pair", "serve"}
    BY <2>2 DEF CleanupLost, Blamed
  <2>5. pc # "router"
    BY <2>2 DEF CleanupLost, Blamed, KindAgrees, HasRouter
  <2>6. pc \in {"launch", "wait"} => LaunchGuarded
    BY <2>4, JobIs DEF KindAgrees, LaunchGuarded
  <2>7. UNCHANGED <<router, left>> /\ pc' = AfterInterrupt
    BY <1>10 DEF Interrupted, World
  <2>8. pc' \in {"restore", "stop"} /\ (pc' = "stop" => pc = "serving")
    BY <2>1, <2>3, <2>5, <2>6, <2>7 DEF AfterInterrupt
  <2> QED BY <1>a, <2>1, <2>3, <2>5, <2>7, <2>8
<1>11. CASE \E g \in GPUs : BecomesReady(g) \/ Dies(g)
  <2>1. UNCHANGED <<job, pc, router, left>>
    BY <1>11 DEF BecomesReady, Dies
  <2>2. \A h \in GPUs : engine[h] \notin Up => engine'[h] \notin Up
    BY <1>11 DEF BecomesReady, Dies, Up, TypeOKRunner
  <2>3. 1..job.n \subseteq GPUs
    BY JobIs, BoundsAssumption DEF GPUs
  <2>4. Held' \subseteq Held
    BY <2>1, <2>2, <2>3 DEF Held, Up
  <2> QED BY <1>a, <2>1, <2>4
<1>12. CASE UNCHANGED rvars
  BY <1>12, <1>a DEF rvars, Held
<1> QED
  BY <1>1, <1>2, <1>3, <1>4, <1>5, <1>6, <1>7, <1>8, <1>9, <1>10, <1>11, <1>12 DEF Next

-----------------------------------------------------------------------------
(* The theorems.                                                           *)

\* The inductive invariant: types, the places of a job, its results, its meter and what it holds.
THEOREM RunnerKeepsBooks == Spec => []RunnerInv
<1>1. RunnerInv /\ [Next]_rvars => RunnerInv'
  BY NextTyped, NextKindAgrees, NextBookComplete, NextMeterTrue, NextNothingHeld DEF RunnerInv
<1> QED BY <1>1, InitRunner, PTL DEF Spec

\* Whatever fails in a job, and in whatever order, it leaves no engine and no router behind when it
\* is over, but for the faults that CleanupLost lists.
THEOREM JobsLeaveNothing == Spec => []NothingLeftRunning
<1>1. RunnerInv => NothingLeftRunning
  BY Zenon DEF RunnerInv, NothingHeld, NothingLeftRunning
<1> QED BY <1>1, RunnerKeepsBooks, PTL

\* A result that is reported as good was measured under the setting it is reported for, as long as
\* the driver has not refused to undo one.
THEOREM MeasuredAsReported == Spec => []MeasuredUnderItsSetting
<1>1. RunnerInv => MeasuredUnderItsSetting
  BY DEF RunnerInv
<1> QED BY <1>1, RunnerKeepsBooks, PTL

\* A job that returns has one result for each of its settings, in their order.
THEOREM JobsReportAll == Spec => []EverySettingReported
<1>1. ASSUME RunnerInv, pc = "leave", ~raising, Kind # "serve"
      PROVE  [i \in 1..Len(results) |-> results[i].setting] = job.settings
  <2>1. MakeUp(results, <<>>, job.settings)
    BY <1>1 DEF RunnerInv, BookComplete
  <2>2. job.settings \in Seq(Setting) /\ results \in Seq(Result)
    BY <1>1, JobIs DEF RunnerInv, TypeOKRunner
  <2>3. Len(results) = Len(job.settings) /\ \A i \in 1..Len(results) : results[i].setting = job.settings[i]
    BY <2>1, <2>2 DEF MakeUp
  <2>4. job.settings = [i \in 1..Len(job.settings) |-> job.settings[i]]
    BY <2>2, LenProperties
  <2> QED BY <2>3, <2>4
<1>2. RunnerInv => EverySettingReported
  BY <1>1 DEF EverySettingReported
<1> QED BY <1>2, RunnerKeepsBooks, PTL

-----------------------------------------------------------------------------
(* The planner.                                                            *)

\* The grid of an engine depends on the precisions that are offered and on the model, not on
\* the sizes of the files.
LEMMA SameGrid ==
  ASSUME NEW b \in Backends, NEW m, NEW p, NEW q, NEW n,
         DOMAIN p.weights = DOMAIN q.weights, p.layers = q.layers, p.maxPos = q.maxPos
  PROVE  CandidateConfigs(b, m, p, n) = CandidateConfigs(b, m, q, n)
<1>1. VllmCandidates(m, p, n) = VllmCandidates(m, q, n)
  BY DEF VllmCandidates
<1>2. SglangCandidates(m, p, n) = SglangCandidates(m, q, n)
  BY DEF SglangCandidates
<1>3. VllmCpuCandidates(p, n) = VllmCpuCandidates(q, n)
  BY DEF VllmCpuCandidates
<1>4. LlamaCandidates(b, p, n) = LlamaCandidates(b, q, n)
  BY DEF LlamaCandidates
<1> QED BY <1>1, <1>2, <1>3, <1>4 DEF CandidateConfigs

\* The engines selected are engines.
LEMMA SelectedTyped ==
  ASSUME asked \in Asked
  PROVE  SelectBackends \in Seq(Backends)
<1>1. ASSUME NEW cond \in BOOLEAN, NEW b \in Backends PROVE If(cond, b) \in Seq(Backends)
  BY DEF If
<1>2. OnNvidia \in Seq(Backends)
  <2>1. /\ (hw.cc >= Turing /\ Usable("vllm")) \in BOOLEAN /\ (hw.cc >= Turing /\ Usable("sglang")) \in BOOLEAN
        /\ Usable("llamacpp-cuda") \in BOOLEAN
    BY DEF Usable, Supports, LlamaSupports, IsLlama
  <2>2. /\ If(hw.cc >= Turing /\ Usable("vllm"), "vllm") \in Seq(Backends)
        /\ If(hw.cc >= Turing /\ Usable("sglang"), "sglang") \in Seq(Backends)
        /\ If(Usable("llamacpp-cuda"), "llamacpp-cuda") \in Seq(Backends)
    <3>1. "vllm" \in Backends /\ "sglang" \in Backends /\ "llamacpp-cuda" \in Backends
      BY DEF Backends
    <3> QED BY <1>1, <2>1, <3>1
  <2> QED BY <2>2 DEF OnNvidia
<1>3. /\ If(Usable("llamacpp-cpu"), "llamacpp-cpu") \in Seq(Backends)
      /\ If(Usable("vllm-cpu"), "vllm-cpu") \in Seq(Backends)
  <2>1. Usable("llamacpp-cpu") \in BOOLEAN /\ Usable("vllm-cpu") \in BOOLEAN
    BY DEF Usable, Supports, VllmCpuSupports, LlamaSupports, IsLlama
  <2>2. "llamacpp-cpu" \in Backends /\ "vllm-cpu" \in Backends
    BY DEF Backends
  <2> QED BY <1>1, <2>1, <2>2
<1>4. asked.force # "none" => <<asked.force>> \in Seq(Backends)
  BY RequestsAssumption
<1> QED BY <1>2, <1>3, <1>4 DEF SelectBackends

\* What does not change as long as the machine, the model and the request do not.
LEMMA SameInput ==
  ASSUME UNCHANGED <<hw, model, asked>>, NEW b
  PROVE  /\ Offered(b)' = Offered(b) /\ Prepared(b)' = Prepared(b)
         /\ prepared'[b] = prepared[b] => Runnable(b)' = Runnable(b) /\ (IsPrepared(b)' <=> IsPrepared(b))
<1>1. Offered(b)' = Offered(b)
  BY DEF Offered, AllowedQuants
<1>2. Prepared(b)' = Prepared(b)
  BY <1>1 DEF Prepared, SizeOf, Source
<1> QED BY <1>1, <1>2 DEF Runnable, IsPrepared

\* The plan with the true sizes keeps what of the grid fits.
LEMMA KeptIsRunnable ==
  ASSUME NEW b \in Backends, DOMAIN prepared[b] = Described, gridQuants[b] = Offered(b),
         prepared[b].layers = model.layers, prepared[b].maxPos = model.maxPos
  PROVE  Replanned(b) = Runnable(b)
<1> DEFINE p == [prepared[b] EXCEPT !.weights = [q \in gridQuants[b] |-> 0]]
           r == Prepared(b)
<1>1. DOMAIN p.weights = Offered(b) /\ p.layers = model.layers /\ p.maxPos = model.maxPos
  BY DEF Described
<1>2. DOMAIN r.weights = Offered(b) /\ r.layers = model.layers /\ r.maxPos = model.maxPos
  BY DEF Prepared
<1> HIDE DEF p, r
<1>3. CandidateConfigs(b, hw, p, asked.minCtx) = CandidateConfigs(b, hw, r, asked.minCtx)
  BY <1>1, <1>2, SameGrid
<1>4. GridOf(b) = CandidateConfigs(b, hw, r, asked.minCtx)
  BY <1>3 DEF GridOf, p
<1> QED BY <1>4 DEF Replanned, Plan, Runnable, r

\* The end of an engine's turn.
LEMMA TurnEnds ==
  ASSUME queue \in Seq(Backends), queue # <<>>, NEW failed \in BOOLEAN, NextEngine(failed)
  PROVE  /\ queue' \in Seq(Backends) /\ Head(queue) \in Backends /\ ppc' = "next"
         /\ \A b : ~InHand(b)'
         /\ errors' = IF failed THEN errors \cup {Head(queue)} ELSE errors
<1>1. Tail(queue) \in Seq(Backends) /\ Head(queue) \in Backends
  OBVIOUS
<1> QED BY <1>1 DEF NextEngine, InHand, Fetching

LEMMA InitPlannerInv == InitPlanner => PlannerInv
<1> SUFFICES ASSUME InitPlanner PROVE PlannerInv
  OBVIOUS
<1> USE DEF InitPlanner
<1>1. TypeOKPlanner
  BY DEF TypeOKPlanner, NotPrepared, Fetching
<1>2. DescribesModel /\ FromGrid /\ NothingYet
  BY DEF DescribesModel, FromGrid, NothingYet, InHand, Fetching
<1>3. Planned
  BY DEF Planned, IsPrepared, NotPrepared
<1>4. Sources
  BY DEF Sources, NotPrepared
<1>5. WillBeInPlace
  BY DEF WillBeInPlace, InHand, Fetching
<1>6. ChoiceIsAskedFor
  BY DEF ChoiceIsAskedFor, NotPrepared, Fetching
<1> QED BY <1>1, <1>2, <1>3, <1>4, <1>5, <1>6 DEF PlannerInv

\* Each step leaves the input, and does nothing to the engines that are not in hand.
LEMMA PlannerTyped ==
  ASSUME PlannerInv, [NextPlanner]_pvars
  PROVE  UNCHANGED <<hw, model, asked>> /\ TypeOKPlanner'
<1> USE DEF Fetching
<1>0. TypeOKPlanner
  BY DEF PlannerInv
<1>1. CASE Select
  BY <1>0, <1>1, SelectedTyped DEF Select, TypeOKPlanner, planVars
<1>2. CASE PrepareFails
  <2>1. queue \in Seq(Backends) /\ queue # <<>> /\ NextEngine(TRUE)
    BY <1>0, <1>2 DEF PrepareFails, TypeOKPlanner
  <2> QED BY <1>0, <1>2, <2>1, TurnEnds DEF PrepareFails, TypeOKPlanner, planVars
<1>3. CASE Prepare
  <2> DEFINE h == Head(queue)
  <2>1. queue \in Seq(Backends) /\ queue # <<>> /\ h \in Backends /\ PrepareEngine(h, Prepared(h), Keep(h, Prepared(h)))
    BY <1>0, <1>3 DEF Prepare, TypeOKPlanner
  <2>2. /\ UNCHANGED <<hw, model, asked, candidates>>
        /\ prepared' = [prepared EXCEPT ![h] = Prepared(h)]
        /\ gridQuants' = [gridQuants EXCEPT ![h] = DOMAIN Prepared(h).weights]
        /\ feasible' = [feasible EXCEPT ![h] = Keep(h, Prepared(h))]
        /\ (ppc' = "fetch" /\ queue' = queue) \/ NextEngine(FALSE)
    BY <2>1 DEF PrepareEngine
  <2>3. DOMAIN Prepared(h) = Described
    BY DEF Prepared, Described
  <2>4. queue' \in Seq(Backends) /\ ppc' \in {"fetch", "next"} /\ (ppc' = "fetch" => queue' # <<>>)
    BY <2>1, <2>2, TurnEnds
  <2> HIDE DEF h
  <2> QED BY <1>0, <2>1, <2>2, <2>3, <2>4 DEF TypeOKPlanner
<1>4. CASE Fetch
  <2>1. /\ UNCHANGED <<hw, model, asked, candidates, queue, ppc, gridQuants, feasible>>
        /\ \E b \in Backends : \E s, w, d :
             prepared' = [prepared EXCEPT ![b].source = s, ![b].weights = w] \/ prepared' = [prepared EXCEPT ![b].draft = d]
    BY <1>4 DEF Fetch, FetchDraft, Download, OnDisk
  <2> QED BY <1>0, <2>1 DEF TypeOKPlanner
<1>5. CASE MaterializeFails
  <2>1. queue \in Seq(Backends) /\ queue # <<>> /\ NextEngine(TRUE)
    BY <1>0, <1>5 DEF MaterializeFails, MayRaise, TypeOKPlanner
  <2> QED BY <1>0, <1>5, <2>1, TurnEnds DEF MaterializeFails, TypeOKPlanner, planVars
<1>6. CASE Downloaded
  BY <1>0, <1>6 DEF Downloaded, TypeOKPlanner, planVars
<1>7. CASE Convert
  <2>1. /\ UNCHANGED <<hw, model, asked, candidates, queue, gridQuants, feasible>>
        /\ ppc' = "fetched" /\ queue # <<>>
        /\ \E b, s, w : prepared' = [prepared EXCEPT ![b].source = s, ![b].weights = w]
    BY <1>0, <1>7 DEF Convert, Converted, TypeOKPlanner
  <2> QED BY <1>0, <2>1 DEF TypeOKPlanner
<1>8. CASE Replan
  <2> DEFINE h == Head(queue)
  <2>1. queue \in Seq(Backends) /\ queue # <<>> /\ ReplanEngine(h)
    BY <1>0, <1>8 DEF Replan, TypeOKPlanner
  <2>2. /\ UNCHANGED <<hw, model, asked, candidates, prepared, gridQuants>>
        /\ feasible' = feasible \/ feasible' = [feasible EXCEPT ![h] = Replanned(h)]
        /\ NextEngine(TRUE) \/ NextEngine(FALSE)
    BY <2>1 DEF ReplanEngine
  <2>3. queue' \in Seq(Backends) /\ ppc' = "next"
    BY <2>1, <2>2, TurnEnds
  <2> HIDE DEF h
  <2> QED BY <1>0, <2>2, <2>3 DEF TypeOKPlanner
<1>9. CASE Finish \/ Serve \/ ServeFails \/ UNCHANGED pvars
  BY <1>0, <1>9 DEF Finish, Serve, ServeFails, pvars, planVars, TypeOKPlanner
<1>10. CASE Choose
  BY <1>0, <1>10 DEF Choose, ChooseConfig, planVars, TypeOKPlanner
<1> QED BY <1>1, <1>2, <1>3, <1>4, <1>5, <1>6, <1>7, <1>8, <1>9, <1>10 DEF NextPlanner

\* Each step but one that plans leaves the plans, and files change of the engine in hand only.
LEMMA PlannerSteps ==
  ASSUME PlannerInv, [NextPlanner]_pvars
  PROVE  \/ /\ ppc = "select" /\ ppc' = "next" /\ UNCHANGED planVars /\ UNCHANGED errors
         \/ /\ queue # <<>> /\ Head(queue) \in Backends /\ ppc \in {"next", "fetch", "convert", "fetched"}
            /\ UNCHANGED planVars
            /\ NextEngine(TRUE) /\ (Fetching => asked.materialize)
         \/ /\ queue # <<>> /\ Head(queue) \in Backends /\ ppc = "next"
            /\ PrepareEngine(Head(queue), Prepared(Head(queue)), Keep(Head(queue), Prepared(Head(queue))))
         \/ /\ InHand(Head(queue)) /\ InHand(Head(queue))' /\ queue' = queue /\ Head(queue) \in Backends
            /\ UNCHANGED <<errors, gridQuants, feasible>>
            /\ \/ UNCHANGED prepared
               \/ \E s, w : prepared' = [prepared EXCEPT ![Head(queue)].source = s, ![Head(queue)].weights = w]
               \/ \E d : prepared' = [prepared EXCEPT ![Head(queue)].draft = d]
         \/ /\ InHand(Head(queue)) /\ Head(queue) \in Backends /\ NextEngine(FALSE) /\ asked.materialize
            /\ gridQuants[Head(queue)] \subseteq DOMAIN prepared[Head(queue)].weights
            /\ feasible' = [feasible EXCEPT ![Head(queue)] = Replanned(Head(queue))]
            /\ UNCHANGED <<prepared, gridQuants>>
         \/ /\ UNCHANGED <<planVars, errors, queue>>
            /\ ppc' = ppc \/ (ppc = "next" /\ ppc' = "done") \/ ppc' \in {"served", "failed"}
         \/ /\ UNCHANGED <<planVars, errors>> /\ ~asked.materialize /\ ppc' = "fetch"
            /\ \E b \in Backends : queue' = <<b>> /\ IsPrepared(b)
<1> USE DEF Fetching
<1>0. /\ TypeOKPlanner
      /\ queue # <<>> => Head(queue) \in Backends
      /\ ppc \in {"fetch", "convert", "fetched"} => queue # <<>> /\ InHand(Head(queue))
  BY DEF PlannerInv, TypeOKPlanner, InHand
<1>1. CASE Select
  BY <1>1 DEF Select
<1>2. CASE PrepareFails
  BY <1>0, <1>2 DEF PrepareFails
<1>3. CASE Prepare
  BY <1>0, <1>3 DEF Prepare
<1>4. CASE Fetch
  <2>1. /\ ppc \in {"fetch", "fetched"} /\ UNCHANGED <<ppc, queue, errors, gridQuants, feasible>>
        /\ \E s, w, d : \/ prepared' = [prepared EXCEPT ![Head(queue)].source = s, ![Head(queue)].weights = w]
                        \/ prepared' = [prepared EXCEPT ![Head(queue)].draft = d]
    BY <1>4 DEF Fetch, FetchDraft, Download, OnDisk
  <2> QED BY <1>0, <2>1 DEF InHand
<1>5. CASE MaterializeFails
  BY <1>0, <1>5 DEF MaterializeFails, MayRaise
<1>6. CASE Downloaded
  <2>1. /\ ppc = "fetch" /\ ppc' \in {"fetched", "convert"} /\ UNCHANGED <<queue, errors, planVars>>
    BY <1>6 DEF Downloaded
  <2> QED BY <1>0, <2>1 DEF InHand, planVars
<1>7. CASE Convert
  <2>1. /\ ppc = "convert" /\ ppc' = "fetched" /\ UNCHANGED <<queue, errors, gridQuants, feasible>>
        /\ \E s, w : prepared' = [prepared EXCEPT ![Head(queue)].source = s, ![Head(queue)].weights = w]
    BY <1>7 DEF Convert, Converted
  <2> QED BY <1>0, <2>1 DEF InHand
<1>8. CASE Replan
  BY <1>0, <1>8 DEF Replan, ReplanEngine, planVars
<1>9. CASE Finish \/ Serve \/ ServeFails \/ UNCHANGED pvars
  BY <1>9 DEF Finish, Serve, ServeFails, pvars, planVars
<1>10. CASE Choose
  BY <1>10 DEF Choose, ChooseConfig, Uncalibrated
<1> QED BY <1>1, <1>2, <1>3, <1>4, <1>5, <1>6, <1>7, <1>8, <1>9, <1>10 DEF NextPlanner

\* What is prepared keeps describing the model.
LEMMA DescribesStep ==
  ASSUME PlannerInv, [NextPlanner]_pvars
  PROVE  DescribesModel' /\ NothingYet'
<1> USE DEF Fetching
<1>0. /\ UNCHANGED <<hw, model, asked>> /\ TypeOKPlanner /\ TypeOKPlanner' /\ DescribesModel
      /\ \A b : Offered(b)' = Offered(b)
  BY PlannerTyped, SameInput DEF PlannerInv
<1>1. ppc' # "select" \/ UNCHANGED <<planVars, ppc>>
  BY PlannerSteps DEF NextEngine, PrepareEngine, InHand
<1>2. NothingYet'
  BY <1>1 DEF NothingYet, PlannerInv, planVars
<1>3. ASSUME NEW b \in Backends, prepared'[b] # NotPrepared \/ InHand(b)'
      PROVE  /\ DOMAIN prepared'[b] = Described
             /\ prepared'[b].layers = model.layers /\ prepared'[b].maxPos = model.maxPos
             /\ gridQuants'[b] = Offered(b)
  <2>1. CASE prepared'[b] = prepared[b] /\ gridQuants'[b] = gridQuants[b] /\ (InHand(b)' => InHand(b))
    BY <1>0, <1>3, <2>1 DEF DescribesModel
  <2>2. CASE PrepareEngine(Head(queue), Prepared(Head(queue)), Keep(Head(queue), Prepared(Head(queue)))) /\ queue # <<>>
    <3>1. CASE b = Head(queue)
      <4>1. prepared'[b] = Prepared(b) /\ gridQuants'[b] = DOMAIN Prepared(b).weights
        BY <1>0, <2>2, <3>1 DEF PrepareEngine, TypeOKPlanner
      <4> QED BY <4>1 DEF Prepared, Described
    <3>2. CASE b # Head(queue)
      <4>1. prepared'[b] = prepared[b] /\ gridQuants'[b] = gridQuants[b]
        BY <1>0, <2>2, <3>2 DEF PrepareEngine, TypeOKPlanner
      <4>2. (ppc' = "fetch" /\ queue' = queue) \/ ppc' = "next"
        BY <2>2 DEF PrepareEngine, NextEngine
      <4>3. ~InHand(b)'
        BY <3>2, <4>2 DEF InHand
      <4> QED BY <2>1, <4>1, <4>3
    <3> QED BY <3>1, <3>2
  <2>3. CASE InHand(Head(queue)) /\ queue' = queue /\ gridQuants' = gridQuants
             /\ ((\E s, w : prepared' = [prepared EXCEPT ![Head(queue)].source = s, ![Head(queue)].weights = w])
                 \/ \E d : prepared' = [prepared EXCEPT ![Head(queue)].draft = d])
    <3>1. CASE b = Head(queue)
      <4>1. /\ DOMAIN prepared'[b] = DOMAIN prepared[b]
            /\ prepared'[b].layers = prepared[b].layers /\ prepared'[b].maxPos = prepared[b].maxPos
        <5>1. DOMAIN prepared[b] = Described
          BY <1>0, <2>3, <3>1 DEF DescribesModel
        <5>2. b \in DOMAIN prepared
          BY <1>0 DEF TypeOKPlanner
        <5>3. CASE \E d : prepared' = [prepared EXCEPT ![b].draft = d]
          <6>1. PICK d : prepared' = [prepared EXCEPT ![b].draft = d]
            BY <5>3
          <6>2. prepared'[b] = [prepared[b] EXCEPT !.draft = d]
            BY <5>2, <6>1
          <6> QED BY <5>1, <6>2 DEF Described
        <5>4. CASE \E s, w : prepared' = [prepared EXCEPT ![b].source = s, ![b].weights = w]
          <6>1. PICK s, w : prepared' = [prepared EXCEPT ![b].source = s, ![b].weights = w]
            BY <5>4
          <6>2. prepared'[b] = [prepared[b] EXCEPT !.source = s, !.weights = w]
            BY <5>2, <6>1
          <6> QED BY <5>1, <6>2 DEF Described
        <5> QED BY <2>3, <3>1, <5>3, <5>4
      <4> QED BY <1>0, <2>3, <3>1, <4>1 DEF DescribesModel
    <3>2. CASE b # Head(queue)
      <4>1. prepared'[b] = prepared[b] /\ ~InHand(b)'
        BY <1>0, <2>3, <3>2 DEF TypeOKPlanner, InHand
      <4> QED BY <2>1, <2>3, <4>1
    <3> QED BY <3>1, <3>2
  <2>4. CASE UNCHANGED <<prepared, gridQuants>> /\ (ppc' \in {"next", "done", "served", "failed"} \/ (ppc' = ppc /\ queue' = queue))
    <3>1. InHand(b)' => InHand(b)
      BY <2>4 DEF InHand
    <3> QED BY <2>1, <2>4, <3>1
  <2>5. CASE UNCHANGED <<prepared, gridQuants>> /\ InHand(Head(queue)) /\ queue' = queue
    <3>1. InHand(b)' => InHand(b)
      BY <2>5 DEF InHand
    <3> QED BY <2>1, <2>5, <3>1
  <2>6. CASE UNCHANGED <<prepared, gridQuants>> /\ ppc' = "fetch" /\ \E k \in Backends : queue' = <<k>> /\ IsPrepared(k)
    <3>1. PICK k \in Backends : queue' = <<k>> /\ IsPrepared(k)
      BY <2>6
    <3>2. prepared[k] # NotPrepared
      BY <3>1 DEF IsPrepared, NotPrepared
    <3>3. prepared[b] # NotPrepared \/ b = k
      BY <1>3, <2>6, <3>1 DEF InHand
    <3> QED BY <1>0, <2>6, <3>2, <3>3 DEF DescribesModel
  <2> QED BY <2>2, <2>3, <2>4, <2>5, <2>6, PlannerSteps DEF planVars, NextEngine
<1> QED BY <1>0, <1>2, <1>3 DEF DescribesModel

\* What is kept is what fits, once an engine's turn is over.
LEMMA PlannedStep ==
  ASSUME PlannerInv, [NextPlanner]_pvars
  PROVE  Planned'
<1> USE DEF Fetching
<1> SUFFICES ASSUME Planning' PROVE Planned'
  BY DEF Planned
<1>0. /\ UNCHANGED <<hw, model, asked>> /\ TypeOKPlanner /\ DescribesModel /\ Planned /\ NothingYet
      /\ \A b : /\ Prepared(b)' = Prepared(b)
                /\ prepared'[b] = prepared[b] => Runnable(b)' = Runnable(b) /\ (IsPrepared(b)' <=> IsPrepared(b))
  BY PlannerTyped, SameInput DEF PlannerInv
<1> DEFINE h == Head(queue)
\* An engine whose plan and files stay as they are.
<1>1. ASSUME NEW b \in Backends \ errors', IsPrepared(b)', ~InHand(b)',
             prepared'[b] = prepared[b], feasible'[b] = feasible[b], errors \subseteq errors',
             ~InHand(b), Planning
      PROVE  feasible'[b] = Runnable(b)'
  BY <1>0, <1>1 DEF Planned
<1>2. CASE ppc = "select" /\ ppc' = "next" /\ UNCHANGED <<planVars, errors>>
  <2>1. (\A b : ~InHand(b)) /\ Planning
    BY <1>2 DEF InHand, Planning
  <2> QED BY <1>0, <1>1, <1>2, <2>1 DEF Planned, planVars
<1>3. CASE /\ queue # <<>> /\ h \in Backends /\ ppc \in {"next", "fetch", "convert", "fetched"}
           /\ UNCHANGED planVars
           /\ NextEngine(TRUE) /\ (Fetching => asked.materialize)
  <2>1. errors' = errors \cup {h} /\ ppc' = "next" /\ Planning
    BY <1>3 DEF NextEngine, Planning
  <2>2. \A b \in Backends \ errors' : ~InHand(b)
    BY <2>1 DEF InHand
  <2> QED BY <1>0, <1>1, <1>3, <2>1, <2>2 DEF Planned, planVars
<1>4. CASE queue # <<>> /\ h \in Backends /\ ppc = "next" /\ PrepareEngine(h, Prepared(h), Keep(h, Prepared(h)))
  <2>0. PICK k \in Backends : k = h
    BY <1>4
  <2>1. /\ prepared' = [prepared EXCEPT ![k] = Prepared(k)]
        /\ feasible' = [feasible EXCEPT ![k] = Keep(k, Prepared(k))]
        /\ errors' = errors /\ Planning
        /\ ppc' = "next" \/ (asked.materialize /\ ppc' = "fetch")
    BY <1>4, <2>0 DEF PrepareEngine, NextEngine, Planning
  <2>2. prepared'[k] = Prepared(k) /\ feasible'[k] = Keep(k, Prepared(k))
    BY <1>0, <1>4, <2>0, <2>1 DEF TypeOKPlanner
  <2>3. \A b \in Backends \ {k} : prepared'[b] = prepared[b] /\ feasible'[b] = feasible[b] /\ ~InHand(b)
    BY <1>0, <1>4, <2>0, <2>1 DEF TypeOKPlanner, InHand
  <2>4. feasible'[k] = Runnable(k)'
    BY <1>0, <2>2 DEF Keep, Plan, Runnable
  <2> QED BY <1>1, <2>1, <2>3, <2>4 DEF Planned
<1>5. CASE InHand(h) /\ InHand(h)' /\ queue' = queue /\ h \in Backends /\ UNCHANGED <<errors, feasible>>
           /\ (prepared' = prepared
               \/ (\E s, w : prepared' = [prepared EXCEPT ![h].source = s, ![h].weights = w])
               \/ \E d : prepared' = [prepared EXCEPT ![h].draft = d])
  <2>1. Planning
    BY <1>0, <1>5 DEF Planning, InHand
  <2>2. \A b \in Backends \ {h} : prepared'[b] = prepared[b] /\ ~InHand(b)
    BY <1>0, <1>5 DEF TypeOKPlanner, InHand
  <2> QED BY <1>1, <1>5, <2>1, <2>2 DEF Planned
<1>6. CASE InHand(h) /\ h \in Backends /\ NextEngine(FALSE) /\ asked.materialize
           /\ feasible' = [feasible EXCEPT ![h] = Replanned(h)]
           /\ UNCHANGED <<prepared, gridQuants>>
  <2>0. PICK k \in Backends : k = h
    BY <1>6
  <2>1. errors' = errors /\ Planning
    BY <1>6 DEF NextEngine, Planning, InHand
  <2>2. \A b \in Backends \ {k} : feasible'[b] = feasible[b] /\ ~InHand(b)
    BY <1>0, <1>6, <2>0 DEF TypeOKPlanner, InHand
  <2>3. feasible'[k] = Replanned(k)
    BY <1>0, <1>6, <2>0 DEF TypeOKPlanner
  <2>4. Replanned(k) = Runnable(k)
    BY <1>0, <1>6, <2>0, KeptIsRunnable DEF DescribesModel
  <2>5. Runnable(k)' = Runnable(k)
    BY <1>0, <1>6, <2>0
  <2> QED BY <1>1, <1>6, <2>1, <2>2, <2>3, <2>4, <2>5 DEF Planned
<1>7. CASE UNCHANGED <<planVars, errors, queue>> /\ (ppc' = ppc \/ (ppc = "next" /\ ppc' = "done"))
  <2>1. (\A b : InHand(b)' <=> InHand(b)) /\ Planning
    BY <1>0, <1>7 DEF InHand, Planning
  <2> QED BY <1>0, <1>7, <2>1 DEF Planned, planVars
<1>8. ~(ppc' \in {"served", "failed"}) /\ ~(~asked.materialize /\ ppc' = "fetch")
  BY <1>0 DEF Planning
<1> QED BY <1>2, <1>3, <1>4, <1>5, <1>6, <1>7, <1>8, PlannerSteps DEF planVars

\* Whatever is kept is of the engine's own grid.
LEMMA FromGridStep ==
  ASSUME PlannerInv, [NextPlanner]_pvars
  PROVE  FromGrid'
<1>0. /\ UNCHANGED <<hw, model, asked>> /\ TypeOKPlanner /\ DescribesModel /\ FromGrid
      /\ \A b : Prepared(b)' = Prepared(b)
  BY PlannerTyped, SameInput DEF PlannerInv
<1>1. CASE feasible' = feasible
  BY <1>0, <1>1 DEF FromGrid
<1>2. ASSUME NEW b \in Backends, NEW kept, feasible' = [feasible EXCEPT ![b] = kept],
             kept \subseteq CandidateConfigs(b, hw, Prepared(b), asked.minCtx)
      PROVE  FromGrid'
  BY <1>0, <1>2 DEF FromGrid, TypeOKPlanner
<1>3. ASSUME NEW b \in Backends PROVE Keep(b, Prepared(b)) \subseteq CandidateConfigs(b, hw, Prepared(b), asked.minCtx)
  BY DEF Keep, Plan
<1>4. ASSUME NEW b \in Backends, InHand(b)
      PROVE  Replanned(b) \subseteq CandidateConfigs(b, hw, Prepared(b), asked.minCtx)
  <2>1. Replanned(b) = Runnable(b)
    BY <1>0, <1>4, KeptIsRunnable DEF DescribesModel
  <2> QED BY <2>1 DEF Runnable
<1> QED BY <1>1, <1>2, <1>3, <1>4, PlannerSteps DEF PrepareEngine, planVars

\* Whether a configuration fits depends on the size of its own precision only.
LEMMA FitsBySize ==
  ASSUME NEW m, NEW p, NEW r, NEW c, p.layers = r.layers, p.kvTok = r.kvTok,
         c.quant \in DOMAIN r.weights, p.weights[c.quant] = r.weights[c.quant]
  PROVE  /\ Fits(m, p, c) => Fits(m, r, c)
         /\ HostHolds(m, p, c) => HostHolds(m, r, c)
<1>1. \A a : Share(a, p, c) = Share(a, r, c)
  BY DEF Share
<1>2. KvCache(p, c) = KvCache(r, c)
  BY DEF KvCache
<1>3. Need(m, p, c) = Need(m, r, c)
  BY <1>1, <1>2 DEF Need
<1>4. HostNeed(m, p, c) = HostNeed(m, r, c)
  BY DEF HostNeed
<1> QED BY <1>3, <1>4 DEF Fits, Sized, HostHolds

\* A download changes the source and the size of one precision of the engine in hand.
LEMMA DownloadEffect ==
  ASSUME PlannerInv, NEW b \in Backends, NEW q \in wanted, Download(b, q)
  PROVE  /\ b = Head(queue) /\ InHand(b) /\ InHand(b)'
         /\ DOMAIN prepared'[b].source = DOMAIN prepared[b].source
         /\ DOMAIN prepared'[b].weights = DOMAIN prepared[b].weights
         /\ \A x \in DOMAIN prepared[b].source : prepared'[b].source[x] = IF x = q THEN "disk" ELSE prepared[b].source[x]
         /\ \A x \in DOMAIN prepared[b].weights : x # q => prepared'[b].weights[x] = prepared[b].weights[x]
         /\ prepared'[b].layers = prepared[b].layers /\ prepared'[b].kvTok = prepared[b].kvTok
         /\ \A k \in Backends \ {b} : prepared'[k] = prepared[k]
<1>1. b = Head(queue) /\ InHand(b) /\ InHand(b)'
  BY DEF Download, InHand, Fetching
<1>2. DOMAIN prepared = Backends /\ DOMAIN prepared[b] = Described
  BY <1>1 DEF PlannerInv, TypeOKPlanner, DescribesModel
<1>3. PICK percent \in SizeErrors : OnDisk(b, {q}, percent)
  BY DEF Download
<1> DEFINE s == [x \in DOMAIN prepared[b].source |-> IF x \in {q} THEN "disk" ELSE prepared[b].source[x]]
           w == [x \in DOMAIN prepared[b].weights |->
                   IF x \in {q} THEN (prepared[b].weights[x] * percent) \div 100 ELSE prepared[b].weights[x]]
<1>4. prepared' = [prepared EXCEPT ![b] = [prepared[b] EXCEPT !.source = s, !.weights = w]]
  BY <1>2, <1>3 DEF OnDisk, Described
<1>5. prepared'[b] = [prepared[b] EXCEPT !.source = s, !.weights = w]
  BY <1>2, <1>4
<1>6. /\ prepared'[b].source = s /\ prepared'[b].weights = w
      /\ prepared'[b].layers = prepared[b].layers /\ prepared'[b].kvTok = prepared[b].kvTok
  BY <1>2, <1>5 DEF Described
<1>7. \A k \in Backends \ {b} : prepared'[k] = prepared[k]
  BY <1>2, <1>4
<1> QED BY <1>1, <1>6, <1>7

\* A conversion makes some files, drops what was wanted and not made, and leaves the rest.
LEMMA ConvertEffect ==
  ASSUME PlannerInv, Convert
  PROVE  \E b \in Backends, files \in SUBSET (wanted \cup {"F16"}) :
           /\ b = Head(queue) /\ InHand(b) /\ InHand(b)' /\ ppc' = "fetched" /\ wanted' = {}
           /\ DOMAIN prepared'[b].source = DOMAIN prepared'[b].weights
           /\ DOMAIN prepared'[b].weights = (DOMAIN prepared[b].weights \ (wanted \ files)) \cup files
           /\ \A x \in DOMAIN prepared'[b].weights : prepared'[b].source[x] = IF x \in files THEN "disk" ELSE prepared[b].source[x]
           /\ \A x \in DOMAIN prepared'[b].weights : x \notin files => prepared'[b].weights[x] = prepared[b].weights[x]
           /\ prepared'[b].layers = prepared[b].layers /\ prepared'[b].kvTok = prepared[b].kvTok
           /\ \A k \in Backends \ {b} : prepared'[k] = prepared[k]
<1>1. PICK b \in Backends : b = Head(queue)
  BY DEF Convert, PlannerInv, TypeOKPlanner, Fetching
<1>2. InHand(b) /\ InHand(b)' /\ ppc' = "fetched" /\ wanted' = {}
  BY <1>1 DEF PlannerInv, TypeOKPlanner, Convert, InHand, Fetching
<1>3. DOMAIN prepared = Backends /\ DOMAIN prepared[b] = Described
  BY <1>2 DEF PlannerInv, TypeOKPlanner, DescribesModel
<1>4. PICK files \in SUBSET (wanted \cup {"F16"}) : \E z : Converted(b, files, z, Recorded(b, files, wanted \ files))
  BY <1>1 DEF Convert
<1>5. PICK size : Converted(b, files, size, Recorded(b, files, wanted \ files))
  BY <1>4
<1> DEFINE Q == Recorded(b, files, wanted \ files)
           s == [x \in Q |-> IF x \in files THEN "disk" ELSE prepared[b].source[x]]
           w == [x \in Q |-> IF x \in files THEN (SizeOf(x) * size[x]) \div 100 ELSE prepared[b].weights[x]]
<1>6. prepared' = [prepared EXCEPT ![b] = [prepared[b] EXCEPT !.source = s, !.weights = w]]
  BY <1>3, <1>5 DEF Converted, Described
<1>7. prepared'[b] = [prepared[b] EXCEPT !.source = s, !.weights = w]
  BY <1>3, <1>6
<1>8. /\ prepared'[b].source = s /\ prepared'[b].weights = w
      /\ prepared'[b].layers = prepared[b].layers /\ prepared'[b].kvTok = prepared[b].kvTok
  BY <1>3, <1>7 DEF Described
<1>9. \A k \in Backends \ {b} : prepared'[k] = prepared[k]
  BY <1>3, <1>6
<1>10. Q = (DOMAIN prepared[b].weights \ (wanted \ files)) \cup files
  BY DEF Recorded
<1>11. /\ DOMAIN prepared'[b].source = Q /\ DOMAIN prepared'[b].weights = Q
       /\ \A x \in Q : prepared'[b].source[x] = IF x \in files THEN "disk" ELSE prepared[b].source[x]
       /\ \A x \in Q : x \notin files => prepared'[b].weights[x] = prepared[b].weights[x]
  BY <1>8
<1> HIDE DEF Q, s, w
<1> QED BY <1>1, <1>2, <1>8, <1>9, <1>10, <1>11

\* The draft model has nothing to do with the weights.
LEMMA DraftEffect ==
  ASSUME PlannerInv, NEW b \in Backends, FetchDraft(b)
  PROVE  /\ UNCHANGED <<hw, model, asked, chosen, ppc, queue, candidates, gridQuants, feasible, errors, wanted>>
         /\ \A k \in Backends : /\ prepared'[k].source = prepared[k].source /\ prepared'[k].weights = prepared[k].weights
                                /\ InHand(k)' <=> InHand(k)
         /\ prepared'[b].layers = prepared[b].layers /\ prepared'[b].kvTok = prepared[b].kvTok
         /\ b = Head(queue) /\ InHand(b)
         /\ \A k \in Backends \ {b} : prepared'[k] = prepared[k]
<1>1. UNCHANGED <<hw, model, asked, chosen, ppc, queue, candidates, gridQuants, feasible, errors, wanted>>
  BY DEF FetchDraft
<1>2. b = Head(queue) /\ InHand(b)
  BY DEF FetchDraft, PlannerInv, TypeOKPlanner, InHand, Fetching
<1>3. DOMAIN prepared = Backends /\ DOMAIN prepared[b] = Described
  BY <1>2 DEF PlannerInv, TypeOKPlanner, DescribesModel
<1>4. PICK d : prepared' = [prepared EXCEPT ![b].draft = d]
  BY DEF FetchDraft
<1>5. prepared'[b] = [prepared[b] EXCEPT !.draft = d]
  BY <1>3, <1>4
<1>6. /\ prepared'[b].source = prepared[b].source /\ prepared'[b].weights = prepared[b].weights
      /\ prepared'[b].layers = prepared[b].layers /\ prepared'[b].kvTok = prepared[b].kvTok
  BY <1>3, <1>5 DEF Described
<1>7. \A k \in Backends \ {b} : prepared'[k] = prepared[k]
  BY <1>3, <1>4
<1> QED BY <1>1, <1>2, <1>6, <1>7 DEF InHand, Fetching

\* The tables of an engine keep to the same precisions.
LEMMA SourcesStep ==
  ASSUME PlannerInv, [NextPlanner]_pvars
  PROVE  Sources'
<1> DEFINE Tables(p, b) ==
      /\ DOMAIN p.source = DOMAIN p.weights
      /\ \A q \in DOMAIN p.source : p.source[q] \in {"engine", "disk", "hub"} \/ (p.source[q] = "convert" /\ IsLlama(b))
<1>0. /\ TypeOKPlanner /\ Sources
      /\ \A b \in Backends : Tables(prepared[b], b)
  BY DEF PlannerInv, Sources
<1> SUFFICES /\ \A b \in Backends : Tables(prepared'[b], b)
             /\ ppc' = "convert" => \A q \in wanted' : SourceIs(Head(queue), q, "convert")'
  BY DEF Sources
<1> HIDE DEF Tables
<1>1. CASE UNCHANGED prepared /\ (ppc' = "convert" => UNCHANGED <<ppc, queue, wanted>>)
  BY <1>0, <1>1 DEF Sources, SourceIs
<1>2. CASE Prepare
  <2> DEFINE k == Head(queue)
  <2>1. /\ prepared' = [prepared EXCEPT ![k] = Prepared(k)] /\ ppc' # "convert"
    BY <1>2 DEF Prepare, PrepareEngine, NextEngine
  <2>2. Tables(Prepared(k), k)
    BY DEF Tables, Prepared, Source
  <2> HIDE DEF k
  <2>3. \A b \in Backends : prepared'[b] = prepared[b] \/ (b = k /\ prepared'[b] = Prepared(k))
    BY <1>0, <2>1 DEF TypeOKPlanner
  <2> QED BY <1>0, <2>1, <2>2, <2>3
<1>3. CASE Fetch
  <2>1. CASE \E b \in Backends : FetchDraft(b)
    <3>1. PICK b \in Backends : FetchDraft(b)
      BY <2>1
    <3>2. ppc' # "convert"
      BY <3>1 DEF FetchDraft
    <3> QED BY <1>0, <3>1, <3>2, DraftEffect DEF Tables
  <2>2. CASE \E b \in Backends : \E q \in wanted : Download(b, q)
    <3>1. PICK b \in Backends, q \in wanted : Download(b, q)
      BY <2>2
    <3>2. ppc' # "convert"
      BY <3>1 DEF Download
    <3>3. Tables(prepared'[b], b)
      BY <1>0, <3>1, DownloadEffect DEF Tables
    <3>4. \A k \in Backends \ {b} : prepared'[k] = prepared[k]
      BY <3>1, DownloadEffect
    <3> QED BY <1>0, <3>2, <3>3, <3>4
  <2> QED BY <1>3, <2>1, <2>2 DEF Fetch
<1>4. CASE Downloaded
  <2>1. /\ UNCHANGED <<prepared, queue>>
        /\ wanted' = {q \in wanted : SourceIs(Head(queue), q, "convert")}
    BY <1>4 DEF Downloaded, planVars
  <2> QED BY <1>0, <2>1 DEF SourceIs
<1>5. CASE Convert
  <2>1. PICK b \in Backends, files \in SUBSET (wanted \cup {"F16"}) :
          /\ ppc' = "fetched"
          /\ DOMAIN prepared'[b].source = DOMAIN prepared'[b].weights
          /\ DOMAIN prepared'[b].weights = (DOMAIN prepared[b].weights \ (wanted \ files)) \cup files
          /\ \A x \in DOMAIN prepared'[b].weights : prepared'[b].source[x] = IF x \in files THEN "disk" ELSE prepared[b].source[x]
          /\ \A k \in Backends \ {b} : prepared'[k] = prepared[k]
    BY <1>5, ConvertEffect
  <2>2. Tables(prepared'[b], b)
    BY <1>0, <2>1 DEF Tables
  <2> QED BY <1>0, <2>1, <2>2
<1>6. CASE Select \/ PrepareFails \/ MaterializeFails \/ Replan \/ Finish \/ Choose \/ Serve \/ ServeFails \/ UNCHANGED pvars
  <2>1. UNCHANGED prepared /\ (ppc' = "convert" => UNCHANGED <<ppc, queue, wanted>>)
    BY <1>6 DEF Select, PrepareFails, MaterializeFails, Replan, ReplanEngine, Finish, Choose, ChooseConfig, Serve, ServeFails,
                NextEngine, planVars, pvars
  <2> QED BY <1>1, <2>1
<1> QED BY <1>2, <1>3, <1>4, <1>5, <1>6 DEF NextPlanner

\* What is in place stays in place when the files of another engine, or of another precision, change.
LEMMA StaysInPlace ==
  ASSUME NEW c, prepared'[c.backend].source = prepared[c.backend].source
  PROVE  InPlace(c)' <=> InPlace(c)
BY DEF InPlace, SourceIs

\* A configuration of the grid of llama.cpp.
CandidateOf(b, q, ctx, np, ngl, nb) == [Config(b, q, ctx, np) EXCEPT !.ngl = ngl, !.nbatch = nb]

\* The grid of llama.cpp, whether it offloads to a GPU or not.
LEMMA LlamaGridIs ==
  ASSUME NEW b, NEW pm, NEW n
  PROVE  LlamaCandidates(b, pm, n) =
           {CandidateOf(b, q, ctx, np, ngl, nb) :
              q \in DOMAIN pm.weights, ctx \in CtxGrid(pm.maxPos, n), np \in {1, 4, 8},
              ngl \in (IF b = "llamacpp-cuda" THEN Offloads(pm.layers) ELSE {0}),
              nb \in (IF b = "llamacpp-cuda" THEN {512} ELSE {512, 2048})}
  BY DEF LlamaCandidates, CandidateOf

LEMMA LlamaIs ==
  ASSUME NEW b, NEW pm, NEW n, NEW c \in LlamaCandidates(b, pm, n)
  PROVE  \E q \in DOMAIN pm.weights, ctx \in CtxGrid(pm.maxPos, n), np \in {1, 4, 8},
            ngl \in {0} \cup Offloads(pm.layers), nb \in {512, 2048} : c = CandidateOf(b, q, ctx, np, ngl, nb)
  BY LlamaGridIs

\* All the fields of a configuration of that grid.
LEMMA CandidateIs ==
  ASSUME NEW b, NEW q, NEW ctx, NEW np, NEW ngl, NEW nb
  PROVE  CandidateOf(b, q, ctx, np, ngl, nb) =
           [backend |-> b, quant |-> q, ctx |-> ctx, batch |-> np, gmu |-> 0, ngl |-> ngl, nbatch |-> nb, pb |-> 0,
            kv |-> "auto", prefix |-> "engine", spec |-> "none", tp |-> 1, extra |-> {}]
<1>1. PICK r : r = [Config(b, q, ctx, np) EXCEPT !.ngl = ngl]
  OBVIOUS
<1>2. r = [backend |-> b, quant |-> q, ctx |-> ctx, batch |-> np, gmu |-> 0, ngl |-> ngl, nbatch |-> 0, pb |-> 0,
           kv |-> "auto", prefix |-> "engine", spec |-> "none", tp |-> 1, extra |-> {}]
  BY <1>1 DEF Config
<1>3. CandidateOf(b, q, ctx, np, ngl, nb) = [r EXCEPT !.nbatch = nb]
  BY <1>1 DEF CandidateOf
<1> QED BY <1>2, <1>3

\* A configuration of an engine, whatever else it says.
OfEngine(c, b) == c.backend = b /\ {"backend", "quant"} \subseteq DOMAIN c

ServerOf(b, q, ctx, n, gmu) == [Config(b, q, ctx, n) EXCEPT !.gmu = gmu]

LEMMA ConfigOfEngine ==
  ASSUME NEW b, NEW q, NEW ctx, NEW n, NEW gmu
  PROVE  OfEngine(Config(b, q, ctx, n), b) /\ OfEngine([Config(b, q, ctx, n) EXCEPT !.gmu = gmu], b)
<1>1. PICK r : r = Config(b, q, ctx, n)
  OBVIOUS
<1>2. r.backend = b /\ {"backend", "quant"} \subseteq DOMAIN r
  BY <1>1 DEF Config
<1>3. PICK e : e = [r EXCEPT !.gmu = gmu]
  OBVIOUS
<1>4. DOMAIN e = DOMAIN r /\ e.backend = r.backend
  BY <1>2, <1>3
<1> QED BY <1>1, <1>2, <1>3, <1>4 DEF OfEngine

LEMMA CandidateOfEngine ==
  ASSUME NEW b, NEW q, NEW ctx, NEW np, NEW ngl, NEW nb
  PROVE  OfEngine(CandidateOf(b, q, ctx, np, ngl, nb), b)
BY CandidateIs DEF OfEngine

\* The configurations of an engine's grid are of that engine.
LEMMA GridOfEngine ==
  ASSUME NEW b \in Backends, NEW m, NEW p, NEW n, NEW c \in CandidateConfigs(b, m, p, n)
  PROVE  OfEngine(c, b)
<1>1. ASSUME NEW k, NEW Q, NEW F, NEW C, NEW x \in ServerGrid(k, Q, F, C) PROVE OfEngine(x, k)
  <2>1. x \in {ServerOf(k, q, ctx, batch, gmu) : q \in Q, gmu \in F, ctx \in C, batch \in {16, 64, 256}}
    BY <1>1 DEF ServerGrid, ServerOf
  <2>2. PICK q \in Q, gmu \in F, ctx \in C, batch \in {16, 64, 256} : x = ServerOf(k, q, ctx, batch, gmu)
    BY <2>1
  <2> QED BY <2>2, ConfigOfEngine DEF ServerOf
<1>2. CASE b = "vllm"
  <2>1. CandidateConfigs(b, m, p, n) = VllmCandidates(m, p, n)
    BY <1>2 DEF CandidateConfigs, IsLlama
  <2> QED BY <1>1, <1>2, <2>1 DEF VllmCandidates
<1>3. CASE b = "sglang"
  <2>1. CandidateConfigs(b, m, p, n) = SglangCandidates(m, p, n)
    BY <1>3 DEF CandidateConfigs, IsLlama
  <2> QED BY <1>1, <1>3, <2>1 DEF SglangCandidates
<1>4. CASE b = "vllm-cpu"
  <2>1. CandidateConfigs(b, m, p, n) = VllmCpuCandidates(p, n)
    BY <1>4 DEF CandidateConfigs, IsLlama
  <2>2. PICK ctx, batch : c = Config(b, "bf16", ctx, batch)
    BY <1>4, <2>1 DEF VllmCpuCandidates
  <2> QED BY <2>2, ConfigOfEngine
<1>5. CASE IsLlama(b)
  <2>1. c \in LlamaCandidates(b, p, n)
    BY <1>5 DEF CandidateConfigs, IsLlama
  <2> QED BY <2>1, LlamaIs, CandidateOfEngine
<1> QED BY <1>2, <1>3, <1>4, <1>5 DEF Backends, IsLlama

\* What fits of the engine in hand is still to be fetched or in place; what is kept of the others is there.
LEMMA InPlaceStep ==
  ASSUME PlannerInv, [NextPlanner]_pvars
  PROVE  WillBeInPlace'
<1>0. /\ UNCHANGED <<hw, model, asked>> /\ TypeOKPlanner /\ TypeOKPlanner' /\ DescribesModel /\ Sources /\ FromGrid /\ WillBeInPlace
      /\ \A b : Prepared(b)' = Prepared(b) /\ (prepared'[b] = prepared[b] => Runnable(b)' = Runnable(b))
  BY PlannerTyped, SameInput DEF PlannerInv
<1> SUFFICES ASSUME asked.materialize PROVE WillBeInPlace'
  BY <1>0 DEF WillBeInPlace
<1>1. /\ \A b \in Backends : InHand(b) => \A c \in Runnable(b) : c.quant \in wanted \/ InPlace(c)
      /\ \A b \in Backends \ errors : ~InHand(b) => \A c \in feasible[b] : InPlace(c)
      /\ ppc = "fetched" => wanted = {}
      /\ ppc # "served"
  BY <1>0 DEF WillBeInPlace
<1>2. ASSUME NEW b \in Backends, NEW c \in Runnable(b) \cup feasible[b] \cup Runnable(b)' PROVE c.backend = b
  <2>1. c \in CandidateConfigs(b, hw, Prepared(b), asked.minCtx)
    BY <1>0, <1>2 DEF Runnable, FromGrid
  <2> QED BY <2>1, GridOfEngine DEF OfEngine
\* The engines that are not touched.
<1>3. ASSUME NEW b \in Backends, b \notin errors, ~InHand(b), prepared'[b] = prepared[b], feasible'[b] = feasible[b],
             NEW c \in feasible'[b]
      PROVE  InPlace(c)'
  <2>1. InPlace(c) /\ c.backend = b
    BY <1>1, <1>2, <1>3
  <2> QED BY <1>3, <2>1, StaysInPlace
<1>4. CASE PrepareFails \/ MaterializeFails
  <2>1. /\ queue # <<>> /\ NextEngine(TRUE) /\ UNCHANGED <<planVars, chosen>>
    BY <1>0, <1>4 DEF PrepareFails, MaterializeFails, MayRaise, TypeOKPlanner, Fetching
  <2>2. errors' = errors \cup {Head(queue)} /\ ppc' = "next" /\ \A b : ~InHand(b)'
    BY <2>1 DEF NextEngine, InHand, Fetching
  <2>3. \A b \in Backends \ errors' : b \notin errors /\ ~InHand(b)
    BY <2>2 DEF InHand
  <2> QED BY <1>1, <1>3, <2>1, <2>2, <2>3 DEF WillBeInPlace, planVars
<1>5. CASE Prepare
  <2>0. PICK k \in Backends : k = Head(queue) /\ PrepareEngine(k, Prepared(k), Keep(k, Prepared(k))) /\ ppc = "next"
    BY <1>0, <1>5 DEF Prepare, TypeOKPlanner
  <2>1. /\ prepared' = [prepared EXCEPT ![k] = Prepared(k)]
        /\ feasible' = [feasible EXCEPT ![k] = Keep(k, Prepared(k))]
        /\ errors' = errors /\ chosen' = chosen
        /\ \/ Keep(k, Prepared(k)) = {} /\ ppc' = "next"
           \/ ppc' = "fetch" /\ queue' = queue /\ wanted' = {c.quant : c \in Keep(k, Prepared(k))}
    BY <1>5, <2>0 DEF Prepare, PrepareEngine, NextEngine
  <2>2. prepared'[k] = Prepared(k) /\ feasible'[k] = Keep(k, Prepared(k))
    BY <1>0, <2>0, <2>1 DEF TypeOKPlanner
  <2>3. \A b \in Backends \ {k} : prepared'[b] = prepared[b] /\ feasible'[b] = feasible[b] /\ ~InHand(b)
    BY <1>0, <2>0, <2>1 DEF TypeOKPlanner, InHand, Fetching
  <2>4. Runnable(k)' = Keep(k, Prepared(k))
    BY <1>0, <2>2 DEF Keep, Plan, Runnable
  <2>5. \A b \in Backends : InHand(b)' => b = k /\ wanted' = {c.quant : c \in Keep(k, Prepared(k))}
    BY <2>0, <2>1 DEF InHand, Fetching
  <2>6. InHand(k)' \/ feasible'[k] = {}
    BY <1>0, <1>5, <2>0, <2>1, <2>2 DEF InHand, Fetching, Prepare
  <2>7. ASSUME NEW b \in Backends, InHand(b)', NEW c \in Runnable(b)' PROVE c.quant \in wanted'
    BY <2>4, <2>5, <2>7
  <2>8. ASSUME NEW b \in Backends \ errors', ~InHand(b)', NEW c \in feasible'[b] PROVE InPlace(c)'
    BY <1>3, <2>1, <2>3, <2>6, <2>8
  <2>9. ppc' \notin {"fetched", "served"}
    BY <2>1
  <2> QED BY <2>7, <2>8, <2>9 DEF WillBeInPlace
<1>6. CASE \E b \in Backends : \E q \in wanted : Download(b, q)
  <2>1. PICK b \in Backends, q \in wanted : Download(b, q)
    BY <1>6
  <2>2. /\ UNCHANGED <<ppc, queue, feasible, errors, chosen>> /\ wanted' = wanted \ {q} /\ ppc = "fetch"
    BY <2>1 DEF Download
  <2>3. b = Head(queue) /\ InHand(b) /\ InHand(b)' /\ \A k \in Backends \ {b} : prepared'[k] = prepared[k] /\ ~InHand(k) /\ ~InHand(k)'
    <3>1. b = Head(queue) /\ InHand(b) /\ InHand(b)' /\ \A k \in Backends \ {b} : prepared'[k] = prepared[k]
      BY <2>1, DownloadEffect
    <3> QED BY <2>2, <3>1 DEF InHand
  <2>4. ASSUME NEW c \in Runnable(b)' PROVE c.quant \in wanted' \/ InPlace(c)'
    <3>1. c.backend = b /\ c.quant \in DOMAIN prepared'[b].weights
      BY <1>2, <2>4 DEF Runnable, Fits, Sized
    <3>2. /\ DOMAIN prepared'[b].weights = DOMAIN prepared[b].weights
          /\ DOMAIN prepared'[b].source = DOMAIN prepared[b].source
          /\ DOMAIN prepared[b].source = DOMAIN prepared[b].weights
          /\ \A x \in DOMAIN prepared[b].source : prepared'[b].source[x] = IF x = q THEN "disk" ELSE prepared[b].source[x]
          /\ \A x \in DOMAIN prepared[b].weights : x # q => prepared'[b].weights[x] = prepared[b].weights[x]
          /\ prepared'[b].layers = prepared[b].layers /\ prepared'[b].kvTok = prepared[b].kvTok
      BY <1>0, <2>1, DownloadEffect DEF Sources
    <3>3. CASE c.quant = q
      <4>1. prepared'[b].source[c.quant] = "disk"
        BY <3>1, <3>2, <3>3
      <4> QED BY <3>1, <3>2, <4>1 DEF InPlace, SourceIs
    <3>4. CASE c.quant # q
      <4>1. c.quant \in DOMAIN prepared[b].weights /\ prepared'[b].weights[c.quant] = prepared[b].weights[c.quant]
        BY <3>1, <3>2, <3>4
      <4>2. c \in Runnable(b)
        <5>1. /\ c \in CandidateConfigs(b, hw, Prepared(b), asked.minCtx)
              /\ Fits(hw, prepared'[b], c) /\ HostHolds(hw, prepared'[b], c)
          BY <1>0, <2>4 DEF Runnable
        <5>2. Fits(hw, prepared[b], c) /\ HostHolds(hw, prepared[b], c)
          BY <3>2, <4>1, <5>1, FitsBySize
        <5> QED BY <5>1, <5>2 DEF Runnable
      <4>3. c.quant \in wanted \/ InPlace(c)
        BY <1>1, <2>3, <4>2
      <4>4. InPlace(c) => InPlace(c)'
        BY <3>1, <3>2, <3>4 DEF InPlace, SourceIs
      <4> QED BY <2>2, <3>4, <4>3, <4>4
    <3> QED BY <3>3, <3>4
  <2>5. ASSUME NEW k \in Backends \ errors', ~InHand(k)', NEW c \in feasible'[k] PROVE InPlace(c)'
    BY <1>3, <2>2, <2>3, <2>5
  <2> QED BY <1>1, <2>2, <2>3, <2>4, <2>5 DEF WillBeInPlace
<1>7. CASE \E b \in Backends : FetchDraft(b)
  <2>1. PICK b \in Backends : FetchDraft(b)
    BY <1>7
  <2>2. /\ UNCHANGED <<hw, model, asked, chosen, ppc, queue, feasible, errors, wanted>>
        /\ \A k \in Backends : /\ prepared'[k].source = prepared[k].source /\ prepared'[k].weights = prepared[k].weights
                               /\ InHand(k)' <=> InHand(k)
        /\ prepared'[b].layers = prepared[b].layers /\ prepared'[b].kvTok = prepared[b].kvTok
        /\ b = Head(queue) /\ InHand(b)
        /\ \A k \in Backends \ {b} : prepared'[k] = prepared[k]
    BY <2>1, DraftEffect
  <2>3. \A k \in Backends : InHand(k)' => k = b
    BY <2>2 DEF InHand
  <2>4. ASSUME NEW c \in Runnable(b)' PROVE c.quant \in wanted' \/ InPlace(c)'
    <3>1. c.backend = b
      BY <1>2, <2>4
    <3>2. /\ c \in CandidateConfigs(b, hw, Prepared(b), asked.minCtx)
          /\ Fits(hw, prepared'[b], c) /\ HostHolds(hw, prepared'[b], c)
      BY <1>0, <2>4 DEF Runnable
    <3>3. c.quant \in DOMAIN prepared[b].weights
      BY <2>2, <3>2 DEF Fits, Sized
    <3>4. Fits(hw, prepared[b], c) /\ HostHolds(hw, prepared[b], c)
      BY <2>2, <3>2, <3>3, FitsBySize
    <3>5. c.quant \in wanted \/ InPlace(c)
      BY <1>1, <2>2, <3>2, <3>4 DEF Runnable
    <3> QED BY <2>2, <3>1, <3>5, StaysInPlace
  <2>5. ASSUME NEW k \in Backends \ errors', ~InHand(k)', NEW c \in feasible'[k] PROVE InPlace(c)'
    BY <1>3, <2>2, <2>5
  <2> QED BY <1>1, <2>2, <2>3, <2>4, <2>5 DEF WillBeInPlace
<1>8. CASE Downloaded
  <2>1. /\ UNCHANGED <<prepared, queue, feasible, errors, chosen>> /\ ppc = "fetch"
        /\ \A q \in wanted : ~SourceIs(Head(queue), q, "hub")
        /\ wanted' = {q \in wanted : SourceIs(Head(queue), q, "convert")}
        /\ ppc' = IF wanted' = {} THEN "fetched" ELSE "convert"
    BY <1>8 DEF Downloaded, planVars
  <2>2. \A b \in Backends : InHand(b)' <=> InHand(b)
    BY <2>1 DEF InHand, Fetching
  <2>3. ASSUME NEW b \in Backends, InHand(b), NEW c \in Runnable(b) PROVE c.quant \in wanted' \/ InPlace(c)'
    <3>1. c.backend = b /\ b = Head(queue) /\ c.quant \in DOMAIN prepared[b].source
      BY <1>0, <1>2, <2>3 DEF InHand, Runnable, Fits, Sized, Sources
    <3>2. InPlace(c)' <=> InPlace(c)
      BY <2>1, StaysInPlace
    <3>3. CASE c.quant \in wanted
      <4>1. prepared[b].source[c.quant] \in {"engine", "disk", "convert"}
        BY <1>0, <2>1, <3>1, <3>3 DEF Sources, SourceIs
      <4> QED BY <2>1, <3>1, <3>2, <3>3, <4>1 DEF InPlace, SourceIs
    <3> QED BY <1>1, <2>3, <3>2, <3>3
  <2>4. \A b \in Backends : Runnable(b)' = Runnable(b)
    BY <1>0, <2>1
  <2>5. ASSUME NEW k \in Backends \ errors', ~InHand(k)', NEW c \in feasible'[k] PROVE InPlace(c)'
    BY <1>3, <2>1, <2>2, <2>5
  <2> QED BY <1>1, <2>1, <2>2, <2>3, <2>4, <2>5 DEF WillBeInPlace
<1>9. CASE Convert
  <2>1. PICK b \in Backends, files \in SUBSET (wanted \cup {"F16"}) :
          /\ b = Head(queue) /\ InHand(b) /\ InHand(b)' /\ ppc' = "fetched" /\ wanted' = {}
          /\ DOMAIN prepared'[b].source = DOMAIN prepared'[b].weights
          /\ DOMAIN prepared'[b].weights = (DOMAIN prepared[b].weights \ (wanted \ files)) \cup files
          /\ \A x \in DOMAIN prepared'[b].weights : prepared'[b].source[x] = IF x \in files THEN "disk" ELSE prepared[b].source[x]
          /\ \A x \in DOMAIN prepared'[b].weights : x \notin files => prepared'[b].weights[x] = prepared[b].weights[x]
          /\ prepared'[b].layers = prepared[b].layers /\ prepared'[b].kvTok = prepared[b].kvTok
          /\ \A k \in Backends \ {b} : prepared'[k] = prepared[k]
    BY <1>9, ConvertEffect
  <2>2. UNCHANGED <<queue, feasible, errors, chosen>>
    BY <1>9 DEF Convert
  <2>3. \A k \in Backends \ {b} : ~InHand(k) /\ ~InHand(k)'
    BY <2>1, <2>2 DEF InHand
  <2>4. ASSUME NEW c \in Runnable(b)' PROVE InPlace(c)'
    <3>1. c.backend = b /\ c.quant \in DOMAIN prepared'[b].weights
      BY <1>2, <2>4 DEF Runnable, Fits, Sized
    <3>2. CASE c.quant \in files
      BY <2>1, <3>1, <3>2 DEF InPlace, SourceIs
    <3>3. CASE c.quant \notin files
      <4>1. c.quant \in DOMAIN prepared[b].weights /\ c.quant \notin wanted
            /\ prepared'[b].weights[c.quant] = prepared[b].weights[c.quant]
        BY <2>1, <3>1, <3>3
      <4>2. /\ c \in CandidateConfigs(b, hw, Prepared(b), asked.minCtx)
            /\ Fits(hw, prepared'[b], c) /\ HostHolds(hw, prepared'[b], c)
        BY <1>0, <2>4 DEF Runnable
      <4>3. Fits(hw, prepared[b], c) /\ HostHolds(hw, prepared[b], c)
        BY <2>1, <4>1, <4>2, FitsBySize
      <4>4. InPlace(c)
        BY <1>1, <2>1, <4>1, <4>2, <4>3 DEF Runnable
      <4> QED BY <2>1, <3>1, <3>3, <4>4 DEF InPlace, SourceIs
    <3> QED BY <3>2, <3>3
  <2>5. ASSUME NEW k \in Backends \ errors', ~InHand(k)', NEW c \in feasible'[k] PROVE InPlace(c)'
    BY <1>3, <2>1, <2>2, <2>3, <2>5
  <2> QED BY <1>1, <2>1, <2>2, <2>3, <2>4, <2>5 DEF WillBeInPlace
<1>10. CASE Replan
  <2>1. PICK k \in Backends : k = Head(queue) /\ InHand(k) /\ ppc = "fetched" /\ ReplanEngine(k)
    BY <1>0, <1>10 DEF Replan, TypeOKPlanner, InHand, Fetching
  <2>2. /\ UNCHANGED <<prepared, chosen>> /\ ppc' = "next"
        /\ \/ feasible' = [feasible EXCEPT ![k] = Replanned(k)] /\ errors' = errors
           \/ feasible' = feasible /\ errors' = errors \cup {k}
    BY <2>1 DEF ReplanEngine, NextEngine
  <2>3. \A b \in Backends : ~InHand(b)'
    BY <2>2 DEF InHand, Fetching
  <2>4. \A b \in Backends \ {k} : ~InHand(b) /\ feasible'[b] = feasible[b]
    BY <1>0, <2>1, <2>2 DEF InHand, TypeOKPlanner
  <2>5. Replanned(k) = Runnable(k)
    BY <1>0, <2>1, KeptIsRunnable DEF DescribesModel
  <2>6. ASSUME NEW b \in Backends \ errors', NEW c \in feasible'[b] PROVE InPlace(c)'
    <3>1. CASE b # k
      BY <1>3, <2>2, <2>4, <2>6, <3>1
    <3>2. CASE b = k
      <4>1. c \in Runnable(k)
        BY <1>0, <2>2, <2>5, <2>6, <3>2 DEF TypeOKPlanner
      <4>2. InPlace(c)
        BY <1>1, <2>1, <4>1
      <4> QED BY <2>2, <4>2, StaysInPlace
    <3> QED BY <3>1, <3>2
  <2> QED BY <1>1, <2>2, <2>3, <2>6 DEF WillBeInPlace
<1>11. CASE Select \/ Finish \/ UNCHANGED pvars
  <2>1. /\ UNCHANGED <<planVars, errors, wanted, chosen>>
        /\ UNCHANGED <<ppc, queue>> \/ (~Fetching /\ ~Fetching' /\ ppc' \notin {"fetched", "served"})
    BY <1>11 DEF Select, Finish, pvars, planVars, Fetching
  <2>2. \A b \in Backends : InHand(b)' <=> InHand(b)
    BY <2>1 DEF InHand, Fetching
  <2>3. \A b \in Backends : Runnable(b)' = Runnable(b)
    BY <1>0, <2>1 DEF planVars
  <2>4. \A c : InPlace(c)' <=> InPlace(c)
    BY <2>1 DEF InPlace, SourceIs, planVars
  <2> QED BY <1>1, <2>1, <2>2, <2>3, <2>4 DEF WillBeInPlace, planVars, Fetching
<1>12. ~Choose /\ ~Serve /\ ~ServeFails
  BY DEF Choose, Serve, ServeFails
<1> QED BY <1>4, <1>5, <1>6, <1>7, <1>8, <1>9, <1>10, <1>11, <1>12 DEF NextPlanner, Fetch

\* The default of an engine is of that engine.
LEMMA DefaultOfEngine ==
  ASSUME NEW b \in Backends, NEW m, NEW p, NEW n
  PROVE  OfEngine(DefaultConfig(b, m, p, n), b)
<1>1. CASE b = "vllm"
  <2>1. DefaultConfig(b, m, p, n) = VllmDefault(m, p, n)
    BY <1>1 DEF DefaultConfig, IsLlama
  <2>2. VllmDefault(m, p, n) = ServerOf("vllm", FullPrecision(m), DefaultCtx(p, n), 256, 90)
    BY DEF VllmDefault, ServerOf
  <2>3. OfEngine(ServerOf("vllm", FullPrecision(m), DefaultCtx(p, n), 256, 90), b)
    BY <1>1, ConfigOfEngine DEF ServerOf
  <2> QED BY <2>1, <2>2, <2>3
<1>2. CASE b = "sglang"
  <2>1. DefaultConfig(b, m, p, n) = SglangDefault(m, p, n)
    BY <1>2 DEF DefaultConfig, IsLlama
  <2>2. SglangDefault(m, p, n) = ServerOf("sglang", FullPrecision(m), DefaultCtx(p, n), 256, 88)
    BY DEF SglangDefault, ServerOf
  <2>3. OfEngine(ServerOf("sglang", FullPrecision(m), DefaultCtx(p, n), 256, 88), b)
    BY <1>2, ConfigOfEngine DEF ServerOf
  <2> QED BY <2>1, <2>2, <2>3
<1>3. CASE b = "vllm-cpu"
  <2>1. DefaultConfig(b, m, p, n) = VllmCpuDefault(p, n)
    BY <1>3 DEF DefaultConfig, IsLlama
  <2>2. VllmCpuDefault(p, n) = Config("vllm-cpu", "bf16", DefaultCtx(p, n), 16)
    BY DEF VllmCpuDefault, ServerOf
  <2>3. OfEngine(Config("vllm-cpu", "bf16", DefaultCtx(p, n), 16), b)
    BY <1>3, ConfigOfEngine DEF ServerOf
  <2> QED BY <2>1, <2>2, <2>3
<1>4. CASE IsLlama(b)
  <2>1. DefaultConfig(b, m, p, n) = LlamaDefault(b, p, n)
    BY <1>4 DEF DefaultConfig, IsLlama
  <2>2. \E ngl : LlamaDefault(b, p, n) = CandidateOf(b, FirstGguf(p), DefaultCtx(p, n), 4, ngl, 512)
    BY DEF LlamaDefault, CandidateOf
  <2> QED BY <2>1, <2>2, CandidateOfEngine
<1> QED BY <1>1, <1>2, <1>3, <1>4 DEF Backends, IsLlama

\* What may be served uncalibrated is of its engine, in a precision whose size is recorded.
LEMMA ChoiceIsRecorded ==
  ASSUME FromGrid, NEW b \in Backends, NEW c \in DefaultChoices(b)
  PROVE  c.backend = b /\ c.quant \in DOMAIN prepared[b].weights
<1>1. PICK d \in Preferred(b) :
        c \in {[d EXCEPT !.quant = x] : x \in IF Sized(prepared[b], d) THEN {d.quant} ELSE DOMAIN prepared[b].weights}
  BY DEF DefaultChoices
<1>2. d = DefaultConfig(b, hw, prepared[b], asked.minCtx) \/ d \in feasible[b]
  BY DEF Preferred
<1>3. d.backend = b /\ {"backend", "quant"} \subseteq DOMAIN d
  BY <1>2, DefaultOfEngine, GridOfEngine DEF FromGrid, OfEngine
<1>4. PICK q \in DOMAIN prepared[b].weights : c = [d EXCEPT !.quant = q]
  BY <1>1 DEF Sized
<1> QED BY <1>3, <1>4

\* What is served uncalibrated was asked for, and is fetched before it is served.
LEMMA ChoiceStep ==
  ASSUME PlannerInv, [NextPlanner]_pvars
  PROVE  ChoiceIsAskedFor'
<1>0. /\ UNCHANGED <<hw, model, asked>> /\ TypeOKPlanner /\ Sources /\ FromGrid /\ ChoiceIsAskedFor
      /\ \A b : Offered(b)' = Offered(b)
  BY PlannerTyped, SameInput DEF PlannerInv
<1> SUFFICES ASSUME ~asked.materialize PROVE ChoiceIsAskedFor'
  BY <1>0 DEF ChoiceIsAskedFor
<1> DEFINE Tables == \A b \in Backends : DOMAIN prepared[b].weights \in {{}, Offered(b)}
           Chosen == /\ chosen.backend \in Backends /\ chosen.quant \in Offered(chosen.backend)
                     /\ chosen.quant \in wanted \cap DOMAIN prepared[chosen.backend].source \/ InPlace(chosen) \/ IsLlama(chosen.backend)
<1>1. /\ ppc \notin {"failed", "served"} /\ ~Fetching => Tables
      /\ Fetching => queue = <<chosen.backend>>
      /\ Fetching \/ ppc = "served" => Chosen
      /\ ppc = "fetched" => wanted = {}
      /\ ppc = "served" => Launches(chosen) /\ wanted = {}
  BY DEF ChoiceIsAskedFor, PlannerInv
<1>2. SUFFICES /\ ppc' \notin {"failed", "served"} /\ ~Fetching' => Tables'
               /\ Fetching' => queue' = <<chosen'.backend>>
               /\ Fetching' \/ ppc' = "served" => Chosen'
               /\ ppc' = "fetched" => wanted' = {}
               /\ ppc' = "served" => Launches(chosen)' /\ wanted' = {}
  BY <1>0 DEF ChoiceIsAskedFor
<1>3. CASE Select \/ PrepareFails \/ Finish
  <2>1. UNCHANGED prepared /\ ppc \in {"select", "next"} /\ ppc' \in {"next", "done"}
    BY <1>3 DEF Select, PrepareFails, Finish, NextEngine, planVars
  <2> QED BY <1>0, <1>1, <2>1 DEF Fetching
<1>4. CASE Prepare
  <2>0. PICK k \in Backends : k = Head(queue) /\ PrepareEngine(k, Prepared(k), Keep(k, Prepared(k))) /\ ppc = "next"
    BY <1>0, <1>4 DEF Prepare, TypeOKPlanner
  <2>1. prepared' = [prepared EXCEPT ![k] = Prepared(k)] /\ ppc' = "next"
    BY <2>0 DEF PrepareEngine, NextEngine
  <2>2. DOMAIN Prepared(k).weights = Offered(k)
    BY DEF Prepared
  <2>3. \A b \in Backends : prepared'[b] = prepared[b] \/ (b = k /\ prepared'[b] = Prepared(k))
    BY <1>0, <2>1 DEF TypeOKPlanner
  <2>4. Tables'
    BY <1>0, <1>1, <2>0, <2>2, <2>3 DEF Fetching
  <2> QED BY <2>1, <2>4 DEF Fetching
<1>5. CASE Fetch
  <2>1. CASE \E b \in Backends : FetchDraft(b)
    <3>1. PICK b \in Backends : FetchDraft(b)
      BY <2>1
    <3>2. UNCHANGED <<chosen, ppc, queue, wanted>> /\ ppc = "fetched" /\ \A k \in Backends : prepared'[k].source = prepared[k].source
      BY <3>1, DraftEffect DEF FetchDraft
    <3>3. Chosen
      BY <1>1, <3>2 DEF Fetching
    <3>4. Chosen'
      BY <1>0, <3>2, <3>3 DEF InPlace, SourceIs
    <3> QED BY <1>1, <3>2, <3>4 DEF Fetching
  <2>2. CASE \E b \in Backends : \E q \in wanted : Download(b, q)
    <3>1. PICK b \in Backends, q \in wanted : Download(b, q)
      BY <2>2
    <3>2. UNCHANGED <<chosen, ppc, queue>> /\ ppc = "fetch" /\ wanted' = wanted \ {q} /\ SourceIs(b, q, "hub")
      BY <3>1 DEF Download
    <3>3. Chosen /\ queue = <<chosen.backend>>
      BY <1>1, <3>2 DEF Fetching
    <3>4. /\ b = Head(queue)
          /\ DOMAIN prepared'[b].source = DOMAIN prepared[b].source
          /\ \A x \in DOMAIN prepared[b].source : prepared'[b].source[x] = IF x = q THEN "disk" ELSE prepared[b].source[x]
      BY <3>1, DownloadEffect
    <3>5. b = chosen.backend
      BY <3>3, <3>4
    <3>6. Chosen'
      <4>1. CASE chosen.quant = q
        <5>1. InPlace(chosen)'
          BY <3>2, <3>4, <3>5, <4>1 DEF InPlace, SourceIs
        <5> QED BY <1>0, <3>2, <3>3, <5>1
      <4>2. CASE chosen.quant # q
        <5>1. InPlace(chosen) => InPlace(chosen)'
          BY <3>2, <3>4, <3>5, <4>2 DEF InPlace, SourceIs
        <5>2. /\ chosen.quant \in wanted => chosen.quant \in wanted'
              /\ DOMAIN prepared'[chosen.backend].source = DOMAIN prepared[chosen.backend].source
          BY <3>2, <3>4, <3>5, <4>2
        <5> QED BY <1>0, <3>2, <3>3, <5>1, <5>2
      <4> QED BY <4>1, <4>2
    <3> QED BY <3>2, <3>3, <3>6 DEF Fetching
  <2> QED BY <1>5, <2>1, <2>2 DEF Fetch
<1>6. CASE Downloaded
  <2>1. /\ UNCHANGED <<prepared, queue, chosen>> /\ ppc = "fetch"
        /\ \A q \in wanted : ~SourceIs(Head(queue), q, "hub")
        /\ wanted' = {q \in wanted : SourceIs(Head(queue), q, "convert")}
        /\ ppc' = IF wanted' = {} THEN "fetched" ELSE "convert"
    BY <1>6 DEF Downloaded, planVars
  <2>2. Chosen /\ queue = <<chosen.backend>> /\ Head(queue) = chosen.backend
    BY <1>1, <2>1 DEF Fetching
  <2>3. InPlace(chosen)' <=> InPlace(chosen)
    BY <2>1 DEF InPlace, SourceIs
  <2>4. CASE chosen.quant \in wanted \cap DOMAIN prepared[chosen.backend].source /\ ~IsLlama(chosen.backend)
    <3>1. prepared[chosen.backend].source[chosen.quant] \in {"engine", "disk"}
      BY <1>0, <2>1, <2>2, <2>4 DEF Sources, SourceIs
    <3>2. InPlace(chosen)
      BY <2>4, <3>1 DEF InPlace, SourceIs
    <3> QED BY <1>0, <2>1, <2>2, <2>3, <3>2 DEF Fetching
  <2>5. CASE InPlace(chosen) \/ IsLlama(chosen.backend)
    BY <1>0, <2>1, <2>2, <2>3, <2>5 DEF Fetching
  <2> QED BY <2>2, <2>4, <2>5
<1>7. CASE Convert
  <2>1. PICK b \in Backends, files \in SUBSET (wanted \cup {"F16"}) :
          /\ b = Head(queue) /\ ppc' = "fetched" /\ wanted' = {}
          /\ DOMAIN prepared'[b].source = DOMAIN prepared'[b].weights
          /\ DOMAIN prepared'[b].weights = (DOMAIN prepared[b].weights \ (wanted \ files)) \cup files
          /\ \A x \in DOMAIN prepared'[b].weights : prepared'[b].source[x] = IF x \in files THEN "disk" ELSE prepared[b].source[x]
    BY <1>7, ConvertEffect
  <2>2. UNCHANGED <<queue, chosen>> /\ ppc = "convert"
    BY <1>7 DEF Convert
  <2>3. Chosen /\ queue = <<chosen.backend>> /\ b = chosen.backend
    BY <1>1, <2>1, <2>2 DEF Fetching
  <2>4. InPlace(chosen)' \/ IsLlama(chosen.backend)
    <3>1. CASE chosen.quant \in wanted
      <4>1. SourceIs(b, chosen.quant, "convert")
        BY <1>0, <2>1, <2>2, <3>1 DEF Sources
      <4> QED BY <1>0, <2>3, <4>1 DEF Sources, SourceIs
    <3>2. CASE InPlace(chosen) /\ chosen.quant \notin wanted
      <4>1. chosen.quant \in DOMAIN prepared[b].weights
        BY <1>0, <2>3, <3>2 DEF InPlace, SourceIs, Sources
      <4>2. chosen.quant \in DOMAIN prepared'[b].weights
        BY <2>1, <3>2, <4>1
      <4> QED BY <2>1, <2>2, <2>3, <3>2, <4>2 DEF InPlace, SourceIs
    <3> QED BY <2>3, <3>1, <3>2
  <2> QED BY <1>0, <2>1, <2>2, <2>3, <2>4 DEF Fetching
<1>8. CASE Choose
  <2>0. PICK b \in Backends : ppc = "done" /\ \E c \in DefaultChoices(b) : ChooseConfig(b, c)
    BY <1>8 DEF Choose
  <2>1. PICK c \in DefaultChoices(b) : ppc = "done" /\ ChooseConfig(b, c)
    BY <2>0
  <2>2. /\ chosen' = c /\ queue' = <<b>> /\ wanted' = {c.quant} /\ ppc' = "fetch" /\ UNCHANGED prepared
    BY <2>1 DEF ChooseConfig, planVars
  <2>3. c.backend = b /\ c.quant \in DOMAIN prepared[b].weights
    BY <1>0, <2>1, ChoiceIsRecorded
  <2>4. DOMAIN prepared[b].weights = Offered(b) /\ c.quant \in DOMAIN prepared[b].source
    BY <1>0, <1>1, <2>1, <2>3 DEF Fetching, Sources
  <2> QED BY <1>0, <2>2, <2>3, <2>4 DEF Fetching
<1>9. CASE Serve
  <2>1. /\ ppc = "fetched" /\ ppc' = "served" /\ Launches(chosen)
        /\ UNCHANGED <<prepared, chosen, wanted, queue>>
    BY <1>9 DEF Serve, planVars
  <2>2. Launches(chosen)' <=> Launches(chosen)
    BY <2>1 DEF Launches, InPlace, SourceIs
  <2>3. Chosen' <=> Chosen
    BY <1>0, <2>1 DEF InPlace, SourceIs
  <2> QED BY <1>1, <2>1, <2>2, <2>3 DEF Fetching
<1>10. CASE ServeFails
  BY <1>10 DEF ServeFails, Fetching
<1>11. CASE UNCHANGED pvars
  <2>1. Tables' = Tables /\ Chosen' = Chosen /\ Launches(chosen)' = Launches(chosen)
    BY <1>0, <1>11 DEF pvars, InPlace, SourceIs, Launches
  <2> QED BY <1>1, <1>11, <2>1 DEF pvars, Fetching
<1>12. ~MaterializeFails /\ ~Replan
  BY DEF MaterializeFails, Replan
<1> QED BY <1>3, <1>4, <1>5, <1>6, <1>7, <1>8, <1>9, <1>10, <1>11, <1>12 DEF NextPlanner

\* The inductive invariant of the planner: the types, what is prepared describes the model, and
\* what is kept of an engine that is not in hand is what fits.
THEOREM PlannerIsSound == SpecPlanner => []PlannerInv
<1>1. PlannerInv /\ [NextPlanner]_pvars => PlannerInv'
  BY PlannerTyped, DescribesStep, PlannedStep, FromGridStep, SourcesStep, InPlaceStep, ChoiceStep DEF PlannerInv
<1> QED BY <1>1, InitPlannerInv, PTL DEF SpecPlanner

\* For any machine, model, request and sizes of the files, whichever steps fail: what is kept of an
\* engine that had no error is exactly what of its grid fits (prepare_and_plan, plan).
THEOREM KeepsWhatFits == SpecPlanner => []PlannedWhatFits
<1>1. PlannerInv => PlannedWhatFits
  BY DEF PlannerInv, TypeOKPlanner, Planned, PlannedWhatFits, InHand, Fetching, Planning, ToSet
<1> QED BY <1>1, PlannerIsSound, PTL

\* For any machine, model, request and sizes of the files, whichever files cannot be made: the weights
\* of every planned configuration, and of what is served uncalibrated, are in place (materialize).
THEOREM WeightsAreThere == SpecPlanner => []WeightsInPlace
<1>1. PlannerInv => WeightsInPlace
  <2> SUFFICES ASSUME PlannerInv PROVE WeightsInPlace
    OBVIOUS
  <2>1. ASSUME ppc = "done", asked.materialize, NEW b \in ToSet(candidates) \ errors, NEW c \in feasible[b] PROVE InPlace(c)
    BY <2>1 DEF PlannerInv, TypeOKPlanner, WillBeInPlace, InHand, Fetching, ToSet
  <2>2. ASSUME ppc = "served" PROVE InPlace(chosen) /\ chosen.quant \in Offered(chosen.backend)
    BY <2>2 DEF PlannerInv, ChoiceIsAskedFor, Launches, WillBeInPlace
  <2> QED BY <2>1, <2>2 DEF WeightsInPlace
<1> QED BY <1>1, PlannerIsSound, PTL

-----------------------------------------------------------------------------
(* The names of configurations.                                            *)

TryPrefix == IF asked.prefixOff THEN "off" ELSE "engine"
Casts == {"fp8", "bf16", "fp16"}
GridBatches == {1, 4, 8, 16, 64, 256, 512}
PairBatches == GridBatches \cup {32, 128, 1024}
Quants == ToSet(GgufQuants) \cup PreQuantized \cup Casts
Contexts == CtxSizes \cup {model.maxPos}
Fractions == {0, 80, 88, 90, 93, 95}
Layers == {NoOffload, 0} \cup Offloads(model.layers)
Logical == {0, 512, 1024, 2048}
Physical == {0, 256, 1024, 2048, 8192, 16384}
Caches == {"auto", "fp8", "fp8_e5m2", "int8_per_token_head", "q8_0", "q4_0"}
Methods == {"none", "ngram", "ngram_gpu", "suffix", "draft"}
Flags == {"cache_reuse", "kv_unified"}

\* All that a field of a configuration can be, for this machine and model.
Configurations ==
  [backend : Backends, quant : Quants, ctx : Contexts, batch : PairBatches, gmu : Fractions, ngl : Layers,
   nbatch : Logical, pb : Physical, kv : Caches, prefix : {"engine", "off"}, spec : Methods, tp : {1, hw.gpus},
   extra : SUBSET Flags]

\* The fields an engine has no flag for, or sees only through another one, are the same in all of
\* its configurations.
Shape(c) ==
  /\ c.backend = "vllm" => c.quant \in PreQuantized \cup Casts /\ c.ngl = NoOffload /\ c.nbatch = 0 /\ c.extra = {}
  /\ c.backend = "sglang" =>
       /\ c.quant \in PreQuantized \cup Casts /\ c.ngl = NoOffload /\ c.nbatch = 0 /\ c.extra = {} /\ c.spec = "none"
  /\ c.backend = "vllm-cpu" =>
       /\ c.quant = "bf16" /\ c.ngl = NoOffload /\ c.nbatch = 0 /\ c.extra = {} /\ c.spec = "none"
       /\ c.gmu = 0 /\ c.kv = "auto" /\ c.tp = 1
  /\ IsLlama(c.backend) =>
       /\ c.batch \in {1, 4, 8, 16} /\ c.nbatch \in {512, 1024, 2048} /\ c.pb <= c.nbatch /\ c.gmu = 0 /\ c.tp = 1

Shaped == {c \in Configurations : Shape(c)}

\* The greater and the smaller of two numbers.
LEMMA OfTwo ==
  ASSUME NEW a \in Int, NEW b \in Int
  PROVE  /\ Max({a, b}) = IF a >= b THEN a ELSE b
         /\ Min({a, b}) = IF a <= b THEN a ELSE b
  BY DEF Max, Min

\* From its launch arguments a configuration can be told.
LEMMA LaunchTells ==
  ASSUME NEW c \in Shaped, NEW d \in Shaped, c.prefix = d.prefix, LaunchSpec(c) = LaunchSpec(d), model.maxPos \in Nat
  PROVE  c = d
<1>1. /\ c \in Configurations /\ d \in Configurations /\ Shape(c) /\ Shape(d)
      /\ c.backend \in Backends /\ d.backend \in Backends
  BY DEF Shaped, Configurations
<1>2. /\ \A e \in Shaped : LaunchSpec(e).server = e.backend
  BY DEF LaunchSpec, VllmLaunch, SglangLaunch, VllmCpuLaunch, LlamaLaunch, IsLlama, Shaped, Configurations, Backends
<1>3. c.backend = d.backend
  BY <1>2
<1>4. SUFFICES /\ c.quant = d.quant /\ c.ctx = d.ctx /\ c.batch = d.batch /\ c.gmu = d.gmu /\ c.ngl = d.ngl
               /\ c.nbatch = d.nbatch /\ c.pb = d.pb /\ c.kv = d.kv /\ c.spec = d.spec /\ c.tp = d.tp /\ c.extra = d.extra
  BY <1>1, <1>3 DEF Configurations
<1>5. CASE c.backend \in {"vllm", "sglang"}
  <2>1. /\ Weights(c) = Weights(d) /\ Cast(c) = Cast(d)
        /\ c.ctx = d.ctx /\ c.batch = d.batch /\ c.gmu = d.gmu /\ c.pb = d.pb /\ c.kv = d.kv /\ c.tp = d.tp
        /\ c.backend = "vllm" => c.spec = d.spec
    <3>1. CASE c.backend = "vllm"
      <4>1. VllmLaunch(c) = VllmLaunch(d)
        BY <1>3, <3>1 DEF LaunchSpec, IsLlama
      <4> QED BY <3>1, <4>1 DEF VllmLaunch
    <3>2. CASE c.backend = "sglang"
      <4>1. SglangLaunch(c) = SglangLaunch(d)
        BY <1>3, <3>2 DEF LaunchSpec, IsLlama
      <4> QED BY <3>2, <4>1 DEF SglangLaunch
    <3> QED BY <1>5, <3>1, <3>2
  <2>2. c.quant \in PreQuantized \cup Casts /\ d.quant \in PreQuantized \cup Casts
    BY <1>1, <1>3, <1>5 DEF Shape
  <2>3. c.quant = d.quant
    BY <1>3, <1>5, <2>1, <2>2 DEF Weights, Cast, Casts, PreQuantized, Int4Methods, IsLlama
  <2> QED BY <1>1, <1>3, <1>5, <2>1, <2>3 DEF Shape
<1>6. CASE c.backend = "vllm-cpu"
  <2>1. VllmCpuLaunch(c) = VllmCpuLaunch(d)
    BY <1>3, <1>6 DEF LaunchSpec, IsLlama
  <2> QED BY <1>1, <1>3, <1>6, <2>1 DEF VllmCpuLaunch, Shape
<1>7. CASE IsLlama(c.backend)
  <2>1. LlamaLaunch(c) = LlamaLaunch(d)
    BY <1>3, <1>7 DEF LaunchSpec, IsLlama
  <2>2. /\ c.batch \in {1, 4, 8, 16} /\ d.batch \in {1, 4, 8, 16}
        /\ c.nbatch \in {512, 1024, 2048} /\ d.nbatch \in {512, 1024, 2048}
        /\ c.pb <= c.nbatch /\ d.pb <= d.nbatch /\ c.gmu = 0 /\ d.gmu = 0 /\ c.tp = 1 /\ d.tp = 1
    BY <1>1, <1>3, <1>7 DEF Shape
  <2>3. /\ c.ctx \in Int /\ d.ctx \in Int /\ c.pb \in Int /\ d.pb \in Int
    BY <1>1 DEF Configurations, Contexts, CtxSizes, Physical
  <2>4. /\ Max({1, c.batch}) = c.batch /\ Max({1, d.batch}) = d.batch
        /\ Max({IF c.nbatch = 0 THEN 512 ELSE c.nbatch, c.pb}) = c.nbatch
        /\ Max({IF d.nbatch = 0 THEN 512 ELSE d.nbatch, d.pb}) = d.nbatch
    BY <2>2, <2>3, OfTwo
  <2>5. /\ Weights(c) = Weights(d) /\ c.ctx * c.batch = d.ctx * d.batch /\ c.batch = d.batch /\ c.ngl = d.ngl
        /\ c.nbatch = d.nbatch /\ c.pb = d.pb /\ c.kv = d.kv /\ c.spec = d.spec /\ c.extra = d.extra
    BY <2>1, <2>4 DEF LlamaLaunch
  <2>6. c.quant = d.quant
    BY <1>3, <1>7, <2>5 DEF Weights
  <2>7. c.ctx = d.ctx
    BY <2>2, <2>3, <2>5
  <2> QED BY <2>2, <2>5, <2>6, <2>7
<1> QED BY <1>1, <1>5, <1>6, <1>7 DEF Backends, IsLlama

\* Six things are finitely many.
LEMMA SixFinite ==
  ASSUME NEW a, NEW b, NEW c, NEW d, NEW e, NEW f
  PROVE  IsFiniteSet({a, b, c, d, e, f})
<1>1. ASSUME NEW x, NEW y, NEW z PROVE IsFiniteSet({x, y, z})
  <2>1. IsFiniteSet({x} \cup {y})
    BY FS_Singleton, FS_Union
  <2>2. IsFiniteSet(({x} \cup {y}) \cup {z})
    BY <2>1, FS_Singleton, FS_Union
  <2>3. ({x} \cup {y}) \cup {z} = {x, y, z}
    OBVIOUS
  <2> QED BY <2>2, <2>3
<1>2. IsFiniteSet({a, b, c} \cup {d, e, f})
  BY <1>1, FS_Union
<1>3. {a, b, c} \cup {d, e, f} = {a, b, c, d, e, f}
  OBVIOUS
<1> QED BY <1>2, <1>3

\* A machine and a model have finitely many configurations.
LEMMA ConfigurationsFinite == IsFiniteSet(Configurations)
<1> DEFINE
      P == {"engine", "off"}
      T == {1, hw.gpus}
      X == SUBSET Flags
      Product == (((Backends \X Quants) \X (Contexts \X PairBatches)) \X ((Fractions \X Layers) \X (Logical \X Physical))) \X (((Caches \X P) \X (Methods \X T)) \X X)
      f == [c \in Configurations |->
              <<<<<<<<c.backend, c.quant>>, <<c.ctx, c.batch>>>>, <<<<c.gmu, c.ngl>>, <<c.nbatch, c.pb>>>>>>,
                <<<<<<c.kv, c.prefix>>, <<c.spec, c.tp>>>>, c.extra>>>>]
<1>1. ASSUME NEW a PROVE IsFiniteSet({a})
  BY FS_Singleton
<1>2. IsFiniteSet(Quants)
  <2>1. IsFiniteSet(ToSet(GgufQuants))
    <3>1. DOMAIN GgufQuants = 1..Len(GgufQuants) /\ Len(GgufQuants) \in Nat
      BY GgufAssumption, LenProperties
    <3>2. IsFiniteSet(DOMAIN GgufQuants)
      BY <3>1, FS_Interval
    <3>3. GgufQuants \in Surjection(DOMAIN GgufQuants, ToSet(GgufQuants))
      BY <3>1, GgufAssumption DEF ToSet, Surjection
    <3> QED BY <3>2, <3>3, FS_Surjection
  <2>2. PreQuantized = ({"awq"} \cup {"gptq"}) \cup {"w8a8"} /\ Casts = ({"fp8"} \cup {"bf16"}) \cup {"fp16"}
    BY DEF PreQuantized, Int4Methods, Casts
  <2> QED BY <1>1, <2>1, <2>2, FS_Union DEF Quants
<1>3. ASSUME NEW A \in SUBSET Nat, \A a \in A : a <= 131072 PROVE IsFiniteSet(A)
  BY <1>3, 131072 \in Nat, FS_BoundedSetOfNaturals
<1>4. IsFiniteSet(Contexts)
  <2>1. CtxSizes \in SUBSET Nat /\ \A a \in CtxSizes : a <= 131072
    BY DEF CtxSizes
  <2>2. IsFiniteSet(CtxSizes)
    BY <1>3, <2>1
  <2> QED BY <1>1, <2>2, FS_Union DEF Contexts
<1>5. IsFiniteSet(PairBatches) /\ IsFiniteSet(Fractions) /\ IsFiniteSet(Logical) /\ IsFiniteSet(Physical)
  <2>1. /\ PairBatches \in SUBSET Nat /\ \A a \in PairBatches : a <= 131072
        /\ Logical \in SUBSET Nat /\ \A a \in Logical : a <= 131072
        /\ Physical \in SUBSET Nat /\ \A a \in Physical : a <= 131072
        /\ Fractions \in SUBSET Nat /\ \A a \in Fractions : a <= 131072
    BY DEF PairBatches, GridBatches, Logical, Physical, Fractions
  <2> QED BY <2>1, <1>3
<1>6. IsFiniteSet(Layers) /\ IsFiniteSet(T)
  <2>1. /\ Layers = {NoOffload, 0, 0, model.layers + 1, (3 * model.layers) \div 4, model.layers \div 2}
        /\ T = {1, 1, 1, 1, 1, hw.gpus}
    BY DEF Offloads, Layers
  <2>2. IsFiniteSet(Layers)
    <3>1. \A a, b, c : IsFiniteSet({NoOffload, 0, 0, a, b, c})
      BY SixFinite
    <3> QED BY <2>1, <3>1
  <2>3. IsFiniteSet(T)
    BY <2>1, SixFinite
  <2> QED BY <2>2, <2>3
<1>7. IsFiniteSet(Backends) /\ IsFiniteSet(Caches) /\ IsFiniteSet(P) /\ IsFiniteSet(Methods) /\ IsFiniteSet(X)
  <2>1. /\ Backends = {"vllm", "vllm", "sglang", "llamacpp-cuda", "llamacpp-cpu", "vllm-cpu"}
        /\ P = {"engine", "engine", "engine", "engine", "engine", "off"}
        /\ Methods = {"none", "none", "ngram", "ngram_gpu", "suffix", "draft"}
    BY DEF Backends, Methods
  <2>2. IsFiniteSet(Backends)
    BY <2>1, SixFinite
  <2>3. IsFiniteSet(P) /\ IsFiniteSet(Methods)
    <3> HIDE DEF P
    <3>1. IsFiniteSet(P)
      BY <2>1, SixFinite
    <3>2. IsFiniteSet(Methods)
      BY <2>1, SixFinite
    <3> QED BY <3>1, <3>2
  <2>4. IsFiniteSet(Caches)
    BY SixFinite DEF Caches
  <2>5. IsFiniteSet(X)
    <3>1. Flags = {"cache_reuse"} \cup {"kv_unified"}
      BY DEF Flags
    <3> QED BY <1>1, <3>1, FS_Union, FS_SUBSET
  <2> QED BY <2>2, <2>3, <2>4, <2>5
<1>8. IsFiniteSet(Product)
  <2> HIDE DEF P, T, X
  <2>1. IsFiniteSet((Backends \X Quants) \X (Contexts \X PairBatches))
    BY <1>2, <1>4, <1>5, <1>7, FS_Product
  <2>2. IsFiniteSet((Fractions \X Layers) \X (Logical \X Physical))
    BY <1>5, <1>6, FS_Product
  <2>3. IsFiniteSet(((Caches \X P) \X (Methods \X T)) \X X)
    BY <1>6, <1>7, FS_Product
  <2> QED BY <2>1, <2>2, <2>3, FS_Product
<1>9. f \in [Configurations -> Product]
  <2> SUFFICES ASSUME NEW c \in Configurations PROVE f[c] \in Product
    OBVIOUS
  <2>1. /\ c.backend \in Backends /\ c.quant \in Quants /\ c.ctx \in Contexts /\ c.batch \in PairBatches /\ c.gmu \in Fractions /\ c.ngl \in Layers
        /\ c.nbatch \in Logical /\ c.pb \in Physical /\ c.kv \in Caches /\ c.prefix \in P /\ c.spec \in Methods /\ c.tp \in T /\ c.extra \in X
    BY DEF Configurations
  <2> HIDE DEF P, T, X
  <2> QED BY <2>1
<1>10. ASSUME NEW c \in Configurations, NEW d \in Configurations, f[c] = f[d] PROVE c = d
  <2>1. /\ c.backend = d.backend /\ c.quant = d.quant /\ c.ctx = d.ctx /\ c.batch = d.batch /\ c.gmu = d.gmu /\ c.ngl = d.ngl
        /\ c.nbatch = d.nbatch /\ c.pb = d.pb /\ c.kv = d.kv /\ c.prefix = d.prefix /\ c.spec = d.spec /\ c.tp = d.tp
        /\ c.extra = d.extra
    BY <1>10
  <2> QED BY <2>1 DEF Configurations
<1>11. f \in Injection(Configurations, Product)
  <2> HIDE DEF f, Product
  <2>1. \A c, d \in Configurations : f[c] = f[d] => c = d
    BY <1>10
  <2> QED BY <1>9, <2>1, Zenon DEF Injection, IsInjective
<1> HIDE DEF Product, f
<1> QED BY <1>8, <1>11, FS_Injection

\* The physical batch of llama.cpp, and the logical one that has to hold it.
UbatchOf(c, ub) == [c EXCEPT !.pb = ub, !.nbatch = Max({@, ub})]

\* The prefill stage of llama.cpp tries the other physical batches.
LEMMA LlamaPrefillIs ==
  ASSUME NEW c
  PROVE  LlamaPrefill(c) = {UbatchOf(c, ub) : ub \in {256, 1024, 2048} \ {c.pb}}
  BY DEF LlamaPrefill, UbatchOf

UbatchFirst(c, ub) == [c EXCEPT !.pb = ub]

\* That edit, one field at a time.
LEMMA UbatchSteps ==
  ASSUME NEW c, NEW ub, NEW nb, nb = Max({UbatchFirst(c, ub).nbatch, ub})
  PROVE  UbatchOf(c, ub) = [UbatchFirst(c, ub) EXCEPT !.nbatch = nb]
<1>1. PICK e : e = [c EXCEPT !.pb = ub]
  OBVIOUS
<1>2. UbatchOf(c, ub) = [e EXCEPT !.nbatch = Max({e.nbatch, ub})]
  BY <1>1 DEF UbatchOf
<1> QED BY <1>1, <1>2 DEF UbatchFirst

LEMMA LlamaEdits ==
  ASSUME NEW c, NEW d \in LlamaPrefill(c)
  PROVE  \E ub \in {256, 1024, 2048} : d = UbatchOf(c, ub)
  BY LlamaPrefillIs

\* The logical batch follows the physical one, so llama.cpp is started with the two that were asked for.
LEMMA UbatchIs ==
  ASSUME NEW c, NEW ub, c \in Configurations, Shape(c), IsLlama(c.backend), ub \in {256, 1024, 2048}
  PROVE  /\ UbatchOf(c, ub) \in Shaped
         /\ UbatchOf(c, ub).prefix = c.prefix /\ UbatchOf(c, ub).tp = c.tp /\ UbatchOf(c, ub).batch = c.batch
         /\ UbatchOf(c, ub).backend = c.backend
<1>1. PICK e : e = UbatchFirst(c, ub)
  OBVIOUS
<1>2. ub \in Physical
  BY DEF Physical
<1>3. /\ e \in Configurations /\ e.pb = ub /\ e.backend = c.backend /\ e.quant = c.quant /\ e.ngl = c.ngl /\ e.nbatch = c.nbatch
      /\ e.extra = c.extra /\ e.spec = c.spec /\ e.gmu = c.gmu /\ e.kv = c.kv /\ e.tp = c.tp /\ e.batch = c.batch
      /\ e.prefix = c.prefix
  BY <1>1, <1>2 DEF Configurations, UbatchFirst
<1>5. c.nbatch \in {512, 1024, 2048} /\ c.batch \in {1, 4, 8, 16} /\ c.gmu = 0 /\ c.tp = 1
  BY DEF Shape
<1>6. Max({c.nbatch, ub}) = IF c.nbatch >= ub THEN c.nbatch ELSE ub
  BY <1>5, OfTwo
<1>7. PICK nb \in {512, 1024, 2048} : nb = Max({c.nbatch, ub}) /\ ub <= nb
  BY <1>5, <1>6
<1>8. PICK d : d = UbatchOf(c, ub)
  OBVIOUS
<1>9. d = [e EXCEPT !.nbatch = nb]
  BY <1>1, <1>3, <1>7, <1>8, UbatchSteps
<1>10. nb \in Logical
  BY DEF Logical
<1>11. /\ d \in Configurations /\ d.pb = ub /\ d.backend = c.backend /\ d.quant = c.quant /\ d.ngl = c.ngl /\ d.nbatch = nb
       /\ d.extra = c.extra /\ d.spec = c.spec /\ d.gmu = c.gmu /\ d.kv = c.kv /\ d.tp = c.tp /\ d.batch = c.batch
       /\ d.prefix = c.prefix
  BY <1>3, <1>9, <1>10 DEF Configurations
<1>12. d \in Shaped
  BY <1>5, <1>7, <1>11 DEF Shaped, Shape, IsLlama
<1> QED BY <1>8, <1>11, <1>12

\* An edit of the batch and of the prefill budget.
Rebatched(c, n, p) == [c EXCEPT !.batch = n, !.pb = p]

RebatchFirst(c, n) == [c EXCEPT !.batch = n]

\* That edit, one field at a time.
LEMMA RebatchSteps ==
  ASSUME NEW c, NEW n, NEW p
  PROVE  Rebatched(c, n, p) = [RebatchFirst(c, n) EXCEPT !.pb = p]
<1>1. PICK e : e = [c EXCEPT !.batch = n]
  OBVIOUS
<1>2. Rebatched(c, n, p) = [e EXCEPT !.pb = p]
  BY <1>1 DEF Rebatched
<1> QED BY <1>1, <1>2 DEF RebatchFirst

\* It leaves the other fields alone.
LEMMA RebatchedIs ==
  ASSUME NEW c \in Configurations, NEW n \in PairBatches, NEW p \in Physical
  PROVE  LET d == Rebatched(c, n, p)
         IN  /\ d \in Configurations /\ d.pb = p /\ d.batch = n /\ d.backend = c.backend /\ d.quant = c.quant /\ d.ngl = c.ngl
             /\ d.nbatch = c.nbatch /\ d.extra = c.extra /\ d.spec = c.spec /\ d.gmu = c.gmu /\ d.kv = c.kv /\ d.tp = c.tp
             /\ d.prefix = c.prefix
<1>1. PICK e : e = RebatchFirst(c, n)
  OBVIOUS
<1>2. /\ e \in Configurations /\ e.batch = n /\ e.backend = c.backend /\ e.quant = c.quant /\ e.ngl = c.ngl
      /\ e.nbatch = c.nbatch /\ e.extra = c.extra /\ e.spec = c.spec /\ e.gmu = c.gmu /\ e.kv = c.kv /\ e.tp = c.tp
      /\ e.prefix = c.prefix
  BY <1>1 DEF Configurations, RebatchFirst
<1>3. PICK d : d = Rebatched(c, n, p)
  OBVIOUS
<1>4. d = [e EXCEPT !.pb = p]
  BY <1>1, <1>3, RebatchSteps
<1>5. /\ d \in Configurations /\ d.pb = p /\ d.batch = n /\ d.backend = c.backend /\ d.quant = c.quant /\ d.ngl = c.ngl
      /\ d.nbatch = c.nbatch /\ d.extra = c.extra /\ d.spec = c.spec /\ d.gmu = c.gmu /\ d.kv = c.kv /\ d.tp = c.tp
      /\ d.prefix = c.prefix
  BY <1>2, <1>4 DEF Configurations
<1> QED BY <1>3, <1>5

\* An engine of a pair has a name of its own.
LEMMA PairMember ==
  ASSUME NEW d \in Configurations, Shape(d), d.backend \in {"vllm", "sglang"}, NEW n \in PairBatches, NEW p \in Physical
  PROVE  Rebatched(d, n, p) \in Shaped /\ Rebatched(d, n, p).prefix = d.prefix
<1>1. PICK c : c = Rebatched(d, n, p)
  OBVIOUS
<1>2. /\ c \in Configurations /\ c.backend = d.backend /\ c.quant = d.quant /\ c.ngl = d.ngl /\ c.nbatch = d.nbatch
      /\ c.extra = d.extra /\ c.spec = d.spec /\ c.prefix = d.prefix
  BY <1>1, RebatchedIs
<1>3. c \in Shaped
  BY <1>2 DEF Shaped, Shape, IsLlama
<1> QED BY <1>1, <1>2, <1>3

\* What the stages of a search change of a configuration leaves it one that has a name of its own.
Searched(c) ==
  /\ c \in Shaped /\ c.prefix = TryPrefix /\ c.tp = 1 /\ c.batch \in GridBatches
  /\ SupportsTp(c.backend) => c.batch \in {16, 64, 256, 512} /\ c.gmu # 0

\* A configuration of the grid has a name of its own.
LEMMA GridSearched ==
  ASSUME PlannerInv, NEW b \in Backends, NEW c \in feasible[b]
  PROVE  Searched([c EXCEPT !.prefix = IF asked.prefixOff THEN "off" ELSE @])
<1>1. c \in CandidateConfigs(b, hw, Prepared(b), asked.minCtx)
  BY DEF PlannerInv, FromGrid
<1> DEFINE pm == Prepared(b)
<1>2. /\ DOMAIN pm.weights = Offered(b) /\ pm.layers = model.layers /\ pm.maxPos = model.maxPos
      /\ Offered(b) \subseteq Precisions(b, hw)
  BY DEF Prepared, Offered, AllowedQuants
<1>3. /\ CtxGrid(model.maxPos, asked.minCtx) \subseteq Contexts
      /\ CpuCtxGrid(model.maxPos, asked.minCtx) \subseteq Contexts
  BY DEF CtxGrid, CpuCtxGrid, Smallest, Contexts
<1>5. /\ NoOffload \in Layers /\ 0 \in Logical /\ 0 \in Physical /\ "auto" \in Caches /\ "none" \in Methods
  BY DEF Layers, Logical, Physical, Caches, Methods
<1> HIDE DEF pm
<1>4. /\ c \in Configurations /\ Shape(c) /\ c.prefix = "engine" /\ c.tp = 1 /\ c.batch \in GridBatches
      /\ SupportsTp(c.backend) => c.batch \in {16, 64, 256, 512} /\ c.gmu # 0
  <2> USE DEF IsLlama, Backends
  <2>1. CASE b = "vllm"
    <3>1. PICK q \in VllmPrecisions(hw), gmu \in {80, 90, 95}, ctx \in CtxGrid(model.maxPos, asked.minCtx),
               batch \in {16, 64, 256} : c = [Config("vllm", q, ctx, batch) EXCEPT !.gmu = gmu]
      <4>1. c \in ServerGrid("vllm", VllmPrecisions(hw) \cap DOMAIN pm.weights, {80, 90, 95}, CtxGrid(model.maxPos, asked.minCtx))
        BY <1>1, <1>2, <2>1 DEF CandidateConfigs, VllmCandidates, pm
      <4> QED BY <4>1 DEF ServerGrid
    <3>2. q \in PreQuantized \cup Casts
      BY DEF VllmPrecisions, FullPrecision, Casts
    <3>3. c = [backend |-> b, quant |-> q, ctx |-> ctx, batch |-> batch, gmu |-> gmu, ngl |-> NoOffload, nbatch |-> 0, pb |-> 0,
               kv |-> "auto", prefix |-> "engine", spec |-> "none", tp |-> 1, extra |-> {}]
      BY <2>1, <3>1 DEF Config
    <3>4. /\ q \in Quants /\ batch \in PairBatches /\ batch \in GridBatches /\ gmu \in Fractions /\ gmu # 0
      BY <3>2 DEF Quants, Fractions, GridBatches, PairBatches
    <3> QED BY <1>3, <1>5, <2>1, <3>2, <3>3, <3>4 DEF Configurations, Shape
  <2>2. CASE b = "sglang"
    <3>1. PICK q \in SglangPrecisions(hw), gmu \in {80, 88, 93}, ctx \in CtxGrid(model.maxPos, asked.minCtx),
               batch \in {16, 64, 256} : c = [Config("sglang", q, ctx, batch) EXCEPT !.gmu = gmu]
      <4>1. c \in ServerGrid("sglang", SglangPrecisions(hw) \cap DOMAIN pm.weights, {80, 88, 93}, CtxGrid(model.maxPos, asked.minCtx))
        BY <1>1, <1>2, <2>2 DEF CandidateConfigs, SglangCandidates, pm
      <4> QED BY <4>1 DEF ServerGrid
    <3>2. q \in PreQuantized \cup Casts
      BY DEF SglangPrecisions, FullPrecision, Casts, PreQuantized
    <3>3. c = [backend |-> b, quant |-> q, ctx |-> ctx, batch |-> batch, gmu |-> gmu, ngl |-> NoOffload, nbatch |-> 0, pb |-> 0,
               kv |-> "auto", prefix |-> "engine", spec |-> "none", tp |-> 1, extra |-> {}]
      BY <2>2, <3>1 DEF Config
    <3>4. /\ q \in Quants /\ batch \in PairBatches /\ batch \in GridBatches /\ gmu \in Fractions /\ gmu # 0
      BY <3>2 DEF Quants, Fractions, GridBatches, PairBatches
    <3> QED BY <1>3, <1>5, <2>2, <3>2, <3>3, <3>4 DEF Configurations, Shape
  <2>3. CASE b = "vllm-cpu"
    <3>1. PICK ctx \in CpuCtxGrid(model.maxPos, asked.minCtx), batch \in {4, 16, 64} : c = Config("vllm-cpu", "bf16", ctx, batch)
      BY <1>1, <1>2, <2>3 DEF CandidateConfigs, VllmCpuCandidates, pm
    <3>2. c = [backend |-> b, quant |-> "bf16", ctx |-> ctx, batch |-> batch, gmu |-> 0, ngl |-> NoOffload, nbatch |-> 0, pb |-> 0,
               kv |-> "auto", prefix |-> "engine", spec |-> "none", tp |-> 1, extra |-> {}]
      BY <2>3, <3>1 DEF Config
    <3>3. batch \in PairBatches /\ batch \in GridBatches /\ "bf16" \in Quants /\ 0 \in Fractions
      BY DEF Quants, Casts, Fractions, GridBatches, PairBatches
    <3> QED BY <1>3, <1>5, <2>3, <3>2, <3>3 DEF Configurations, Shape, SupportsTp
  <2>4. CASE IsLlama(b)
    <3>0. c \in LlamaCandidates(b, pm, asked.minCtx) /\ Offered(b) \subseteq ToSet(GgufQuants)
      BY <1>1, <1>2, <2>4 DEF CandidateConfigs, pm, Precisions
    <3>1. PICK q \in ToSet(GgufQuants), ctx \in CtxGrid(model.maxPos, asked.minCtx), np \in {1, 4, 8},
               ngl \in {0} \cup Offloads(model.layers), nb \in {512, 2048} :
               c = CandidateOf(b, q, ctx, np, ngl, nb)
      <4>0. PICK w, n : w = pm /\ n = asked.minCtx /\ c \in LlamaCandidates(b, w, n)
        BY <3>0
      <4>1. PICK q \in DOMAIN w.weights, ctx \in CtxGrid(w.maxPos, n), np \in {1, 4, 8},
                 ngl \in {0} \cup Offloads(w.layers), nb \in {512, 2048} :
                 c = CandidateOf(b, q, ctx, np, ngl, nb)
        BY ONLY <4>0, LlamaIs
      <4>2. /\ q \in ToSet(GgufQuants) /\ ctx \in CtxGrid(model.maxPos, asked.minCtx)
            /\ ngl \in {0} \cup Offloads(model.layers)
        BY <1>2, <3>0, <4>0
      <4> QED BY <4>1, <4>2
    <3>2. c = [backend |-> b, quant |-> q, ctx |-> ctx, batch |-> np, gmu |-> 0, ngl |-> ngl, nbatch |-> nb, pb |-> 0,
               kv |-> "auto", prefix |-> "engine", spec |-> "none", tp |-> 1, extra |-> {}]
      BY <3>1, CandidateIs
    <3>3. /\ np \in PairBatches /\ np \in GridBatches /\ q \in Quants /\ ngl \in Layers /\ nb \in Logical /\ 0 \in Fractions
      BY DEF Quants, Layers, Logical, Fractions, GridBatches, PairBatches
    <3>4. c \in Configurations
      BY <1>3, <1>5, <3>2, <3>3 DEF Configurations
    <3> QED BY <2>4, <3>2, <3>3, <3>4 DEF Shape, SupportsTp
  <2> QED BY <2>1, <2>2, <2>3, <2>4
<1> DEFINE d == [c EXCEPT !.prefix = IF asked.prefixOff THEN "off" ELSE @]
<1>6. d = [c EXCEPT !.prefix = TryPrefix] /\ TryPrefix \in {"engine", "off"}
  BY <1>4 DEF TryPrefix
<1> HIDE DEF d
<1>7. /\ d \in Configurations /\ d.prefix = TryPrefix /\ d.backend = c.backend /\ d.quant = c.quant /\ d.ngl = c.ngl
      /\ d.nbatch = c.nbatch /\ d.extra = c.extra /\ d.spec = c.spec /\ d.gmu = c.gmu /\ d.kv = c.kv /\ d.tp = c.tp
      /\ d.batch = c.batch /\ d.pb = c.pb
  BY <1>4, <1>6 DEF Configurations
<1>8. Searched(d)
  BY <1>4, <1>7 DEF Searched, Shaped, Shape
<1> QED BY <1>8 DEF d

\* The next step of the ladder of batch sizes is on it.
LEMMA LadderNext ==
  ASSUME NEW b, NEW n \in Nat, {m \in BatchLadder(b) : m > n} # {}
  PROVE  Min({m \in BatchLadder(b) : m > n}) \in {m \in BatchLadder(b) : m > n}
<1> DEFINE bigger == {m \in BatchLadder(b) : m > n}
<1>1. \E x \in bigger : \A y \in bigger : x <= y
  <2>1. CASE IsLlama(b)
    <3>1. bigger = {m \in {1, 4, 8, 16} : m > n}
      BY <2>1 DEF BatchLadder
    <3>2. CASE n < 1
      BY <3>1, <3>2, 1 \in bigger
    <3>3. CASE n >= 1 /\ n < 4
      BY <3>1, <3>3, 4 \in bigger
    <3>4. CASE n >= 4 /\ n < 8
      BY <3>1, <3>4, 8 \in bigger
    <3>5. CASE n >= 8
      BY <3>1, <3>5, 16 \in bigger
    <3> QED BY <3>2, <3>3, <3>4, <3>5
  <2>2. CASE ~IsLlama(b)
    <3>1. bigger = {m \in {16, 64, 256, 512} : m > n}
      BY <2>2 DEF BatchLadder
    <3>2. CASE n < 16
      BY <3>1, <3>2, 16 \in bigger
    <3>3. CASE n >= 16 /\ n < 64
      BY <3>1, <3>3, 64 \in bigger
    <3>4. CASE n >= 64 /\ n < 256
      BY <3>1, <3>4, 256 \in bigger
    <3>5. CASE n >= 256
      BY <3>1, <3>5, 512 \in bigger
    <3> QED BY <3>2, <3>3, <3>4, <3>5
  <2> QED BY <2>1, <2>2
<1> HIDE DEF bigger
<1>2. Min(bigger) \in bigger
  BY <1>1 DEF Min
<1> QED BY <1>2 DEF bigger

\* So has what a stage of the search makes of it,
LEMMA StagesSearched ==
  ASSUME NEW c, Searched(c)
  PROVE  /\ \A d \in WithPrefill(c) : Searched(d)
         /\ \A d \in WithKv(c) : Searched(d)
         /\ \A d \in WithPrefix(c) : Searched(d)
         /\ \A d \in WithSpec(c) : Searched(d)
<1>0. /\ c \in Configurations /\ Shape(c) /\ c.prefix = TryPrefix /\ c.tp = 1 /\ c.batch \in GridBatches
      /\ SupportsTp(c.backend) => c.batch \in {16, 64, 256, 512} /\ c.gmu # 0
      /\ c.backend \in Backends
  BY DEF Searched, Shaped, Configurations
<1>1. ASSUME NEW d \in WithPrefill(c) PROVE Searched(d)
  <2>1. CASE ~IsLlama(c.backend)
    <3>1. PICK p \in {2048, 8192, 16384} : d = [c EXCEPT !.pb = p]
      BY <1>1, <2>1 DEF WithPrefill, PrefillVariants, VllmPrefill, SglangPrefill
    <3>2. p \in Physical
      BY DEF Physical
    <3> QED BY <1>0, <2>1, <3>1, <3>2 DEF Searched, Shaped, Configurations, Shape
  <2>2. CASE IsLlama(c.backend)
    <3>1. d \in LlamaPrefill(c)
      BY <1>1, <2>2 DEF WithPrefill, PrefillVariants
    <3>2. PICK ub \in {256, 1024, 2048} : d = UbatchOf(c, ub)
      BY <3>1, LlamaEdits
    <3>3. d \in Shaped /\ d.prefix = c.prefix /\ d.tp = c.tp /\ d.batch = c.batch /\ d.backend = c.backend
      BY <1>0, <2>2, <3>2, UbatchIs
    <3> QED BY <1>0, <2>2, <3>3 DEF Searched, IsLlama, SupportsTp
  <2> QED BY <2>1, <2>2
<1>2. ASSUME NEW d \in WithKv(c) PROVE Searched(d)
  <2> DEFINE bigger == {m \in BatchLadder(c.backend) : m > c.batch}
  <2>1. c.batch \in Nat
    BY <1>0 DEF GridBatches
  <2>2. PICK e :
          /\ \E kv \in KvDtypes(c.backend, hw) : e = [c EXCEPT !.kv = kv]
          /\ \/ d = e
             \/ bigger # {} /\ d = [e EXCEPT !.batch = Min(bigger), !.pb = IF @ < Min(bigger) THEN 0 ELSE @]
    <3> DEFINE quantized == {[c EXCEPT !.kv = kv] : kv \in KvDtypes(c.backend, hw) \ {c.kv}}
               Step(v) == [v EXCEPT !.batch = Min(bigger), !.pb = IF @ < Min(bigger) THEN 0 ELSE @]
    <3>1. \/ d \in quantized
          \/ bigger # {} /\ \E w \in quantized : d = Step(w)
      BY <1>2 DEF WithKv, KvVariants
    <3> HIDE DEF bigger
    <3>2. \A w \in quantized : \E kv \in KvDtypes(c.backend, hw) : w = [c EXCEPT !.kv = kv]
      OBVIOUS
    <3> HIDE DEF quantized, Step
    <3>3. PICK e \in quantized : d = e \/ (bigger # {} /\ d = Step(e))
      BY <3>1
    <3> QED BY <3>2, <3>3 DEF Step
  <2>3. PICK kv \in Caches : e = [c EXCEPT !.kv = kv] /\ c.backend # "vllm-cpu"
    BY <1>0, <2>2 DEF KvDtypes, VllmKvDtypes, SglangKvDtypes, LlamaKvDtypes, Backends, IsLlama, Caches
  <2>4. Searched(e)
    BY <1>0, <2>2, <2>3 DEF Searched, Shaped, Configurations, Shape
  <2>5. CASE bigger # {} /\ d = [e EXCEPT !.batch = Min(bigger), !.pb = IF @ < Min(bigger) THEN 0 ELSE @]
    <3>1. Min(bigger) \in bigger
      BY <2>1, <2>5, LadderNext
    <3>2. PICK n \in BatchLadder(c.backend) : n = Min(bigger)
      BY <3>1
    <3> HIDE DEF bigger
    <3>3. PICK p \in {0, c.pb} : d = Rebatched(e, n, p)
      <4>1. e.pb = c.pb
        BY <1>0, <2>3 DEF Configurations
      <4>2. PICK p : p = (IF e.pb < n THEN 0 ELSE e.pb)
        OBVIOUS
      <4>3. PICK f : f = [e EXCEPT !.batch = n]
        OBVIOUS
      <4>4. f.pb = e.pb
        <5>1. e \in Configurations
          BY <2>4 DEF Searched, Shaped
        <5> QED BY <4>3, <5>1 DEF Configurations
      <4>5. d = [f EXCEPT !.pb = IF @ < n THEN 0 ELSE @]
        BY <2>5, <3>2, <4>3
      <4>6. d = [f EXCEPT !.pb = p]
        BY <4>2, <4>4, <4>5
      <4>7. Rebatched(e, n, p) = [f EXCEPT !.pb = p]
        BY <4>3 DEF Rebatched
      <4> QED BY <4>1, <4>2, <4>6, <4>7
    <3>4. /\ IsLlama(c.backend) => n \in {1, 4, 8, 16}
          /\ ~IsLlama(c.backend) => n \in {16, 64, 256, 512}
          /\ n \in GridBatches /\ n \in PairBatches
      BY <3>2 DEF BatchLadder, GridBatches, PairBatches
    <3>5. /\ e \in Configurations /\ Shape(e) /\ e.prefix = TryPrefix /\ e.tp = 1 /\ e.pb = c.pb
          /\ e.backend = c.backend /\ (SupportsTp(e.backend) => e.gmu # 0)
      BY <1>0, <2>3, <2>4 DEF Searched, Shaped, Configurations
    <3>6. p \in Physical /\ (IsLlama(c.backend) => e.nbatch \in {512, 1024, 2048} /\ p <= e.nbatch)
      BY <3>3, <3>5 DEF Configurations, Shape, Physical
    <3>7. /\ d \in Configurations /\ d.pb = p /\ d.batch = n /\ d.backend = e.backend /\ d.quant = e.quant /\ d.ngl = e.ngl
          /\ d.nbatch = e.nbatch /\ d.extra = e.extra /\ d.spec = e.spec /\ d.gmu = e.gmu /\ d.kv = e.kv /\ d.tp = e.tp
          /\ d.prefix = e.prefix
      BY <3>3, <3>4, <3>5, <3>6, RebatchedIs
    <3>8. Shape(d)
      BY <1>0, <2>3, <3>4, <3>5, <3>6, <3>7 DEF Shape, IsLlama
    <3> QED BY <3>4, <3>5, <3>7, <3>8 DEF Searched, Shaped, SupportsTp, IsLlama
  <2> QED BY <2>2, <2>4, <2>5
<1>3. ASSUME NEW d \in WithPrefix(c) PROVE Searched(d)
  <2>1. IsLlama(c.backend) /\ d \in PrefixVariants(c)
    BY <1>3 DEF WithPrefix, PrefixVariants
  <2>2. PICK o \in Flags : d = [c EXCEPT !.extra = c.extra \cup {o}]
    BY <2>1 DEF PrefixVariants, Flags
  <2>3. PICK x \in SUBSET Flags : x = c.extra \cup {o}
    <3>1. c.extra \in SUBSET Flags
      BY <1>0 DEF Configurations
    <3>2. c.extra \cup {o} \in SUBSET Flags
      BY <3>1
    <3> QED BY <3>2
  <2> QED BY <1>0, <2>1, <2>2, <2>3 DEF Searched, Shaped, Configurations, Shape, IsLlama
<1>4. ASSUME NEW d \in WithSpec(c) PROVE Searched(d)
  <2>1. PICK s \in SpecMethods(c.backend, hw, prepared[c.backend]) : d = [c EXCEPT !.spec = s]
    BY <1>4 DEF WithSpec, SpecVariants
  <2>2. s \in Methods /\ (c.backend = "vllm" \/ IsLlama(c.backend))
    BY DEF SpecMethods, VllmSpec, LlamaSpec, Methods
  <2> QED BY <1>0, <2>1, <2>2 DEF Searched, Shaped, Configurations, Shape, IsLlama
<1> QED BY <1>1, <1>2, <1>3, <1>4

\* and hence all that a search on one GPU can reach.
LEMMA SpaceSearched ==
  ASSUME PlannerInv, NEW c \in SearchSpace
  PROVE  Searched(c)
<1> DEFINE
      prefill == AllFeasible \cup UNION {WithPrefill(d) : d \in AllFeasible}
      kv      == prefill \cup UNION {WithKv(d) : d \in prefill}
      prefix  == kv \cup UNION {WithPrefix(d) : d \in kv}
      spec    == prefix \cup UNION {WithSpec(d) : d \in prefix}
<1>1. c \in spec
  BY DEF SearchSpace
<1>2. \A d \in AllFeasible : Searched(d)
  BY GridSearched DEF AllFeasible
<1>3. \A d \in prefill : Searched(d)
  BY <1>2, StagesSearched
<1> HIDE DEF prefill
<1>4. \A d \in kv : Searched(d)
  BY <1>3, StagesSearched
<1> HIDE DEF kv
<1>5. \A d \in prefix : Searched(d)
  BY <1>4, StagesSearched
<1> HIDE DEF prefix
<1> QED BY <1>1, <1>5, StagesSearched

\* On several GPUs a winner is sharded, or split into a prefill and a decode engine.
LEMMA MultiGpuFrom ==
  ASSUME NEW x \in MultiGpuSpace
  PROVE  \E d \in SearchSpace :
           \/ SupportsTp(d.backend) /\ x \in TpCandidates(d, hw.gpus)
           \/ d.backend = "vllm" /\ \E pair \in CandidatePairs(d) : x = pair[1] \/ x = pair[2]
<1> DEFINE Tp == UNION {TpCandidates(c, hw.gpus) : c \in {d \in SearchSpace : SupportsTp(d.backend)}}
           Pairs == UNION {CandidatePairs(c) : c \in {d \in SearchSpace : d.backend = "vllm"}}
<1>1. x \in Tp \/ x \in UNION {{pair[1], pair[2]} : pair \in Pairs}
  BY DEF MultiGpuSpace
<1>2. CASE x \in Tp
  BY <1>2
<1>3. CASE x \in UNION {{pair[1], pair[2]} : pair \in Pairs}
  <2>1. PICK pair \in Pairs : x \in {pair[1], pair[2]}
    BY <1>3, Zenon
  <2>2. PICK d \in SearchSpace : d.backend = "vllm" /\ pair \in CandidatePairs(d)
    BY <2>1
  <2> QED BY <2>1, <2>2
<1> QED BY <1>1, <1>2, <1>3

\* Neither makes two names for the same server.
LEMMA MultiGpuShaped ==
  ASSUME PlannerInv, NEW c \in MultiGpuSpace
  PROVE  c \in Shaped /\ c.prefix = TryPrefix
<1>1. PICK d \in SearchSpace :
        \/ SupportsTp(d.backend) /\ c \in TpCandidates(d, hw.gpus)
        \/ d.backend = "vllm" /\ \E pair \in CandidatePairs(d) : c = pair[1] \/ c = pair[2]
  BY MultiGpuFrom
<1>2. /\ d \in Configurations /\ Shape(d) /\ d.prefix = TryPrefix /\ SupportsTp(d.backend)
      /\ d.batch \in {16, 64, 256, 512} /\ d.gmu \in {80, 88, 90, 93, 95}
      /\ d.backend \in {"vllm", "sglang"} /\ d.pb \in Physical
  BY <1>1, SpaceSearched DEF Searched, Shaped, Configurations, SupportsTp, Fractions
<1>3. CASE c \in TpCandidates(d, hw.gpus)
  <2>1. PICK m \in {80, 88, 90} : m = Min({d.gmu, 90})
    <3>1. d.gmu \in Int /\ 90 \in Int
      BY <1>2
    <3>2. Min({d.gmu, 90}) = IF d.gmu <= 90 THEN d.gmu ELSE 90
      BY <3>1, OfTwo, Zenon
    <3> QED BY <1>2, <3>2
  <2> DEFINE base == [d EXCEPT !.tp = hw.gpus, !.gmu = IF @ = 0 THEN 0 ELSE Min({@, 90})]
             doubled == [base EXCEPT !.batch = 2 * @, !.pb = IF @ < 2 * d.batch THEN 0 ELSE @]
  <2>2. c = base \/ c = doubled
    BY <1>3 DEF TpCandidates
  <2>3. PICK e : e = [d EXCEPT !.tp = hw.gpus] /\ base = [e EXCEPT !.gmu = m]
    <3>1. PICK e : e = [d EXCEPT !.tp = hw.gpus]
      OBVIOUS
    <3>2. base = [e EXCEPT !.gmu = IF @ = 0 THEN 0 ELSE Min({@, 90})]
      BY <3>1
    <3>3. e.gmu = d.gmu
      BY <1>2, <3>1 DEF Configurations
    <3>4. base = [e EXCEPT !.gmu = IF d.gmu = 0 THEN 0 ELSE Min({d.gmu, 90})]
      BY <3>2, <3>3
    <3> HIDE DEF base
    <3>5. (IF d.gmu = 0 THEN 0 ELSE Min({d.gmu, 90})) = m
      BY <1>2, <2>1
    <3> QED BY <3>1, <3>4, <3>5
  <2> HIDE DEF base
  <2>4. m \in Fractions /\ 0 \in Physical
    BY DEF Fractions, Physical
  <2>5. /\ base \in Configurations /\ base.batch = d.batch /\ base.pb = d.pb /\ base.backend = d.backend
        /\ base.quant = d.quant /\ base.ngl = d.ngl /\ base.nbatch = d.nbatch /\ base.extra = d.extra
        /\ base.spec = d.spec /\ base.prefix = d.prefix
    <3>1. /\ e \in Configurations /\ e.batch = d.batch /\ e.pb = d.pb /\ e.backend = d.backend
          /\ e.quant = d.quant /\ e.ngl = d.ngl /\ e.nbatch = d.nbatch /\ e.extra = d.extra
          /\ e.spec = d.spec /\ e.prefix = d.prefix
      BY <1>2, <2>3 DEF Configurations
    <3> QED BY <2>3, <2>4, <3>1 DEF Configurations
  <2>6. base \in Shaped /\ base.prefix = TryPrefix
    BY <1>2, <2>5 DEF Shaped, Shape, IsLlama
  <2>7. PICK n \in PairBatches, p \in {0, d.pb} : doubled = Rebatched(base, n, p)
    <3>1. 2 * d.batch \in PairBatches
      BY <1>2 DEF PairBatches, GridBatches
    <3>2. PICK n \in PairBatches : n = 2 * d.batch
      BY <3>1
    <3>3. PICK p : p = (IF d.pb < n THEN 0 ELSE d.pb)
      OBVIOUS
    <3>4. PICK f : f = [base EXCEPT !.batch = n]
      OBVIOUS
    <3>5. f.pb = d.pb
      BY <2>5, <3>4 DEF Configurations
    <3>6. doubled = [f EXCEPT !.pb = IF @ < n THEN 0 ELSE @]
      BY <2>5, <3>2, <3>4
    <3>7. doubled = [f EXCEPT !.pb = p]
      BY <3>3, <3>5, <3>6
    <3>8. Rebatched(base, n, p) = [f EXCEPT !.pb = p]
      BY <3>4 DEF Rebatched
    <3> QED BY <3>3, <3>7, <3>8
  <2> HIDE DEF doubled
  <2>8. /\ doubled \in Configurations /\ doubled.backend = d.backend
        /\ doubled.quant = d.quant /\ doubled.ngl = d.ngl /\ doubled.nbatch = d.nbatch /\ doubled.extra = d.extra
        /\ doubled.spec = d.spec /\ doubled.prefix = d.prefix
    BY <1>2, <2>4, <2>5, <2>7, RebatchedIs
  <2>9. doubled \in Shaped /\ doubled.prefix = TryPrefix
    BY <1>2, <2>8 DEF Shaped, Shape, IsLlama
  <2> QED BY <2>2, <2>6, <2>9
<1>4. CASE d.backend = "vllm" /\ \E pair \in CandidatePairs(d) : c = pair[1] \/ c = pair[2]
  <2>1. c \in PrefillPool(d) \/ c \in DecodePool(d)
    BY <1>4 DEF CandidatePairs
  <2>2. Min({d.batch, 64}) \in {16, 64}
    <3>1. d.batch \in Int /\ 64 \in Int
      BY <1>2
    <3>2. Min({d.batch, 64}) = IF d.batch <= 64 THEN d.batch ELSE 64
      BY <3>1, OfTwo, Zenon
    <3> QED BY <1>2, <3>2
  <2>3. CASE c \in PrefillPool(d)
    <3>1. PICK n \in {16, 64} : n = Min({d.batch, 64})
      BY <2>2
    <3>2. PrefillPool(d) = {Rebatched(d, n, p) : p \in {8192, 16384}}
      <4>1. PICK f : f = [d EXCEPT !.batch = Min({@, 64})]
        OBVIOUS
      <4>2. PrefillPool(d) = {[f EXCEPT !.pb = p] : p \in {8192, 16384}}
        BY <4>1 DEF PrefillPool
      <4>3. \A p : Rebatched(d, n, p) = [f EXCEPT !.pb = p]
        BY <3>1, <4>1 DEF Rebatched
      <4> QED BY <4>2, <4>3
    <3>3. PICK p \in {8192, 16384} : c = Rebatched(d, n, p)
      BY <2>3, <3>2
    <3>4. n \in PairBatches /\ p \in Physical
      BY DEF PairBatches, GridBatches, Physical
    <3> QED BY <1>2, <3>3, <3>4, PairMember
  <2>4. CASE c \in DecodePool(d)
    <3>1. PICK n \in {d.batch, 256} : c = Rebatched(d, n, 2048)
      <4>1. DecodePool(d) = {Rebatched(d, n, 2048) : n \in {d.batch, 256}}
        BY DEF DecodePool, Rebatched
      <4> QED BY <2>4, <4>1
    <3>2. n \in PairBatches /\ 2048 \in Physical
      BY <1>2 DEF PairBatches, GridBatches, Physical
    <3> QED BY <1>2, <3>1, <3>2, PairMember
  <2> QED BY <2>1, <2>3, <2>4
<1> QED BY <1>1, <1>3, <1>4

\* Configurations that differ are launched with different arguments, whatever the search and the
\* layouts on several GPUs can reach (Config.key, launch_spec).
THEOREM NamesAreServers == SpecPlanner => []NamesTellServersApart
<1>1. ASSUME PlannerInv PROVE NamesTellServersApart
  <2> DEFINE space == SearchSpace \cup MultiGpuSpace
             launch == [c \in space |-> LaunchSpec(c)]
             servers == {LaunchSpec(c) : c \in space}
  <2>1. \A c \in space : c \in Shaped /\ c.prefix = TryPrefix
    BY <1>1, SpaceSearched, MultiGpuShaped DEF Searched
  <2>2. model.maxPos \in Nat
    BY <1>1, ModelsAssumption DEF PlannerInv, TypeOKPlanner
  <2> HIDE DEF space
  <2>3. IsFiniteSet(space)
    BY <2>1, ConfigurationsFinite, FS_Subset DEF Shaped
  <2>4. \A c, d \in space : LaunchSpec(c) = LaunchSpec(d) => c = d
    BY <2>1, <2>2, LaunchTells
  <2>5. launch \in Surjection(space, servers)
    BY DEF Surjection
  <2>6. launch \in Injection(space, servers)
    BY <2>4 DEF Injection, IsInjective
  <2>7. Cardinality(servers) = Cardinality(space)
    <3> HIDE DEF launch, servers
    <3> QED BY <2>3, <2>5, <2>6, FS_Surjection
  <2> QED BY <2>7 DEF NamesTellServersApart, space
<1> QED BY <1>1, PlannerIsSound, PTL
=============================================================================
