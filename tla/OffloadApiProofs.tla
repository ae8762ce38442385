--------------------------- MODULE OffloadApiProofs ---------------------------
(***************************************************************************)
(* Proofs about the handle table and the kernel arguments, for any number  *)
(* of buffers and objects, any table and any kernel; and that, where       *)
(* nothing is lost, the application sees an OpenCL of its own (LocalCl).   *)
(* The driver carries out the queue later than the application issued it,  *)
(* so the proof is about what the queue will leave (Carried): a command    *)
(* queued behind the others has its effect on that, one that is carried    *)
(* out changes nothing of it, and a new object is in nobody's way.         *)
(***************************************************************************)
EXTENDS OffloadApi, SequenceTheorems, WellFoundedInduction, TLAPS

(* An argument can only have been passed once the kernel slot is filled,   *)
(* and a buffer argument is a slot that is filled.                         *)
WantedInv ==
  /\ wanted # Nothing \/ args # Nothing => mem_idx > KERNEL
  /\ wanted["buffer"] # Unset => wanted["buffer"] \in 0..(mem_idx - 1)
  /\ wanted["scalar"] # Unset => wanted["scalar"] \in Scalars

(* What the driver's kernel has, and why it may differ from what the       *)
(* application passed.                                                     *)
ArgsInv ==
  /\ Good(mem_ptrs[KERNEL]) /\ wanted["scalar"] # args["scalar"] => wanted["scalar"] = 0
  /\ Good(mem_ptrs[KERNEL]) /\ wanted["buffer"] # Unset =>
       \/ args["buffer"] = wanted["buffer"] + 1
       \/ mem_ptrs[wanted["buffer"]] = NULL
       \/ wanted["buffer"] >= Slots

\* What the queue holds of a launch.
LaunchInv ==
  \A i \in 1..Len(queue) : queue[i].op = "launch" =>
    /\ queue[i].wdst \in 1..mem_idx
    /\ queue[i].num # queue[i].wnum => queue[i].wnum = 0
    /\ queue[i].dst # queue[i].wdst =>
         mem_ptrs[queue[i].wdst - 1] = NULL \/ queue[i].wdst > Slots

IInv ==
  TypeOK /\ HandleNamesItsBuffer /\ WantedInv /\ ArgsInv /\ LostArgumentIsReported
         /\ LaunchInv

-----------------------------------------------------------------------------
LEMMA BasicFacts ==
  /\ MaxObjs \in Nat /\ MaxObjs >= 6 /\ Slots \in Nat
  /\ Scalars \subseteq Nat /\ Objects \subseteq Nat
  /\ JUNK \notin Nat /\ Unset \notin Nat /\ JUNK # Unset
  /\ NULL \in Nat /\ NULL \notin Objects
<1>1. MaxObjs \in Nat /\ MaxObjs >= 6 /\ Slots \in Nat /\ Scalars \subseteq Nat
  BY ApiAssumption, Zenon
<1>2. JUNK \notin Nat /\ Unset \notin Nat /\ JUNK # Unset
  BY ApiAssumption, Zenon
<1>3. Objects \subseteq Nat /\ NULL \in Nat /\ NULL \notin Objects
  BY <1>1 DEF Objects, NULL
<1>4. QED
  BY <1>1, <1>2, <1>3

\* A creation fills the slot mem_idx and no other.
LEMMA FillEffect ==
  ASSUME TypeOK, NEW v \in {NULL, JUNK} \union Objects, mem_idx < MaxObjs, Fill(v)
  PROVE  /\ mem_idx' = mem_idx + 1 /\ mem_idx' \in 0..MaxObjs
         /\ mem_ptrs' \in [Indices -> {NULL, JUNK} \union Objects]
         /\ \A s \in Indices : s # mem_idx => mem_ptrs'[s] = mem_ptrs[s]
         /\ mem_ptrs'[mem_idx] = v \/ (mem_ptrs'[mem_idx] = JUNK /\ mem_idx >= Slots)
<1> PICK w \in {v, JUNK} : /\ w = v \/ mem_idx >= Slots
                           /\ mem_ptrs' = [mem_ptrs EXCEPT ![mem_idx] = w]
  BY DEF Fill
<1>1. mem_idx \in Indices /\ mem_idx' = mem_idx + 1 /\ mem_idx' \in 0..MaxObjs
  BY ApiAssumption DEF Fill, TypeOK, Indices
<1>2. QED
  BY <1>1 DEF TypeOK

LEMMA CreatedValues ==
  ASSUME TypeOK, NEW s \in Indices, NEW v \in Created(s)
  PROVE  /\ v \in {NULL, JUNK} \union Objects
         /\ s > DEVICE => v = NULL \/ v = s + 1
BY ApiAssumption DEF Created, Indices, Objects, NULL, PLATFORM, DEVICE, KERNEL, TypeOK

LEMMA InitIInv == Init => IInv
<1> SUFFICES ASSUME Init PROVE IInv
  OBVIOUS
<1> USE DEF Init
<1>1. TypeOK
  <2>1. mem_ptrs \in [Indices -> {NULL, JUNK} \union Objects] /\ mem_idx \in 0..MaxObjs
    BY ApiAssumption
  <2>2. /\ args \in [Params -> Nat \union {Unset}] /\ wanted \in [Params -> Nat \union {Unset}]
        /\ args["buffer"] = Unset /\ args["scalar"] = Unset
    BY DEF Nothing, Params
  <2>3. wait \in [op: {"none", "finish"}, obj: {NULL}]
    BY DEF Idle
  <2>4. queue \in Seq(Commands)
    BY EmptySeq DEF Init
  <2>5. QED
    BY <2>1, <2>2, <2>3, <2>4 DEF TypeOK
<1>2. HandleNamesItsBuffer
  BY DEF HandleNamesItsBuffer
<1>3. WantedInv
  BY DEF WantedInv, Nothing, Params
<1>4. ArgsInv
  BY DEF ArgsInv, Nothing, Params
<1>5. LostArgumentIsReported
  BY DEF LostArgumentIsReported, Nothing, Params
<1>6. LaunchInv
  BY DEF LaunchInv
<1>7. QED
  BY <1>1, <1>2, <1>3, <1>4, <1>5, <1>6 DEF IInv

\* A command that is queued or not, and one that is carried out.
LEMMA EnqueueType ==
  ASSUME TypeOK, NEW c \in Commands, NEW ok \in BOOLEAN, Enqueue(ok, c)
  PROVE  TypeOK'
<1>1. queue' \in Seq(Commands)
  BY AppendProperties DEF Enqueue, TypeOK
<1>2. QED
  BY <1>1 DEF Enqueue, TypeOK, client, app

LEMMA EffectType ==
  ASSUME NEW m \in [Objects -> Contents \union {JUNK}], NEW c \in Commands
  PROVE  Effect(m, c) \in [Objects -> Contents \union {JUNK}]
<1>1. CASE c.op = "write"
  BY <1>1 DEF Effect, Commands
<1>2. CASE c.op = "copy"
  BY <1>2 DEF Effect, Commands
<1>3. CASE c.op = "launch"
  BY <1>3, ApiAssumption DEF Effect, Commands
<1>4. QED
  BY <1>1, <1>2, <1>3 DEF Commands

LEMMA DeliverType ==
  ASSUME TypeOK, NEW S \in SUBSET (Contents \union {JUNK}), Deliver(S)
  PROVE  TypeOK'
BY DEF Deliver, TypeOK, Idle, client, driver

LEMMA DiesType ==
  ASSUME TypeOK, ServerDies PROVE TypeOK'
BY DEF ServerDies, TypeOK, client, app

\* Argument p is set, or not, to a value of its type.
LEMMA SetArgType ==
  ASSUME TypeOK, NEW p \in Params, NEW want \in Nat, NEW isNull \in BOOLEAN, NEW v,
         Accepts(p, isNull, v) => v \in Nat /\ (p = "buffer" => v \in {NULL} \union Objects)
                                  /\ (p = "scalar" => v \in Scalars),
         SetArg(p, want, isNull, v)
  PROVE  TypeOK'
<1>1. args' \in [Params -> Nat \union {Unset}]
  BY DEF SetArg, TypeOK
<1>2. /\ args'["buffer"] \in {NULL, Unset} \union Objects
      /\ args'["scalar"] \in Scalars \union {Unset}
  BY DEF SetArg, TypeOK, Params
<1>3. wanted' \in [Params -> Nat \union {Unset}] /\ refused' \in [Params -> BOOLEAN]
  BY DEF SetArg, TypeOK
<1>4. QED
  BY <1>1, <1>2, <1>3 DEF SetArg, TypeOK, client

-----------------------------------------------------------------------------
\* A step that leaves the table, the arguments and the queue alone.
LEMMA FrameStep ==
  ASSUME IInv, TypeOK', UNCHANGED <<client, live, args, queue, wanted, refused>>
  PROVE  IInv'
BY DEF IInv, HandleNamesItsBuffer, WantedInv, ArgsInv, LostArgumentIsReported, LaunchInv,
       Obj, client

LEMMA DiesStep ==
  ASSUME IInv, ServerDies PROVE IInv'
<1>1. TypeOK'
  BY DiesType DEF IInv
<1>2. QED
  BY <1>1, FrameStep DEF ServerDies, client, app

LEMMA DeliverStep ==
  ASSUME IInv, NEW S \in SUBSET (Contents \union {JUNK}), Deliver(S) PROVE IInv'
<1>1. TypeOK'
  BY DeliverType DEF IInv
<1>2. QED
  BY <1>1, FrameStep DEF Deliver, client, driver

LEMMA WaitStep ==
  ASSUME IInv, NEW op, NEW o, WaitFor(op, o),
         (op \in {"read", "map"} /\ o \in Objects) \/ (op = "finish" /\ o = NULL)
  PROVE  IInv'
<1>1. TypeOK'
  BY DEF IInv, TypeOK, WaitFor, client, driver
<1>2. QED
  BY <1>1, FrameStep DEF WaitFor, client, driver

\* A command other than a launch is queued.
LEMMA EnqueueStep ==
  ASSUME IInv, NEW c \in Commands, c.op # "launch", NEW ok \in BOOLEAN, Enqueue(ok, c)
  PROVE  IInv'
<1>1. TypeOK'
  BY EnqueueType DEF IInv
<1>2. HandleNamesItsBuffer' /\ WantedInv' /\ ArgsInv' /\ LostArgumentIsReported'
  BY DEF IInv, Enqueue, HandleNamesItsBuffer, WantedInv, ArgsInv, LostArgumentIsReported,
         Obj, client, app
<1>3. LaunchInv'
  <2>1. CASE queue' = queue
    BY <2>1 DEF IInv, LaunchInv, Enqueue, client
  <2>2. CASE queue' = Append(queue, c)
    <3>1. /\ Len(queue') = Len(queue) + 1 /\ queue'[Len(queue) + 1] = c
          /\ \A i \in 1..Len(queue) : queue'[i] = queue[i]
      BY <2>2, AppendProperties DEF IInv, TypeOK
    <3>2. Len(queue) \in Nat
      BY LenProperties DEF IInv, TypeOK
    <3>3. QED
      BY <3>1, <3>2 DEF IInv, LaunchInv, Enqueue, client
  <2>3. QED
    BY <2>1, <2>2 DEF Enqueue
<1>4. QED
  BY <1>1, <1>2, <1>3 DEF IInv

LEMMA LaunchStep ==
  ASSUME IInv, NDRangeKernel PROVE IInv'
<1> DEFINE c == Command("launch", args["buffer"], NULL, args["scalar"],
                        wanted["buffer"] + 1, wanted["scalar"])
           ok == Good(mem_ptrs[KERNEL]) /\ \A p \in Params : args[p] # Unset
<1>1. Enqueue(ok, c) /\ \A p \in Params : wanted[p] # Unset
  BY DEF NDRangeKernel
<1>2. CASE ~ok
  <2>1. queue' = queue
    BY <1>1, <1>2 DEF Enqueue
  <2>2. TypeOK'
    BY <1>1, <2>1 DEF IInv, TypeOK, Enqueue, client, app
  <2>3. QED
    BY <1>1, <2>1, <2>2, FrameStep DEF Enqueue, client, app
<1>3. CASE ok
  <2>1. /\ c.op = "launch" /\ c.dst = args["buffer"] /\ c.num = args["scalar"]
        /\ c.wdst = wanted["buffer"] + 1 /\ c.wnum = wanted["scalar"]
    BY DEF Command
  <2>2. /\ wanted["buffer"] \in 0..(mem_idx - 1) /\ wanted["scalar"] \in Scalars
        /\ mem_idx \in Nat
    BY <1>1 DEF IInv, WantedInv, Params, TypeOK
  <2>3. args["buffer"] \in {NULL} \union Objects /\ args["scalar"] \in Scalars
    BY <1>3 DEF IInv, TypeOK, Params
  <2>4. c \in Commands
    <3>1. wanted["scalar"] \in Nat
      BY <2>2, BasicFacts
    <3>2. wanted["buffer"] + 1 \in Nat
      BY <2>2
    <3>3. c \in [op: {"launch"}, dst: {NULL} \union Objects, src: {NULL}, num: Scalars,
                 wdst: Nat, wnum: Nat]
      BY <3>1, <3>2, <2>3 DEF Command
    <3>4. QED
      BY <3>3 DEF Commands
  <2>5. TypeOK'
    BY <1>1, <2>4, EnqueueType DEF IInv
  <2>6. HandleNamesItsBuffer' /\ WantedInv' /\ ArgsInv' /\ LostArgumentIsReported'
    BY <1>1 DEF IInv, Enqueue, HandleNamesItsBuffer, WantedInv, ArgsInv,
                LostArgumentIsReported, Obj, client, app
  <2>7. LaunchInv'
    <3>1. CASE queue' = queue
      BY <1>1, <3>1 DEF IInv, LaunchInv, Enqueue, client
    <3>2. CASE queue' = Append(queue, c)
      <4>1. /\ Len(queue') = Len(queue) + 1 /\ queue'[Len(queue) + 1] = c
            /\ \A i \in 1..Len(queue) : queue'[i] = queue[i]
        BY <3>2, <2>4, AppendProperties DEF IInv, TypeOK
      <4>2. Len(queue) \in Nat
        BY LenProperties DEF IInv, TypeOK
      <4>3. mem_ptrs' = mem_ptrs /\ mem_idx' = mem_idx
        BY <1>1 DEF Enqueue, client
      <4>4. c.num # c.wnum => c.wnum = 0
        BY <1>3, <2>1 DEF IInv, ArgsInv
      <4>5. c.dst # c.wdst => mem_ptrs[c.wdst - 1] = NULL \/ c.wdst > Slots
        <5>1. \/ args["buffer"] = wanted["buffer"] + 1
              \/ mem_ptrs[wanted["buffer"]] = NULL
              \/ wanted["buffer"] >= Slots
          BY <1>1, <1>3 DEF IInv, ArgsInv, Params
        <5>2. c.wdst - 1 = wanted["buffer"]
          BY <2>1, <2>2
        <5>3. QED
          BY <2>1, <2>2, <5>1, <5>2, ApiAssumption
      <4>6. c.wdst \in 1..mem_idx
        BY <2>1, <2>2
      <4> HIDE DEF c
      <4>7. QED
        BY <4>1, <4>2, <4>3, <4>4, <4>5, <4>6 DEF IInv, LaunchInv
    <3>3. QED
      BY <1>1, <3>1, <3>2 DEF Enqueue
  <2>8. QED
    BY <2>5, <2>6, <2>7 DEF IInv
<1>4. QED
  BY <1>2, <1>3

LEMMA ExecuteStep ==
  ASSUME IInv, ExecuteCommand PROVE IInv'
<1>1. CASE ServerDies
  BY <1>1, DiesStep
<1>2. CASE /\ queue' = Tail(queue)
           /\ content' = IF Head(queue).dst = NULL THEN content
                         ELSE Effect(content, Head(queue))
           /\ UNCHANGED <<client, live, built, args, up, app>>
  <2>1. /\ Head(queue) \in Commands /\ queue' \in Seq(Commands)
        /\ Len(queue') = Len(queue) - 1 /\ Len(queue) \in Nat
        /\ \A i \in 1..Len(queue') : queue'[i] = queue[i + 1]
    BY <1>2, HeadTailProperties, LenProperties DEF ExecuteCommand, IInv, TypeOK
  <2>2. content' \in [Objects -> Contents \union {JUNK}]
    BY <1>2, <2>1, EffectType DEF IInv, TypeOK
  <2>3. TypeOK'
    BY <1>2, <2>1, <2>2 DEF IInv, TypeOK, client, app
  <2>4. HandleNamesItsBuffer' /\ WantedInv' /\ ArgsInv' /\ LostArgumentIsReported'
    BY <1>2 DEF IInv, HandleNamesItsBuffer, WantedInv, ArgsInv, LostArgumentIsReported,
                Obj, client, app
  <2>5. LaunchInv'
    BY <1>2, <2>1 DEF IInv, LaunchInv, client
  <2>6. QED
    BY <2>3, <2>4, <2>5 DEF IInv
<1>3. QED
  BY <1>1, <1>2 DEF ExecuteCommand

-----------------------------------------------------------------------------
\* What setting an argument does to the invariants that are about arguments.
LEMMA SetArgFrame ==
  ASSUME IInv, SetUp, NEW p \in Params, NEW want \in Nat, NEW isNull, NEW v,
         SetArg(p, want, isNull, v), TypeOK',
         WantedInv', ArgsInv', LostArgumentIsReported'
  PROVE  IInv'
BY DEF IInv, SetArg, HandleNamesItsBuffer, LaunchInv, Obj, client

LEMMA ScalarStep ==
  ASSUME IInv, NEW n \in Scalars, SetArgScalar(n) PROVE IInv'
<1> PICK high \in BOOLEAN : SetArg("scalar", n, IsZero(n, high), n)
  BY DEF SetArgScalar
<1> DEFINE z == IsZero(n, high)
<1>1. z \in BOOLEAN /\ (z => n = 0)
  BY DEF IsZero
<1>2. SetUp /\ SetArg("scalar", n, z, n) /\ n \in Nat /\ "scalar" \in Params
  BY ApiAssumption DEF SetArgScalar, Params
<1> HIDE DEF z
<1>3. TypeOK'
  BY <1>1, <1>2, SetArgType DEF IInv
<1>4. /\ wanted'["scalar"] = n /\ wanted'["buffer"] = wanted["buffer"]
      /\ args'["buffer"] = args["buffer"] /\ refused'["buffer"] = refused["buffer"]
      /\ refused'["scalar"] = ~Accepts("scalar", z, n)
      /\ args'["scalar"] = IF Accepts("scalar", z, n) THEN n ELSE args["scalar"]
      /\ mem_ptrs' = mem_ptrs /\ mem_idx' = mem_idx
  BY <1>2 DEF SetArg, IInv, TypeOK, Params, client
<1>5. Accepts("scalar", z, n) <=> Good(mem_ptrs[KERNEL]) /\ ~z
  BY DEF Accepts
<1>6. WantedInv'
  BY <1>2, <1>4 DEF IInv, WantedInv, SetUp
<1>7. ArgsInv'
  BY <1>1, <1>4, <1>5 DEF IInv, ArgsInv, Good
<1>8. LostArgumentIsReported'
  BY <1>4 DEF IInv, LostArgumentIsReported
<1>9. QED
  BY <1>2, <1>3, <1>6, <1>7, <1>8, SetArgFrame

LEMMA LocalStep ==
  ASSUME IInv, SetArgLocal PROVE IInv'
<1>1. SetUp /\ SetArg("local", NULL, TRUE, NULL) /\ NULL \in Nat /\ "local" \in Params
  BY DEF SetArgLocal, NULL, Params
<1>2. TypeOK'
  BY <1>1, SetArgType DEF IInv
<1>3. /\ wanted'["scalar"] = wanted["scalar"] /\ wanted'["buffer"] = wanted["buffer"]
      /\ args'["scalar"] = args["scalar"] /\ args'["buffer"] = args["buffer"]
      /\ refused'["scalar"] = refused["scalar"] /\ refused'["buffer"] = refused["buffer"]
      /\ mem_ptrs' = mem_ptrs /\ mem_idx' = mem_idx
  BY <1>1 DEF SetArg, IInv, TypeOK, Params, client
<1>4. WantedInv' /\ ArgsInv' /\ LostArgumentIsReported'
  BY <1>1, <1>3 DEF IInv, WantedInv, ArgsInv, LostArgumentIsReported, SetUp, Good
<1>5. QED
  BY <1>1, <1>2, <1>4, SetArgFrame

LEMMA BufferStep ==
  ASSUME IInv, NEW b \in Buffers, SetArgBuffer(b) PROVE IInv'
<1> DEFINE s == handle[b]
           v == IF IsHandle(s) THEN Obj(b) ELSE JUNK
           z == v = NULL
<1>1. SetUp /\ s # Unset
  BY DEF SetArgBuffer
<1>2. s \in 0..(mem_idx - 1) /\ s \in Nat /\ s \in Indices
  BY <1>1 DEF IInv, TypeOK, HandleNamesItsBuffer, Indices
<1>3. \/ s < Slots /\ v = s + 1 /\ v \in live
      \/ s < Slots /\ v = NULL /\ mem_ptrs[s] = NULL
      \/ s >= Slots /\ v = JUNK
  BY <1>1, <1>2, ApiAssumption DEF IInv, HandleNamesItsBuffer, IsHandle, Obj
<1>4. SetArg("buffer", s, z, v) \/ ServerDies
  BY DEF SetArgBuffer
<1> HIDE DEF s, v
<1>5. CASE SetArg("buffer", s, z, v)
  <2>1. JUNK \notin live /\ NULL \notin live /\ NULL # JUNK /\ live \subseteq Objects
    BY BasicFacts DEF IInv, TypeOK
  <2>2. Accepts("buffer", z, v) <=> Good(mem_ptrs[KERNEL]) /\ (z \/ v \in live)
    BY DEF Accepts
  <2>3. /\ Accepts("buffer", z, v) => v \in {NULL} \union Objects
        /\ {NULL} \union Objects \subseteq Nat
    BY <2>1, <2>2, BasicFacts
  <2>4. TypeOK'
    BY <1>2, <1>5, <2>3, SetArgType DEF IInv, Params
  <2>5. /\ wanted'["buffer"] = s /\ wanted'["scalar"] = wanted["scalar"]
        /\ args'["scalar"] = args["scalar"] /\ refused'["scalar"] = refused["scalar"]
        /\ refused'["buffer"] = ~Accepts("buffer", z, v)
        /\ args'["buffer"] = IF Accepts("buffer", z, v) THEN v ELSE args["buffer"]
        /\ mem_ptrs' = mem_ptrs /\ mem_idx' = mem_idx
    BY <1>5 DEF SetArg, IInv, TypeOK, Params, client
  <2>6. WantedInv'
    BY <1>1, <1>2, <2>5 DEF IInv, WantedInv, SetUp
  <2>7. ArgsInv'
    BY <1>3, <2>2, <2>5 DEF IInv, ArgsInv, Good
  <2>8. LostArgumentIsReported'
    BY <1>3, <2>1, <2>2, <2>5 DEF IInv, LostArgumentIsReported
  <2>9. QED
    BY <1>1, <1>2, <1>5, <2>4, <2>6, <2>7, <2>8, SetArgFrame DEF Params
<1>6. QED
  BY <1>4, <1>5, DiesStep

-----------------------------------------------------------------------------
\* What a creation leaves true of the slots that were filled before it.
LEMMA FillStep ==
  ASSUME IInv, mem_idx < MaxObjs, NEW v \in {NULL, JUNK} \union Objects, Fill(v),
         UNCHANGED <<args, queue, wanted, refused>>
  PROVE  WantedInv' /\ ArgsInv' /\ LostArgumentIsReported' /\ LaunchInv'
<1>1. /\ mem_idx' = mem_idx + 1 /\ mem_idx \in Nat
      /\ \A s \in 0..(mem_idx - 1) : mem_ptrs'[s] = mem_ptrs[s]
  <2>1. \A s \in 0..(mem_idx - 1) : s \in Indices /\ s # mem_idx
    BY BasicFacts DEF IInv, TypeOK, Indices
  <2>2. QED
    BY <2>1, FillEffect DEF IInv, TypeOK
<1>2. WantedInv'
  BY <1>1 DEF IInv, WantedInv, KERNEL
<1>3. LostArgumentIsReported'
  BY <1>1 DEF IInv, WantedInv, LostArgumentIsReported
<1>4. ArgsInv'
  <2>1. CASE mem_idx > KERNEL
    <3>1. mem_ptrs'[KERNEL] = mem_ptrs[KERNEL]
      BY <2>1, <1>1 DEF KERNEL
    <3>2. QED
      BY <3>1, <1>1 DEF IInv, WantedInv, ArgsInv, Good
  <2>2. CASE ~(mem_idx > KERNEL)
    <3>1. wanted' = Nothing /\ args' = Nothing
      BY <2>2 DEF IInv, WantedInv
    <3>2. QED
      BY <3>1 DEF ArgsInv, Nothing, Params
  <2>3. QED
    BY <2>1, <2>2
<1>5. LaunchInv'
  BY <1>1 DEF IInv, LaunchInv
<1>6. QED
  BY <1>2, <1>3, <1>4, <1>5

LEMMA CreateStep ==
  ASSUME IInv, CreateObject PROVE IInv'
<1>1. CASE /\ \E v \in Created(mem_idx) : Fill(v)
           /\ UNCHANGED <<handle, driver, app>>
  <2> PICK v \in Created(mem_idx) : Fill(v)
    BY <1>1
  <2>1. mem_idx < MaxObjs /\ mem_idx \in Indices /\ mem_idx \in Nat
    BY BasicFacts DEF CreateObject, IInv, TypeOK, Indices, KERNEL
  <2>2. v \in {NULL, JUNK} \union Objects
    BY <2>1, CreatedValues DEF IInv
  <2>3. TypeOK'
    BY <1>1, <2>1, <2>2, FillEffect DEF IInv, TypeOK, driver, app
  <2>4. HandleNamesItsBuffer'
    <3>1. /\ mem_idx' = mem_idx + 1
          /\ \A s \in Indices : s # mem_idx => mem_ptrs'[s] = mem_ptrs[s]
      BY <2>1, <2>2, FillEffect DEF IInv
    <3>2. \A b \in Buffers : handle[b] # Unset =>
            handle[b] \in Indices /\ handle[b] < mem_idx /\ handle[b] # mem_idx
      BY <2>1, BasicFacts DEF IInv, TypeOK, HandleNamesItsBuffer, Indices
    <3>3. QED
      BY <1>1, <2>1, <3>1, <3>2 DEF IInv, HandleNamesItsBuffer, Obj, driver, Indices
  <2>5. QED
    BY <1>1, <2>1, <2>2, <2>3, <2>4, FillStep DEF IInv, driver, app
<1>2. QED
  BY <1>1, DiesStep DEF CreateObject

LEMMA CreateBufferStep ==
  ASSUME IInv, NEW b \in Buffers, NEW c \in Contents \union {JUNK}, CreateBuffer(b, c) PROVE IInv'
<1> PICK w \in Created(mem_idx) :
       /\ Fill(w)
       /\ live' = IF w = NULL THEN live ELSE live \union {w}
       /\ content' = IF w = NULL THEN content
                     ELSE [content EXCEPT ![w] = InitialContent(b, c)]
  BY DEF CreateBuffer
<1>1. mem_idx < MaxObjs /\ mem_idx \in Indices /\ mem_idx \in Nat /\ mem_idx > DEVICE
  BY BasicFacts DEF CreateBuffer, SetUp, IInv, TypeOK, Indices, KERNEL, DEVICE
<1>2. w \in {NULL, JUNK} \union Objects /\ (w = NULL \/ w = mem_idx + 1)
  BY <1>1, CreatedValues DEF IInv
<1>3. w # NULL => w \in Objects
  BY <1>1, <1>2, BasicFacts
<1>4. /\ mem_idx' = mem_idx + 1
      /\ \A s \in Indices : s # mem_idx => mem_ptrs'[s] = mem_ptrs[s]
      /\ mem_ptrs'[mem_idx] = w \/ (mem_ptrs'[mem_idx] = JUNK /\ mem_idx >= Slots)
  BY <1>1, <1>2, FillEffect DEF IInv
<1>5. TypeOK'
  <2>1. /\ mem_ptrs' \in [Indices -> {NULL, JUNK} \union Objects]
        /\ mem_idx' \in 0..MaxObjs
    BY <1>1, <1>2, FillEffect DEF IInv
  <2>2. content' \in [Objects -> Contents \union {JUNK}] /\ live' \subseteq Objects
    BY <1>3 DEF IInv, TypeOK, InitialContent
  <2>3. handle' \in [Buffers -> Indices \union {Unset}]
    BY <1>1 DEF CreateBuffer, IInv, TypeOK
  <2>4. QED
    BY <2>1, <2>2, <2>3 DEF CreateBuffer, IInv, TypeOK, app
<1>6. HandleNamesItsBuffer'
  <2>1. \A a \in Buffers : handle'[a] = IF a = b THEN mem_idx ELSE handle[a]
    BY DEF CreateBuffer, IInv, TypeOK
  <2>2. \A a \in Buffers : handle[a] # Unset =>
          handle[a] \in Indices /\ handle[a] < mem_idx /\ handle[a] # mem_idx
    BY <1>1, BasicFacts DEF IInv, TypeOK, HandleNamesItsBuffer, Indices
  <2>3. Obj(b)' = mem_ptrs'[mem_idx]
    BY <2>1 DEF Obj
  <2>4. \A a \in Buffers : a # b /\ handle[a] # Unset => Obj(a)' = Obj(a)
    BY <1>4, <2>1, <2>2 DEF Obj
  <2>5. live \subseteq live'
    OBVIOUS
  <2>6. ASSUME NEW a \in Buffers, a # b, handle'[a] # Unset
        PROVE  /\ handle'[a] < mem_idx'
               /\ \A d \in Buffers : d # a => handle'[d] # handle'[a]
               /\ \/ Obj(a)' = handle'[a] + 1 /\ Obj(a)' \in live'
                  \/ Obj(a)' = NULL
                  \/ Obj(a)' = JUNK /\ handle'[a] >= Slots
    <3>1. handle'[a] = handle[a] /\ Obj(a)' = Obj(a) /\ handle[a] \in Nat
      BY <2>1, <2>2, <2>4, <2>6 DEF Indices
    <3>2. \A d \in Buffers : d # a => handle'[d] # handle'[a]
      BY <2>1, <2>2, <3>1, <2>6 DEF IInv, HandleNamesItsBuffer
    <3>3. handle[a] < mem_idx
      BY <2>2, <2>6, <3>1
    <3>4. handle'[a] < mem_idx'
      BY <3>1, <3>3, <1>1, <1>4
    <3>5. QED
      BY <2>5, <2>6, <3>1, <3>2, <3>4 DEF IInv, HandleNamesItsBuffer
  <2>7. /\ handle'[b] = mem_idx /\ mem_idx < mem_idx'
        /\ \A d \in Buffers : d # b => handle'[d] # handle'[b]
    <3>1. \A d \in Buffers : d # b => handle[d] # mem_idx
      BY <1>1, <2>2, BasicFacts
    <3>2. QED
      BY <1>1, <1>4, <2>1, <3>1
  <2>8. \/ Obj(b)' = handle'[b] + 1 /\ Obj(b)' \in live'
        \/ Obj(b)' = NULL
        \/ Obj(b)' = JUNK /\ handle'[b] >= Slots
    BY <1>2, <1>3, <1>4, <2>3, <2>7
  <2>9. QED
    BY <2>6, <2>7, <2>8 DEF HandleNamesItsBuffer
<1>7. QED
  BY <1>1, <1>2, <1>5, <1>6, FillStep DEF IInv, CreateBuffer, app

LEMMA ReleaseStep ==
  ASSUME IInv, NEW b \in Buffers, ReleaseMem(b) PROVE IInv'
<1>1. /\ handle[b] # Unset /\ mem_ptrs' = mem_ptrs /\ mem_idx' = mem_idx
      /\ handle' = [handle EXCEPT ![b] = Unset] /\ live' = live \ {Obj(b)}
      /\ UNCHANGED <<content, built, args, queue, up, app>>
  BY DEF ReleaseMem
<1>2. TypeOK'
  BY <1>1 DEF IInv, TypeOK, app
<1>3. HandleNamesItsBuffer'
  <2>1. \A a \in Buffers : handle'[a] = IF a = b THEN Unset ELSE handle[a]
    BY <1>1 DEF IInv, TypeOK
  <2>2. ASSUME NEW a \in Buffers, handle'[a] # Unset, Obj(a) = handle[a] + 1
        PROVE  Obj(a) # Obj(b)
    <3>1. a # b /\ handle[a] # handle[b] /\ handle[a] \in Nat /\ handle[b] \in Nat
      BY <1>1, <2>1, <2>2 DEF IInv, HandleNamesItsBuffer, TypeOK, Indices
    <3>2. \/ Obj(b) = handle[b] + 1
          \/ Obj(b) = NULL
          \/ Obj(b) = JUNK
      BY <1>1 DEF IInv, HandleNamesItsBuffer
    <3>3. QED
      BY <2>2, <3>1, <3>2, BasicFacts DEF NULL
  <2>3. \A a \in Buffers : handle'[a] # Unset => Obj(a)' = Obj(a)
    BY <1>1, <2>1 DEF Obj
  <2>4. QED
    BY <1>1, <2>1, <2>2, <2>3 DEF IInv, HandleNamesItsBuffer
<1>4. WantedInv' /\ ArgsInv' /\ LostArgumentIsReported' /\ LaunchInv'
  BY <1>1 DEF IInv, WantedInv, ArgsInv, LostArgumentIsReported, LaunchInv, Good, app
<1>5. QED
  BY <1>2, <1>3, <1>4 DEF IInv

\* The object a handle leads to, when the driver knows it.
LEMMA GoodObject ==
  ASSUME IInv, NEW b \in Buffers, Usable(b)
  PROVE  Obj(b) \in {NULL, JUNK} \union Objects /\ (Good(Obj(b)) => Obj(b) \in Objects)
BY DEF IInv, TypeOK, Usable, Obj, Good

LEMMA ObjectsAreNat == Objects \subseteq Nat /\ NULL \in Nat
BY BasicFacts

LEMMA WriteStep ==
  ASSUME IInv, NEW b \in Buffers, NEW c \in Contents, WriteBuffer(b, c) PROVE IInv'
<1> DEFINE d == Command("write", Obj(b), NULL, c, Obj(b), c)
<1>1. CASE Enqueue(Good(Obj(b)), d)
  <2>1. CASE Good(Obj(b))
    <3>1. Obj(b) \in Objects /\ Obj(b) \in Nat /\ c \in Nat
      BY <2>1, GoodObject, BasicFacts, ApiAssumption DEF WriteBuffer
    <3>2. d \in Commands /\ d.op # "launch"
      BY <3>1 DEF Command, Commands
    <3>3. QED
      BY <1>1, <3>2, EnqueueStep DEF Good
  <2>2. CASE ~Good(Obj(b))
    <3>1. queue' = queue
      BY <1>1, <2>2 DEF Enqueue
    <3>2. TypeOK'
      BY <1>1, <3>1 DEF IInv, TypeOK, Enqueue, client, app
    <3>3. QED
      BY <1>1, <3>1, <3>2, FrameStep DEF Enqueue, client, app
  <2>3. QED
    BY <2>1, <2>2
<1>2. CASE JunkObject(b)
  BY <1>2, DiesStep DEF JunkObject
<1>3. QED
  BY <1>1, <1>2 DEF WriteBuffer

LEMMA CopyStep ==
  ASSUME IInv, NEW a \in Buffers, NEW b \in Buffers, CopyBuffer(a, b) PROVE IInv'
<1> DEFINE d == Command("copy", Obj(b), Obj(a), NULL, Obj(b), NULL)
           ok == Good(Obj(a)) /\ Good(Obj(b))
<1>1. CASE Enqueue(ok, d)
  <2>1. CASE ok
    <3>1. Obj(a) \in Objects /\ Obj(b) \in Objects
      BY <2>1, GoodObject DEF CopyBuffer
    <3>2. Obj(b) \in Nat /\ NULL \in Nat
      BY <3>1, ObjectsAreNat
    <3>3. d \in Commands /\ d.op # "launch"
      BY <3>1, <3>2 DEF Command, Commands
    <3>4. QED
      BY <1>1, <3>3, EnqueueStep DEF Good
  <2>2. CASE ~ok
    <3>1. queue' = queue
      BY <1>1, <2>2 DEF Enqueue
    <3>2. TypeOK'
      BY <1>1, <3>1 DEF IInv, TypeOK, Enqueue, client, app
    <3>3. QED
      BY <1>1, <3>1, <3>2, FrameStep DEF Enqueue, client, app
  <2>3. QED
    BY <2>1, <2>2
<1>2. CASE JunkObject(a) \/ JunkObject(b)
  BY <1>2, DiesStep DEF JunkObject
<1>3. QED
  BY <1>1, <1>2 DEF CopyBuffer

LEMMA OutcomesType ==
  ASSUME IInv, NEW b \in Buffers, NEW o \in Objects
  PROVE  ReadOutcomes(b, o) \in SUBSET (Contents \union {JUNK})
BY DEF IInv, TypeOK, ReadOutcomes

LEMMA ReadStep ==
  ASSUME IInv, NEW b \in Buffers, ReadBuffer(b) PROVE IInv'
<1> DEFINE ok == Good(Obj(b)) /\ Good(mem_ptrs[QUEUE])
           S == {JUNK} \union IF queue = <<>> THEN ReadOutcomes(b, Obj(b)) ELSE {}
<1>1. ok => Obj(b) \in Objects
  BY GoodObject DEF ReadBuffer
<1>2. CASE ok /\ WaitFor("read", Obj(b))
  BY <1>1, <1>2, WaitStep
<1>3. CASE ok /\ Deliver(S)
  <2>1. S \in SUBSET (Contents \union {JUNK})
    BY <1>1, <1>3, OutcomesType
  <2>2. QED
    BY <1>3, <2>1, DeliverStep
<1>4. CASE Deliver({JUNK})
  BY <1>4, DeliverStep
<1>5. CASE ServerDies
  BY <1>5, DiesStep
<1>6. QED
  BY <1>2, <1>3, <1>4, <1>5 DEF ReadBuffer

LEMMA MapStep ==
  ASSUME IInv, NEW b \in Buffers, MapBuffer(b) PROVE IInv'
BY GoodObject, WaitStep, DiesStep DEF MapBuffer

LEMMA ReturnsStep ==
  ASSUME IInv, (\E b \in Buffers : ReadReturns(b)) \/ MapReturns PROVE IInv'
<1>1. wait.op \in {"read", "map"} => wait.obj \in Objects
  BY DEF IInv, TypeOK
<1>2. ASSUME NEW b \in Buffers, ReadReturns(b) PROVE IInv'
  BY <1>1, <1>2, OutcomesType, DeliverStep DEF ReadReturns
<1>3. ASSUME MapReturns PROVE IInv'
  <2>1. {content[wait.obj]} \in SUBSET (Contents \union {JUNK})
    BY <1>1, <1>3 DEF MapReturns, IInv, TypeOK
  <2>2. QED
    BY <1>3, <2>1, DeliverStep DEF MapReturns
<1>4. QED
  BY <1>2, <1>3

LEMMA FinishStep == ASSUME IInv, Finish \/ FinishReturns PROVE IInv'
<1>1. CASE Finish
  BY <1>1, WaitStep DEF Finish
<1>2. CASE FinishReturns
  <2>1. TypeOK'
    BY <1>2 DEF FinishReturns, IInv, TypeOK, Idle, client, driver
  <2>2. QED
    BY <1>2, <2>1, FrameStep DEF FinishReturns, client, driver
<1>3. QED
  BY <1>1, <1>2

LEMMA BuildStep == ASSUME IInv, BuildProgram PROVE IInv'
<1>1. TypeOK'
  BY DEF BuildProgram, IInv, TypeOK, client, app
<1>2. QED
  BY <1>1, FrameStep DEF BuildProgram, client, app

LEMMA Invariance == IInv /\ [Next]_vars => IInv'
<1> SUFFICES ASSUME IInv, [Next]_vars PROVE IInv'
  OBVIOUS
<1>1. CASE UNCHANGED vars
  <2>1. TypeOK'
    BY <1>1 DEF IInv, TypeOK, vars, client, driver, app
  <2>2. QED
    BY <1>1, <2>1, FrameStep DEF vars, client, driver, app
<1>2. CASE Next
  BY <1>2, CreateStep, BuildStep, CreateBufferStep, ReleaseStep, BufferStep, ScalarStep,
     LocalStep, LaunchStep, WriteStep, CopyStep, ReadStep, MapStep, ReturnsStep,
     FinishStep, ExecuteStep DEF Next
<1>3. QED
  BY <1>1, <1>2

-----------------------------------------------------------------------------
(* The variables keep their types.                                         *)
THEOREM TypeCorrect == Spec => []TypeOK
<1>1. IInv => TypeOK
  BY DEF IInv
<1>2. QED
  BY <1>1, InitIInv, Invariance, PTL DEF Spec

(* A cl_mem leads to its own buffer after any sequence of creations and    *)
(* releases (mem_ptrs + mem_idx++ in every creating call).                 *)
THEOREM HandlesHold == Spec => []HandleNamesItsBuffer
<1>1. IInv => HandleNamesItsBuffer
  BY DEF IInv
<1>2. QED
  BY <1>1, InitIInv, Invariance, PTL DEF Spec

(* A launch runs with the arguments set last, but for a scalar zero, a     *)
(* buffer that was never created and a handle past the table               *)
(* (clSetKernelArg, do_set_kern_arg).                                      *)
THEOREM LaunchesHold == Spec => []LaunchMeansWhatWasSet
<1>1. IInv => LaunchMeansWhatWasSet
  BY DEF IInv, LaunchInv, LaunchMeansWhatWasSet
<1>2. QED
  BY <1>1, InitIInv, Invariance, PTL DEF Spec

(* The error code of clSetKernelArg tells of every argument that was lost, *)
(* but for a buffer that was never created.                                *)
THEOREM LossesReported == Spec => []LostArgumentIsReported
<1>1. IInv => LostArgumentIsReported
  BY DEF IInv
<1>2. QED
  BY <1>1, InitIInv, Invariance, PTL DEF Spec

-----------------------------------------------------------------------------
(* An object that could not be created, or that has no slot in the table.  *)
Lost == mem_idx > Slots \/ \E s \in 0..(mem_idx - 1) : ~Good(mem_ptrs[s])

LEMMA BadObjectIsLost ==
  ASSUME IInv, NEW b \in Buffers, handle[b] # Unset, ~Good(Obj(b)) PROVE Lost
<1>1. handle[b] \in 0..(mem_idx - 1)
  BY BasicFacts DEF IInv, TypeOK, HandleNamesItsBuffer, Indices
<1>2. QED
  BY <1>1 DEF Lost, Obj

LEMMA BadSetUpIsLost ==
  ASSUME IInv, NEW s \in 0..(mem_idx - 1), ~Good(mem_ptrs[s]) PROVE Lost
BY DEF Lost

(* The calls that may take the server process down all do so over a lost   *)
(* object.                                                                 *)
LEMMA DiesOfLost ==
  ASSUME IInv, Next, up, ~up' PROVE Lost /\ UNCHANGED client
<1> USE DEF driver, app, vars
<1>1. CASE CreateObject
  <2>0. mem_idx \in 0..KERNEL
    BY <1>1, BasicFacts DEF CreateObject, IInv, TypeOK
  <2>1. ServerDies /\ \E p \in Parents(mem_idx) : mem_ptrs[p] = JUNK
    BY <1>1 DEF CreateObject
  <2>2. PICK p \in Parents(mem_idx) : mem_ptrs[p] = JUNK
    BY <2>1
  <2>3. p \in 0..(mem_idx - 1)
    BY <2>0, <2>2 DEF Parents, PLATFORM, DEVICE, CONTEXT, QUEUE, PROGRAM, KERNEL
  <2>4. QED
    BY <2>1, <2>2, <2>3, BadSetUpIsLost DEF Good, ServerDies
<1>2. CASE BuildProgram
  BY <1>2 DEF BuildProgram
<1>3. ASSUME NEW b \in Buffers, NEW v \in Contents \union {JUNK}, CreateBuffer(b, v)
      PROVE  FALSE
  BY <1>3 DEF CreateBuffer
<1>4. ASSUME NEW b \in Buffers, ReleaseMem(b) PROVE FALSE
  BY <1>4 DEF ReleaseMem
<1>5. ASSUME NEW b \in Buffers, SetArgBuffer(b) PROVE Lost /\ UNCHANGED client
  <2>1. /\ ServerDies /\ handle[b] # Unset
        /\ (IF IsHandle(handle[b]) THEN Obj(b) ELSE JUNK) = JUNK
    BY <1>5 DEF SetArgBuffer, SetArg
  <2>2. CASE IsHandle(handle[b])
    BY <2>1, <2>2, BadObjectIsLost DEF Good, ServerDies
  <2>3. CASE ~IsHandle(handle[b])
    <3>1. handle[b] \in Nat /\ handle[b] < mem_idx /\ mem_idx \in Nat /\ Slots \in Nat
      BY <2>1, BasicFacts DEF IInv, TypeOK, HandleNamesItsBuffer, Indices
    <3>2. mem_idx > Slots
      BY <2>3, <3>1 DEF IsHandle
    <3>3. QED
      BY <2>1, <3>2 DEF Lost, ServerDies
  <2>4. QED
    BY <2>2, <2>3
<1>6. ASSUME NEW n \in Scalars, SetArgScalar(n) PROVE FALSE
  BY <1>6 DEF SetArgScalar, SetArg
<1>7. CASE SetArgLocal
  BY <1>7 DEF SetArgLocal, SetArg
<1>8. CASE NDRangeKernel
  BY <1>8 DEF NDRangeKernel, Enqueue
<1>9. ASSUME NEW b \in Buffers, JunkObject(b) PROVE Lost /\ UNCHANGED client
  BY <1>9, BadObjectIsLost DEF JunkObject, Usable, Good, ServerDies
<1>10. ASSUME NEW b \in Buffers, NEW v \in Contents, WriteBuffer(b, v)
       PROVE  Lost /\ UNCHANGED client
  BY <1>9, <1>10 DEF WriteBuffer, Enqueue
<1>11. ASSUME NEW a \in Buffers, NEW b \in Buffers, CopyBuffer(a, b)
       PROVE  Lost /\ UNCHANGED client
  BY <1>9, <1>11 DEF CopyBuffer, Enqueue
<1>12. ASSUME NEW b \in Buffers, ReadBuffer(b) PROVE Lost /\ UNCHANGED client
  <2>1. Usable(b) /\ Obj(b) = JUNK /\ ServerDies
    BY <1>12 DEF ReadBuffer, WaitFor, Deliver
  <2>2. QED
    BY <2>1, BadObjectIsLost DEF Usable, Good, ServerDies
<1>13. ASSUME NEW b \in Buffers, MapBuffer(b) PROVE Lost /\ UNCHANGED client
  <2>1. /\ SetUp /\ Usable(b) /\ ServerDies
        /\ ~Good(Obj(b)) \/ ~Good(mem_ptrs[QUEUE])
    BY <1>13 DEF MapBuffer, WaitFor
  <2>2. QUEUE \in 0..(mem_idx - 1)
    BY <2>1 DEF SetUp, QUEUE, KERNEL, IInv, TypeOK
  <2>3. QED
    BY <2>1, <2>2, BadObjectIsLost, BadSetUpIsLost DEF Usable, ServerDies
<1>14. ASSUME NEW b \in Buffers, ReadReturns(b) PROVE FALSE
  BY <1>14 DEF ReadReturns, Deliver
<1>15. CASE MapReturns \/ Finish \/ FinishReturns
  BY <1>15 DEF MapReturns, Finish, FinishReturns, Deliver, WaitFor
<1>16. CASE ExecuteCommand
  <2>1. queue # <<>> /\ Head(queue).dst = NULL /\ ServerDies
    BY <1>16 DEF ExecuteCommand
  <2>2. queue[1] \in Commands /\ queue[1].dst = NULL /\ 1 \in 1..Len(queue)
    BY <2>1, BasicFacts DEF IInv, TypeOK
  <2>3. queue[1].op = "launch"
    BY <2>2, BasicFacts DEF Commands
  <2>4. /\ queue[1].wdst \in 1..mem_idx
        /\ queue[1].dst # queue[1].wdst =>
             mem_ptrs[queue[1].wdst - 1] = NULL \/ queue[1].wdst > Slots
    BY <2>2, <2>3 DEF IInv, LaunchInv
  <2>5. mem_ptrs[queue[1].wdst - 1] = NULL \/ queue[1].wdst > Slots
    BY <2>2, <2>4 DEF NULL
  <2>6. queue[1].wdst - 1 \in 0..(mem_idx - 1) /\ mem_idx \in Nat /\ Slots \in Nat
    BY <2>4, BasicFacts DEF IInv, TypeOK
  <2>7. CASE mem_ptrs[queue[1].wdst - 1] = NULL
    BY <2>1, <2>6, <2>7, BadSetUpIsLost DEF Good, ServerDies
  <2>8. CASE queue[1].wdst > Slots
    BY <2>1, <2>4, <2>6, <2>8 DEF Lost, ServerDies
  <2>9. QED
    BY <2>5, <2>7, <2>8
<1>17. QED
  BY <1>1, <1>2, <1>3, <1>4, <1>5, <1>6, <1>7, <1>8, <1>10, <1>11, <1>12, <1>13, <1>14,
     <1>15, <1>16 DEF Next

\* Nothing happens once the server process is gone.
LEMMA DeadStays == ASSUME IInv, ~up, Next PROVE FALSE
BY DEF Next, Ready, SetUp, CreateObject, BuildProgram, CreateBuffer, ReleaseMem, SetArgBuffer,
       SetArgScalar, SetArgLocal, NDRangeKernel, WriteBuffer, CopyBuffer, JunkObject,
       Enqueue, ReadBuffer, MapBuffer, ReadReturns, MapReturns, Finish, FinishReturns,
       ExecuteCommand

(* Of all sequences of calls, only one that meets an object that could not *)
(* be created, or has no slot, takes the server process down.              *)
THEOREM ServerFalls == Spec => []ServerFallsOverLostObject
<1> DEFINE Falls == ~up => Lost
<1>1. Init => Falls
  BY DEF Init
<1>2. IInv /\ Falls /\ [Next]_vars => Falls'
  <2>1. ASSUME IInv, Falls, Next, ~up' PROVE Lost'
    <3>1. Lost /\ UNCHANGED client
      BY <2>1, DiesOfLost, DeadStays
    <3>2. QED
      BY <3>1 DEF Lost, client
  <2>2. ASSUME Falls, UNCHANGED vars PROVE Falls'
    BY <2>2 DEF Lost, vars, client, driver
  <2>3. QED
    BY <2>1, <2>2
<1>3. Falls => ServerFallsOverLostObject
  BY DEF Lost, ServerFallsOverLostObject
<1>4. QED
  BY <1>1, <1>2, <1>3, InitIInv, Invariance, PTL DEF Spec

-----------------------------------------------------------------------------
(* The refinement of LocalCl, for the applications it holds for.           *)
Ordinary == Large = Buffers /\ Blocking /\ ~MayFail /\ 0 \notin Scalars /\ MaxObjs <= Slots

\* Every slot holds its object, and what is queued, set or waited for is there.
PInv ==
  /\ up /\ \A s \in 0..(mem_idx - 1) : mem_ptrs[s] = s + 1
  /\ wanted["buffer"] # Unset => \E b \in Buffers : handle[b] = wanted["buffer"]
  /\ wanted["local"] # Unset => args["local"] # Unset
  /\ \A i \in 1..Len(queue) : queue[i].dst \in 1..mem_idx /\ queue[i].src \in 0..mem_idx
  /\ wait.op \in {"read", "map"} => \E b \in Buffers : Usable(b) /\ Obj(b) = wait.obj

LInv == IInv /\ PInv

\* Induction, for a set of numbers.
LEMMA Least ==
  ASSUME NEW S \in SUBSET Nat, S # {}
  PROVE  \E x \in S : \A y \in S : ~(y < x)
<1>1. IsWellFoundedOn(OpToRel(<, Nat), Nat)
  BY NatLessThanWellFounded
<1>2. PICK x \in S : \A y \in S : ~(<<y, x>> \in OpToRel(<, Nat))
  BY <1>1, WFMin
<1>3. QED
  BY <1>2 DEF OpToRel

LEMMA Induct ==
  ASSUME NEW S \in SUBSET Nat, 0 \in S, \A n \in S : n + 1 \in S
  PROVE  S = Nat
<1>1. SUFFICES ASSUME Nat \ S # {} PROVE FALSE
  OBVIOUS
<1>2. PICK x \in Nat \ S : \A y \in Nat \ S : ~(y < x)
  BY <1>1, Least
<1>3. x - 1 \in Nat \ S /\ x - 1 < x
  BY <1>2
<1>4. QED
  BY <1>2, <1>3

\* What Carried defines exists, and is the only function of its kind.
CarriedBy(f, m, q, k) ==
  f = [n \in 0..k |-> IF n = 0 THEN m ELSE Effect(f[n - 1], q[n])]

LEMMA CarriedExists ==
  ASSUME NEW m, NEW q, NEW k \in Nat
  PROVE  \E f : CarriedBy(f, m, q, k)
<1> DEFINE S == {i \in Nat : \E f : CarriedBy(f, m, q, i)}
<1>1. 0 \in S
  <2> DEFINE f == [n \in 0..0 |-> m]
  <2>1. f = [n \in 0..0 |-> IF n = 0 THEN m ELSE Effect(f[n - 1], q[n])]
    OBVIOUS
  <2>2. QED
    BY <2>1 DEF CarriedBy
<1>2. ASSUME NEW i \in S PROVE i + 1 \in S
  <2>1. PICK f : f = [n \in 0..i |-> IF n = 0 THEN m ELSE Effect(f[n - 1], q[n])]
    BY <1>2 DEF CarriedBy
  <2> DEFINE g == [n \in 0..(i + 1) |-> IF n = i + 1 THEN Effect(f[i], q[n]) ELSE f[n]]
  <2>2. g = [n \in 0..(i + 1) |-> IF n = 0 THEN m ELSE Effect(g[n - 1], q[n])]
    <3>1. ASSUME NEW n \in 0..(i + 1)
          PROVE  g[n] = IF n = 0 THEN m ELSE Effect(g[n - 1], q[n])
      <4>1. CASE n = i + 1
        BY <4>1
      <4>2. CASE n # i + 1
        <5>1. n \in 0..i /\ (n # 0 => n - 1 \in 0..i /\ n - 1 # i + 1)
          BY <4>2
        <5>2. f[n] = IF n = 0 THEN m ELSE Effect(f[n - 1], q[n])
          BY <2>1, <5>1
        <5>3. QED
          BY <4>2, <5>1, <5>2
      <4>3. QED
        BY <4>1, <4>2
    <3> HIDE DEF g
    <3>2. DOMAIN g = 0..(i + 1) /\ g = [n \in 0..(i + 1) |-> g[n]]
      BY DEF g
    <3>3. QED
      BY <3>1, <3>2
  <2> HIDE DEF g
  <2>3. \E h : CarriedBy(h, m, q, i + 1)
    BY <2>2 DEF CarriedBy
  <2>4. QED
    BY <2>3
<1> HIDE DEF S
<1>3. S = Nat
  <2>1. S \in SUBSET Nat
    BY DEF S
  <2>2. QED
    BY <1>1, <1>2, <2>1, Induct
<1>4. QED
  BY <1>3 DEF S

LEMMA CarriedIs ==
  ASSUME NEW m, NEW q, Len(q) \in Nat
  PROVE  CarriedBy(Carried(m, q), m, q, Len(q))
<1>1. PICK k \in Nat : k = Len(q)
  OBVIOUS
<1>2. PICK f : CarriedBy(f, m, q, k)
  BY CarriedExists
<1>3. QED
  BY <1>1, <1>2 DEF Carried, CarriedBy

LEMMA CarriedSteps ==
  ASSUME NEW m, NEW q, Len(q) \in Nat
  PROVE  /\ Carried(m, q)[0] = m
         /\ \A n \in 1..Len(q) : Carried(m, q)[n] = Effect(Carried(m, q)[n - 1], q[n])
<1> DEFINE f == Carried(m, q)
<1>1. f = [n \in 0..Len(q) |-> IF n = 0 THEN m ELSE Effect(f[n - 1], q[n])]
  BY CarriedIs DEF CarriedBy
<1> HIDE DEF f
<1>2. f[0] = m
  BY <1>1
<1>3. ASSUME NEW n \in 1..Len(q) PROVE f[n] = Effect(f[n - 1], q[n])
  <2>1. n \in 0..Len(q) /\ n # 0
    OBVIOUS
  <2>2. QED
    BY <1>1, <2>1
<1>4. QED
  BY <1>2, <1>3 DEF f

Memories == [Objects -> Contents \union {JUNK}]

LEMMA CarriedType ==
  ASSUME NEW m \in Memories, NEW q \in Seq(Commands)
  PROVE  \A n \in 0..Len(q) : Carried(m, q)[n] \in Memories
<1> DEFINE S == {n \in Nat : n <= Len(q) => Carried(m, q)[n] \in Memories}
<1>1. Len(q) \in Nat /\ \A n \in 1..Len(q) : q[n] \in Commands
  OBVIOUS
<1>2. 0 \in S
  BY <1>1, CarriedSteps
<1>3. ASSUME NEW n \in S PROVE n + 1 \in S
  <2>1. CASE n + 1 <= Len(q)
    <3>1. n + 1 \in 1..Len(q) /\ (n + 1) - 1 = n /\ n <= Len(q)
      BY <1>1, <2>1
    <3>2. Carried(m, q)[n + 1] = Effect(Carried(m, q)[n], q[n + 1])
      BY <1>1, <3>1, CarriedSteps
    <3>3. Carried(m, q)[n] \in Memories /\ q[n + 1] \in Commands
      BY <1>1, <1>3, <3>1
    <3>4. Effect(Carried(m, q)[n], q[n + 1]) \in Memories
      BY <3>3, EffectType DEF Memories
    <3>5. QED
      BY <3>2, <3>4
  <2>2. QED
    BY <2>1
<1>4. S = Nat
  <2>1. S \in SUBSET Nat
    OBVIOUS
  <2> HIDE DEF S
  <2>2. QED
    BY <1>2, <1>3, <2>1, Induct
<1>5. QED
  BY <1>1, <1>4

\* A command behind the others has its effect on what they leave.
LEMMA CarriedAppend ==
  ASSUME NEW m, NEW q \in Seq(Commands), NEW c \in Commands
  PROVE  Carried(m, Append(q, c))[Len(Append(q, c))] = Effect(Carried(m, q)[Len(q)], c)
<1> DEFINE p == Append(q, c)
           S == {n \in Nat : n <= Len(q) => Carried(m, p)[n] = Carried(m, q)[n]}
<1>1. /\ Len(q) \in Nat /\ Len(p) = Len(q) + 1 /\ p[Len(q) + 1] = c
      /\ \A n \in 1..Len(q) : p[n] = q[n]
  BY AppendProperties
<1> HIDE DEF p
<1>2. 0 \in S
  BY <1>1, CarriedSteps
<1>3. ASSUME NEW n \in S PROVE n + 1 \in S
  <2>1. CASE n + 1 <= Len(q)
    <3>1. /\ n + 1 \in 1..Len(q) /\ n + 1 \in 1..Len(p) /\ (n + 1) - 1 = n /\ n <= Len(q)
      BY <1>1, <2>1
    <3>2. Carried(m, q)[n + 1] = Effect(Carried(m, q)[n], q[n + 1])
      BY <1>1, <3>1, CarriedSteps
    <3>3. Carried(m, p)[n + 1] = Effect(Carried(m, p)[n], p[n + 1])
      <4>1. Len(p) \in Nat
        BY <1>1
      <4>2. QED
        BY <3>1, <4>1, CarriedSteps
    <3>4. Carried(m, p)[n + 1] = Carried(m, q)[n + 1]
      BY <1>1, <1>3, <3>1, <3>2, <3>3
    <3>5. QED
      BY <3>4
  <2>2. QED
    BY <2>1
<1>4. S = Nat
  <2>1. S \in SUBSET Nat
    OBVIOUS
  <2> HIDE DEF S
  <2>2. QED
    BY <1>2, <1>3, <2>1, Induct
<1>5. Carried(m, p)[Len(q)] = Carried(m, q)[Len(q)]
  BY <1>1, <1>4
<1>6. Carried(m, p)[Len(p)] = Effect(Carried(m, p)[Len(q)], c)
  <2>1. Len(p) \in Nat /\ Len(p) \in 1..Len(p) /\ Len(p) - 1 = Len(q) /\ p[Len(p)] = c
    BY <1>1
  <2>2. Carried(m, p)[Len(p)] = Effect(Carried(m, p)[Len(p) - 1], p[Len(p)])
    BY <2>1, CarriedSteps
  <2>3. QED
    BY <2>1, <2>2
<1>7. QED
  BY <1>5, <1>6 DEF p

\* The oldest command may have its effect first.
LEMMA CarriedTail ==
  ASSUME NEW m, NEW q \in Seq(Commands), q # <<>>
  PROVE  Carried(Effect(m, Head(q)), Tail(q))[Len(Tail(q))] = Carried(m, q)[Len(q)]
<1> DEFINE p == Tail(q)
           e == Effect(m, Head(q))
           S == {n \in Nat : n <= Len(p) => Carried(e, p)[n] = Carried(m, q)[n + 1]}
<1>1. /\ Len(q) \in Nat /\ Len(q) >= 1 /\ Len(p) = Len(q) - 1 /\ Head(q) = q[1]
      /\ \A n \in 1..Len(p) : p[n] = q[n + 1]
  BY HeadTailProperties, LenProperties
<1>2. e = Effect(m, q[1])
  BY <1>1
<1>3. Carried(m, q)[1] = e
  <2>1. 1 \in 1..Len(q) /\ 1 - 1 = 0
    BY <1>1
  <2>2. QED
    BY <1>1, <1>2, <2>1, CarriedSteps
<1> HIDE DEF p, e
<1>4. Len(p) \in Nat
  BY <1>1
<1>5. 0 \in S
  BY <1>3, <1>4, CarriedSteps
<1>6. ASSUME NEW n \in S PROVE n + 1 \in S
  <2>1. CASE n + 1 <= Len(p)
    <3>1. /\ n + 1 \in 1..Len(p) /\ (n + 1) - 1 = n /\ n <= Len(p)
          /\ (n + 1) + 1 \in 1..Len(q) /\ ((n + 1) + 1) - 1 = n + 1
      BY <1>1, <1>4, <2>1
    <3>2. Carried(e, p)[n + 1] = Effect(Carried(e, p)[n], p[n + 1])
      BY <1>4, <3>1, CarriedSteps
    <3>3. Carried(m, q)[(n + 1) + 1] = Effect(Carried(m, q)[n + 1], q[(n + 1) + 1])
      BY <1>1, <3>1, CarriedSteps
    <3>4. Carried(e, p)[n + 1] = Carried(m, q)[(n + 1) + 1]
      BY <1>1, <1>6, <3>1, <3>2, <3>3
    <3>5. QED
      BY <3>4
  <2>2. QED
    BY <2>1
<1>7. S = Nat
  <2>1. S \in SUBSET Nat
    OBVIOUS
  <2> HIDE DEF S
  <2>2. QED
    BY <1>5, <1>6, <2>1, Induct
<1>8. Carried(e, p)[Len(p)] = Carried(m, q)[Len(p) + 1] /\ Len(p) + 1 = Len(q)
  BY <1>1, <1>4, <1>7
<1>9. QED
  BY <1>8 DEF e, p

Put(m, o, v) == [m EXCEPT ![o] = v]

\* An object no command is about keeps its contents, and disturbs no other.
LEMMA EffectFresh ==
  ASSUME NEW m \in Memories, NEW c \in Commands, NEW o \in Objects, NEW v,
         c.dst \in Objects, c.dst # o, c.src # o
  PROVE  Effect(Put(m, o, v), c) = Put(Effect(m, c), o, v)
<1> USE DEF Put
<1> DEFINE m2 == [m EXCEPT ![o] = v]
<1>1. m2[c.dst] = m[c.dst] /\ DOMAIN m2 = Objects /\ DOMAIN m = Objects
  BY DEF Memories
<1>2. CASE c.op = "write"
  BY <1>1, <1>2 DEF Effect, Memories
<1>3. CASE c.op = "copy"
  <2>1. c.src \in Objects
    BY <1>3 DEF Commands
  <2>2. m2[c.src] = m[c.src]
    BY <1>1, <2>1
  <2>3. QED
    BY <1>1, <1>3, <2>2 DEF Effect, Memories
<1>4. CASE c.op = "launch"
  BY <1>1, <1>4 DEF Effect, Memories
<1>5. QED
  BY <1>2, <1>3, <1>4 DEF Commands

LEMMA CarriedFresh ==
  ASSUME NEW m \in Memories, NEW q \in Seq(Commands), NEW o \in Objects, NEW v,
         \A i \in 1..Len(q) : q[i].dst \in Objects /\ q[i].dst # o /\ q[i].src # o
  PROVE  Carried(Put(m, o, v), q)[Len(q)] = Put(Carried(m, q)[Len(q)], o, v)
<1> DEFINE m2 == [m EXCEPT ![o] = v]
           S == {n \in Nat : n <= Len(q) =>
                   Carried(m2, q)[n] = [Carried(m, q)[n] EXCEPT ![o] = v]}
<1>1. Len(q) \in Nat /\ \A n \in 1..Len(q) : q[n] \in Commands
  OBVIOUS
<1>2. 0 \in S
  <2> HIDE DEF m2
  <2>1. Carried(m2, q)[0] = m2 /\ Carried(m, q)[0] = m
    BY <1>1, CarriedSteps
  <2>2. QED
    BY <2>1 DEF m2
<1>3. ASSUME NEW n \in S PROVE n + 1 \in S
  <2>1. CASE n + 1 <= Len(q)
    <3>1. n + 1 \in 1..Len(q) /\ (n + 1) - 1 = n /\ n \in 0..Len(q)
      BY <1>1, <2>1
    <3> HIDE DEF m2
    <3>2. Carried(m, q)[n + 1] = Effect(Carried(m, q)[n], q[n + 1])
      BY <1>1, <3>1, CarriedSteps
    <3>3. Carried(m2, q)[n + 1] = Effect(Carried(m2, q)[n], q[n + 1])
      BY <1>1, <3>1, CarriedSteps
    <3>4. Carried(m2, q)[n] = [Carried(m, q)[n] EXCEPT ![o] = v]
      BY <1>3, <3>1
    <3>5. Carried(m, q)[n] \in Memories
      BY <3>1, CarriedType
    <3>6. Effect([Carried(m, q)[n] EXCEPT ![o] = v], q[n + 1])
            = [Effect(Carried(m, q)[n], q[n + 1]) EXCEPT ![o] = v]
      <4>1. PICK c \in Commands : c = q[n + 1] /\ c.dst \in Objects /\ c.dst # o /\ c.src # o
        BY <1>1, <3>1
      <4>2. PICK w \in Memories : w = Carried(m, q)[n]
        BY <3>5
      <4>3. Effect(Put(w, o, v), c) = Put(Effect(w, c), o, v)
        BY <4>1, EffectFresh
      <4>4. QED
        BY <4>1, <4>2, <4>3 DEF Put
    <3>7. Carried(m2, q)[n + 1] = [Carried(m, q)[n + 1] EXCEPT ![o] = v]
      BY <3>2, <3>3, <3>4, <3>6
    <3>8. QED
      BY <3>7
  <2>2. QED
    BY <2>1
<1>4. S = Nat
  <2>1. S \in SUBSET Nat
    OBVIOUS
  <2> HIDE DEF S
  <2>2. QED
    BY <1>2, <1>3, <2>1, Induct
<1>5. Len(q) \in S
  BY <1>1, <1>4
<1> HIDE DEF m2
<1>6. Carried(m2, q)[Len(q)] = [Carried(m, q)[Len(q)] EXCEPT ![o] = v]
  BY <1>5
<1>7. QED
  BY <1>6 DEF m2, Put

-----------------------------------------------------------------------------
LEMMA OwnerIs ==
  ASSUME NEW h, NEW b \in Buffers, NEW s, h[b] = s, \A a \in Buffers : a # b => h[a] # s
  PROVE  (CHOOSE a \in Buffers : h[a] = s) = b
OBVIOUS

LEMMA SettledType == ASSUME IInv PROVE Settled \in Memories
<1>1. content \in Memories /\ queue \in Seq(Commands)
  BY DEF IInv, TypeOK, Memories
<1>2. Len(queue) \in 0..Len(queue)
  BY <1>1
<1>3. QED
  BY <1>1, <1>2, CarriedType DEF Settled

\* Where nothing is lost, a handle's object is its own and there.
LEMMA HandleObject ==
  ASSUME LInv, NEW b \in Buffers, handle[b] # Unset
  PROVE  /\ handle[b] \in Nat /\ handle[b] < mem_idx /\ Obj(b) = handle[b] + 1
         /\ Obj(b) \in Objects /\ Good(Obj(b)) /\ Obj(b) # JUNK /\ Obj(b) \in 1..mem_idx
         /\ \A a \in Buffers : a # b => handle[a] # handle[b]
         /\ \A a \in Buffers : a # b /\ handle[a] # Unset => Obj(a) # Obj(b)
         /\ Memory[b] = Settled[Obj(b)] /\ Memory[b] \in Contents \union {JUNK}
         /\ Memory[b] # Unset
<1>1. \A a \in Buffers : handle[a] # Unset =>
        /\ handle[a] \in 0..(MaxObjs - 1) /\ handle[a] < mem_idx /\ mem_idx \in 0..MaxObjs
        /\ \A d \in Buffers : d # a => handle[d] # handle[a]
  BY BasicFacts DEF LInv, IInv, TypeOK, HandleNamesItsBuffer, Indices
<1>2. \A a \in Buffers : handle[a] # Unset => handle[a] \in Nat /\ Obj(a) = handle[a] + 1
  BY <1>1, BasicFacts DEF LInv, PInv, Obj
<1>3. Obj(b) \in Objects /\ Good(Obj(b)) /\ Obj(b) # JUNK /\ Obj(b) \in 1..mem_idx
  BY <1>1, <1>2, BasicFacts DEF Objects, Good, NULL
<1>4. \A a \in Buffers : a # b /\ handle[a] # Unset => Obj(a) # Obj(b)
  BY <1>1, <1>2
<1>5. Memory[b] = Settled[Obj(b)]
  BY DEF Memory
<1>6. Memory[b] \in Contents \union {JUNK}
  BY <1>3, <1>5, SettledType DEF LInv, Memories
<1>7. Memory[b] # Unset
  BY <1>6, ApiAssumption, BasicFacts
<1>8. QED
  BY <1>1, <1>2, <1>3, <1>4, <1>5, <1>6, <1>7

LEMMA SettledKeeps ==
  ASSUME UNCHANGED <<content, queue>> PROVE Settled' = Settled
BY DEF Settled

LEMMA SettledAppend ==
  ASSUME IInv, NEW c \in Commands, content' = content, queue' = Append(queue, c)
  PROVE  Settled' = Effect(Settled, c)
<1>1. PICK q \in Seq(Commands) : q = queue
  BY DEF IInv, TypeOK
<1>2. PICK m : m = content
  OBVIOUS
<1>3. Carried(m, Append(q, c))[Len(Append(q, c))] = Effect(Carried(m, q)[Len(q)], c)
  BY CarriedAppend
<1>4. QED
  BY <1>1, <1>2, <1>3 DEF Settled

LEMMA SettledTail ==
  ASSUME IInv, queue # <<>>, content' = Effect(content, Head(queue)), queue' = Tail(queue)
  PROVE  Settled' = Settled
<1>1. PICK q \in Seq(Commands) : q = queue
  BY DEF IInv, TypeOK
<1>2. PICK m : m = content
  OBVIOUS
<1>3. Carried(Effect(m, Head(q)), Tail(q))[Len(Tail(q))] = Carried(m, q)[Len(q)]
  BY <1>1, CarriedTail
<1>4. QED
  BY <1>1, <1>2, <1>3 DEF Settled

LEMMA SettledEmpty ==
  ASSUME queue = <<>> PROVE Settled = content
<1>1. Len(queue) = 0
  OBVIOUS
<1>2. QED
  BY <1>1, CarriedSteps DEF Settled

LEMMA SettledFresh ==
  ASSUME IInv, NEW o \in Objects, NEW v,
         \A i \in 1..Len(queue) : queue[i].dst \in Objects /\ queue[i].dst # o /\ queue[i].src # o,
         content' = Put(content, o, v), queue' = queue
  PROVE  Settled' = Put(Settled, o, v)
<1>1. PICK q \in Seq(Commands) : q = queue
  BY DEF IInv, TypeOK
<1>2. PICK m \in Memories : m = content
  BY DEF IInv, TypeOK, Memories
<1>3. \A i \in 1..Len(q) : q[i].dst \in Objects /\ q[i].dst # o /\ q[i].src # o
  BY <1>1
<1>4. Carried(Put(m, o, v), q)[Len(q)] = Put(Carried(m, q)[Len(q)], o, v)
  BY <1>3, CarriedFresh
<1>5. QED
  BY <1>1, <1>2, <1>4 DEF Settled

LEMMA TargetIs ==
  ASSUME LInv, wanted["buffer"] # Unset
  PROVE  Target \in Buffers /\ handle[Target] = wanted["buffer"]
BY DEF LInv, PInv, Target

\* The target stays where the handle it was set by stays.
LEMMA TargetKeeps ==
  ASSUME LInv, wanted'["buffer"] = wanted["buffer"],
         \A b \in Buffers : handle'[b] = wanted["buffer"] <=> handle[b] = wanted["buffer"]
  PROVE  Target' = Target
<1>1. CASE wanted["buffer"] = Unset
  BY <1>1 DEF Target
<1>2. CASE wanted["buffer"] # Unset
  <2>1. PICK t : t = Target
    OBVIOUS
  <2>2. t \in Buffers /\ handle[t] = wanted["buffer"]
    BY <1>2, <2>1, TargetIs
  <2>3. \A a \in Buffers : a # t => handle[a] # wanted["buffer"]
    BY <1>2, <2>2, HandleObject
  <2>4. PICK h : h = handle'
    OBVIOUS
  <2>5. h[t] = wanted["buffer"] /\ \A a \in Buffers : a # t => h[a] # wanted["buffer"]
    BY <2>2, <2>3, <2>4
  <2>6. PICK s : s = wanted["buffer"]
    OBVIOUS
  <2>7. (CHOOSE a \in Buffers : h[a] = s) = t
    BY <2>2, <2>5, <2>6, OwnerIs
  <2>8. Target' = t
    BY <1>2, <2>4, <2>6, <2>7 DEF Target
  <2>9. QED
    BY <2>1, <2>8
<1>3. QED
  BY <1>1, <1>2

-----------------------------------------------------------------------------
\* A step of LocalCl, or one the application does not see.
Seen == Local!LNext \/ UNCHANGED <<Memory, Target, wanted["scalar"], got>>

LEMMA NothingLost == ASSUME Ordinary, LInv PROVE ~Lost
BY BasicFacts DEF Ordinary, LInv, PInv, Lost, Good, IInv, TypeOK, NULL

LEMMA StaysUp == ASSUME Ordinary, LInv, [Next]_vars PROVE up' /\ ~ServerDies
<1>1. up
  BY DEF LInv, PInv
<1>2. ASSUME Next, ~up' PROVE FALSE
  BY <1>1, <1>2, DiesOfLost, NothingLost DEF LInv
<1>3. up'
  BY <1>1, <1>2 DEF vars, driver
<1>4. QED
  BY <1>3 DEF ServerDies

\* A creation succeeds and fills its slot.
LEMMA FillIs ==
  ASSUME Ordinary, LInv, mem_idx < MaxObjs, mem_idx = KERNEL => built,
         NEW v \in Created(mem_idx), Fill(v)
  PROVE  /\ v = mem_idx + 1 /\ v \in Objects /\ mem_idx \in Nat /\ mem_idx' = mem_idx + 1
         /\ \A s \in 0..(mem_idx - 1) : mem_ptrs'[s] = mem_ptrs[s]
         /\ \A s \in 0..mem_idx : mem_ptrs'[s] = s + 1
<1>1. mem_idx \in Nat /\ mem_idx \in Indices /\ mem_idx < Slots
  BY BasicFacts DEF Ordinary, LInv, IInv, TypeOK, Indices
<1>2. \A s \in 0..(mem_idx - 1) : mem_ptrs[s] = s + 1 /\ Good(mem_ptrs[s])
  BY <1>1, BasicFacts DEF LInv, PInv, Good, NULL
<1>3. Parents(mem_idx) \subseteq 0..(mem_idx - 1)
  <2>1. \/ mem_idx \in 0..5
        \/ mem_idx > 5
    BY <1>1
  <2>2. QED
    BY <1>1, <2>1 DEF Parents, PLATFORM, DEVICE, CONTEXT, QUEUE, PROGRAM, KERNEL
<1>4. ParentsGood(mem_idx)
  BY <1>2, <1>3 DEF ParentsGood
<1>5. v = mem_idx + 1
  BY <1>4 DEF Created, Ordinary
<1>6. v \in Objects
  BY <1>1, <1>5, BasicFacts DEF Objects
<1>7. /\ mem_idx' = mem_idx + 1 /\ mem_ptrs'[mem_idx] = v
      /\ \A s \in Indices : s # mem_idx => mem_ptrs'[s] = mem_ptrs[s]
  <2>1. TypeOK /\ v \in {NULL, JUNK} \union Objects
    BY <1>6 DEF LInv, IInv
  <2>2. v # JUNK /\ ~(mem_idx >= Slots)
    BY <1>1, <1>5, BasicFacts
  <2>3. QED
    BY <2>1, <2>2, FillEffect
<1>8. \A s \in 0..(mem_idx - 1) : s \in Indices /\ s # mem_idx
  BY <1>1, BasicFacts DEF Indices
<1>9. QED
  BY <1>1, <1>2, <1>5, <1>6, <1>7, <1>8

\* Steps that change neither the table nor what is queued, set or awaited.
LEMMA QuietPInv ==
  ASSUME LInv, up', UNCHANGED <<client, args, queue, wait, wanted>> PROVE PInv'
BY DEF LInv, PInv, Usable, Obj, client

LEMMA CreateSeen ==
  ASSUME Ordinary, LInv, [Next]_vars, CreateObject PROVE PInv' /\ Seen
<1>1. up' /\ ~ServerDies
  BY StaysUp
<1>2. PICK v \in Created(mem_idx) : Fill(v) /\ UNCHANGED <<handle, driver, app>>
  BY <1>1 DEF CreateObject
<1>3. /\ mem_idx \in Nat /\ mem_idx' = mem_idx + 1
      /\ \A s \in 0..(mem_idx - 1) : mem_ptrs'[s] = mem_ptrs[s]
      /\ \A s \in 0..mem_idx : mem_ptrs'[s] = s + 1
  <2>1. mem_idx < MaxObjs /\ (mem_idx = KERNEL => built)
    BY BasicFacts DEF CreateObject, KERNEL, LInv, IInv, TypeOK, Ordinary
  <2>2. QED
    BY <1>2, <2>1, FillIs
<1>4. \A b \in Buffers : handle[b] # Unset => handle[b] \in 0..(mem_idx - 1)
  BY <1>3, HandleObject
<1>5. \A b \in Buffers : handle[b] # Unset => Obj(b)' = Obj(b)
  BY <1>2, <1>3, <1>4 DEF Obj
<1>6. PInv'
  <2>1. /\ \A i \in 1..Len(queue) : queue[i].dst \in 1..mem_idx' /\ queue[i].src \in 0..mem_idx'
        /\ \A s \in 0..(mem_idx' - 1) : mem_ptrs'[s] = s + 1
    <3>1. 1..mem_idx \subseteq 1..mem_idx' /\ 0..mem_idx \subseteq 0..mem_idx'
      BY <1>3
    <3>2. mem_idx' - 1 = mem_idx
      BY <1>3
    <3>3. \A i \in 1..Len(queue) : queue[i].dst \in 1..mem_idx /\ queue[i].src \in 0..mem_idx
      BY DEF LInv, PInv
    <3>4. QED
      BY <1>3, <3>1, <3>2, <3>3
  <2>2. wait.op \in {"read", "map"} => \E b \in Buffers : Usable(b)' /\ Obj(b)' = wait.obj
    BY <1>2, <1>5 DEF LInv, PInv, Usable
  <2>3. QED
    BY <1>1, <1>2, <2>1, <2>2 DEF LInv, PInv, driver, app
<1>7. Memory' = Memory
  <2>1. Settled' = Settled
    BY <1>2, SettledKeeps DEF driver
  <2>2. QED
    BY <1>2, <1>5, <2>1 DEF Memory
<1>8. Target' = Target
  BY <1>2, TargetKeeps DEF app
<1>9. QED
  BY <1>2, <1>6, <1>7, <1>8 DEF Seen, app

LEMMA CreateBufferSeen ==
  ASSUME Ordinary, LInv, up', NEW b \in Buffers, NEW v \in Contents \union {JUNK},
         CreateBuffer(b, v)
  PROVE  PInv' /\ Local!LCreate(b, v)
<1>1. PICK w \in Created(mem_idx) :
        /\ Fill(w)
        /\ live' = IF w = NULL THEN live ELSE live \union {w}
        /\ content' = IF w = NULL THEN content
                      ELSE [content EXCEPT ![w] = InitialContent(b, v)]
  BY DEF CreateBuffer
<1>2. /\ SetUp /\ mem_idx < MaxObjs /\ handle[b] = Unset
      /\ handle' = [handle EXCEPT ![b] = mem_idx]
      /\ UNCHANGED <<built, args, queue, up, app>>
  BY DEF CreateBuffer
<1>3. /\ w = mem_idx + 1 /\ w \in Objects /\ mem_idx \in Nat /\ mem_idx' = mem_idx + 1
      /\ \A s \in 0..(mem_idx - 1) : mem_ptrs'[s] = mem_ptrs[s]
      /\ \A s \in 0..mem_idx : mem_ptrs'[s] = s + 1
  <2>1. mem_idx # KERNEL
    BY <1>2 DEF SetUp, KERNEL, LInv, IInv, TypeOK
  <2>2. QED
    BY <1>1, <1>2, <2>1, FillIs
<1>4. content' = Put(content, w, v)
  BY <1>1, <1>3, BasicFacts DEF Put, InitialContent, Ordinary
<1>5. Settled' = Put(Settled, w, v)
  <2>1. \A i \in 1..Len(queue) : queue[i].dst \in 1..mem_idx /\ queue[i].src \in 0..mem_idx
    BY DEF LInv, PInv
  <2>2. \A n \in 1..mem_idx : n \in Objects
    BY <1>2, <1>3, BasicFacts DEF Objects
  <2>3. \A n \in 0..mem_idx : n # w
    BY <1>3
  <2>4. \A i \in 1..Len(queue) :
          queue[i].dst \in Objects /\ queue[i].dst # w /\ queue[i].src # w
    BY <1>3, <2>1, <2>2, <2>3
  <2>5. QED
    BY <1>2, <1>3, <1>4, <2>4, SettledFresh DEF LInv
<1>6. \A a \in Buffers : handle'[a] = IF a = b THEN mem_idx ELSE handle[a]
  BY <1>2 DEF LInv, IInv, TypeOK
<1>7. \A a \in Buffers : handle[a] # Unset =>
        a # b /\ handle[a] \in 0..(mem_idx - 1) /\ Obj(a) \in 1..mem_idx
  BY <1>2, <1>3, HandleObject
<1>8. \A a \in Buffers : handle[a] # Unset => Obj(a)' = Obj(a)
  BY <1>3, <1>6, <1>7 DEF Obj
<1>9. PInv'
  <2>1. /\ \A i \in 1..Len(queue) : queue[i].dst \in 1..mem_idx' /\ queue[i].src \in 0..mem_idx'
        /\ \A s \in 0..(mem_idx' - 1) : mem_ptrs'[s] = s + 1
    <3>1. 1..mem_idx \subseteq 1..mem_idx' /\ 0..mem_idx \subseteq 0..mem_idx'
      BY <1>3
    <3>2. mem_idx' - 1 = mem_idx
      BY <1>3
    <3>3. \A i \in 1..Len(queue) : queue[i].dst \in 1..mem_idx /\ queue[i].src \in 0..mem_idx
      BY DEF LInv, PInv
    <3>4. QED
      BY <1>3, <3>1, <3>2, <3>3
  <2>2. wait'.op \notin {"read", "map"}
    BY <1>2 DEF SetUp, Ready, Idle, app
  <2>3. wanted["buffer"] # Unset => \E a \in Buffers : handle'[a] = wanted["buffer"]
    <3>1. ASSUME wanted["buffer"] # Unset
          PROVE  \E a \in Buffers : handle'[a] = wanted["buffer"]
      <4>1. PICK a \in Buffers : handle[a] = wanted["buffer"]
        BY <3>1 DEF LInv, PInv
      <4>2. a # b /\ handle'[a] = wanted["buffer"]
        BY <1>2, <1>6, <3>1, <4>1
      <4>3. QED
        BY <4>2
    <3>2. QED
      BY <3>1
  <2>4. QED
    BY <1>2, <2>1, <2>2, <2>3 DEF LInv, PInv, app
<1>10. Target' = Target
  <2>2. wanted["buffer"] # mem_idx
    BY <1>3, BasicFacts DEF LInv, IInv, WantedInv
  <2>3. CASE wanted["buffer"] = Unset
    BY <1>2, <2>3 DEF Target, app
  <2>4. CASE wanted["buffer"] # Unset
    <3>1. \A a \in Buffers : handle'[a] = wanted["buffer"] <=> handle[a] = wanted["buffer"]
      BY <1>2, <1>6, <2>2, <2>4
    <3>2. QED
      BY <1>2, <3>1, TargetKeeps DEF app
  <2>5. QED
    BY <2>3, <2>4
<1>11. Memory[b] = Unset /\ Memory' = [Memory EXCEPT ![b] = v]
  <2>1. Memory[b] = Unset
    BY <1>2 DEF Memory
  <2>2. Settled'[w] = v /\ \A o \in Objects : o # w => Settled'[o] = Settled[o]
    BY <1>3, <1>5, SettledType DEF Put, Memories, LInv
  <2>3. ASSUME NEW a \in Buffers
        PROVE  (IF handle'[a] = Unset THEN Unset ELSE Settled'[Obj(a)'])
                 = IF a = b THEN v ELSE Memory[a]
    <3>1. CASE a = b
      <4>1. handle'[a] = mem_idx /\ mem_idx # Unset
        BY <1>3, <1>6, <3>1, BasicFacts
      <4>2. Obj(a)' = w
        BY <1>3, <4>1 DEF Obj
      <4>3. QED
        BY <2>2, <3>1, <4>1, <4>2
    <3>2. CASE a # b /\ handle[a] = Unset
      BY <1>6, <3>2 DEF Memory
    <3>3. CASE a # b /\ handle[a] # Unset
      <4>1. handle'[a] # Unset /\ Obj(a)' = Obj(a) /\ Obj(a) # w
        BY <1>3, <1>6, <1>7, <1>8, <3>3
      <4>2. Obj(a) \in Objects /\ Memory[a] = Settled[Obj(a)]
        BY <3>3, HandleObject
      <4>3. QED
        BY <2>2, <3>3, <4>1, <4>2
    <3>4. QED
      BY <3>1, <3>2, <3>3
  <2>4. Memory' = [a \in Buffers |-> IF a = b THEN v ELSE Memory[a]]
    BY <2>3 DEF Memory
  <2>5. DOMAIN Memory = Buffers
    BY DEF Memory
  <2>6. Memory = [a \in Buffers |-> Memory[a]]
    BY DEF Memory
  <2> HIDE DEF Memory
  <2>7. [Memory EXCEPT ![b] = v] = [a \in Buffers |-> IF a = b THEN v ELSE Memory[a]]
    BY <2>6
  <2>8. QED
    BY <2>1, <2>4, <2>7
<1>12. QED
  BY <1>2, <1>9, <1>10, <1>11 DEF Local!LCreate, app

LEMMA ReleaseSeen ==
  ASSUME LInv, up', NEW b \in Buffers, ReleaseMem(b)
  PROVE  PInv' /\ Local!LRelease(b)
<1>1. /\ SetUp /\ handle[b] # Unset /\ wanted["buffer"] # handle[b]
      /\ handle' = [handle EXCEPT ![b] = Unset]
      /\ UNCHANGED <<mem_ptrs, mem_idx, content, built, args, queue, up, app>>
  BY DEF ReleaseMem
<1>2. \A a \in Buffers : handle'[a] = IF a = b THEN Unset ELSE handle[a]
  BY <1>1 DEF LInv, IInv, TypeOK
<1>3. PInv'
  <2>1. wait'.op \notin {"read", "map"}
    BY <1>1 DEF SetUp, Ready, Idle, app
  <2>2. wanted["buffer"] # Unset => \E a \in Buffers : handle'[a] = wanted["buffer"]
    BY <1>1, <1>2 DEF LInv, PInv
  <2>3. QED
    BY <1>1, <2>1, <2>2 DEF LInv, PInv, app
<1>4. \A a \in Buffers : a # b => handle'[a] = handle[a] /\ Obj(a)' = Obj(a)
  BY <1>1, <1>2 DEF Obj
<1>5. Target' = Target /\ Target # b
  <2>1. CASE wanted["buffer"] = Unset
    BY <1>1, <2>1, ApiAssumption DEF Target, app
  <2>2. CASE wanted["buffer"] # Unset
    <3>1. \A a \in Buffers : handle'[a] = wanted["buffer"] <=> handle[a] = wanted["buffer"]
      BY <1>1, <1>2, <2>2
    <3>2. QED
      BY <1>1, <2>2, <3>1, TargetIs, TargetKeeps DEF app
  <2>3. QED
    BY <2>1, <2>2
<1>6. Memory[b] # Unset /\ Memory' = [Memory EXCEPT ![b] = Unset]
  <2>1. Settled' = Settled
    BY <1>1, SettledKeeps
  <2>2. \A a \in Buffers : (IF handle'[a] = Unset THEN Unset ELSE Settled'[Obj(a)'])
                             = IF a = b THEN Unset ELSE Memory[a]
    BY <1>2, <1>4, <2>1 DEF Memory
  <2>3. Memory' = [a \in Buffers |-> IF a = b THEN Unset ELSE Memory[a]]
    BY <2>2 DEF Memory
  <2>4. Memory = [a \in Buffers |-> Memory[a]]
    BY DEF Memory
  <2>5. Memory[b] # Unset
    BY <1>1, HandleObject
  <2> HIDE DEF Memory
  <2>6. QED
    BY <2>3, <2>4, <2>5
<1>7. QED
  BY <1>1, <1>3, <1>5, <1>6 DEF Local!LRelease, app

\* Steps that leave the table, the contents and the queue alone.
LEMMA MemoryKeeps ==
  ASSUME UNCHANGED <<client, content, queue>> PROVE Memory' = Memory
<1>1. Settled' = Settled
  BY SettledKeeps
<1>2. QED
  BY <1>1 DEF Memory, Obj, client

LEMMA KernelIs == ASSUME LInv, SetUp PROVE Good(mem_ptrs[KERNEL]) /\ Good(mem_ptrs[QUEUE])
BY BasicFacts DEF LInv, PInv, IInv, TypeOK, SetUp, KERNEL, QUEUE, Good, NULL

LEMMA SetArgBufferSeen ==
  ASSUME Ordinary, LInv, up', ~ServerDies, NEW b \in Buffers, SetArgBuffer(b)
  PROVE  PInv' /\ Local!LSetBuffer(b)
<1>1. /\ SetUp /\ handle[b] # Unset
      /\ SetArg("buffer", handle[b], Obj(b) = NULL, Obj(b))
  <2>1. IsHandle(handle[b])
    BY HandleObject, BasicFacts DEF SetArgBuffer, IsHandle, Ordinary, LInv, IInv, TypeOK
  <2>2. QED
    BY <2>1 DEF SetArgBuffer
<1>2. /\ UNCHANGED <<client, content, queue, wait, got>>
      /\ wanted'["buffer"] = handle[b]
      /\ wanted'["scalar"] = wanted["scalar"] /\ wanted'["local"] = wanted["local"]
      /\ args'["local"] = args["local"]
  BY <1>1 DEF SetArg, LInv, IInv, TypeOK, Params
<1>3. PInv'
  BY <1>1, <1>2 DEF LInv, PInv, Usable, Obj, client
<1>4. Memory' = Memory /\ Memory[b] # Unset
  BY <1>1, <1>2, MemoryKeeps, HandleObject
<1>5. Target' = b
  <2>1. PICK s : s = handle[b]
    OBVIOUS
  <2>2. PICK h : h = handle /\ handle' = h
    BY <1>2 DEF client
  <2>3. h[b] = s /\ \A a \in Buffers : a # b => h[a] # s
    BY <1>1, <2>1, <2>2, HandleObject
  <2>4. (CHOOSE a \in Buffers : h[a] = s) = b
    BY <2>3, OwnerIs
  <2>5. wanted'["buffer"] = s /\ s # Unset
    BY <1>1, <1>2, <2>1
  <2>6. QED
    BY <2>2, <2>4, <2>5 DEF Target
<1>6. QED
  BY <1>2, <1>3, <1>4, <1>5 DEF Local!LSetBuffer

LEMMA SetArgScalarSeen ==
  ASSUME LInv, up', NEW n \in Scalars, SetArgScalar(n) PROVE PInv' /\ Local!LSetScalar(n)
<1>1. PICK z : SetUp /\ SetArg("scalar", n, z, n)
  BY DEF SetArgScalar
<1>2. /\ UNCHANGED <<client, content, queue, wait, got>>
      /\ wanted'["scalar"] = n /\ args'["local"] = args["local"]
      /\ wanted'["buffer"] = wanted["buffer"] /\ wanted'["local"] = wanted["local"]
  BY <1>1 DEF SetArg, LInv, IInv, TypeOK, Params
<1>3. PInv'
  BY <1>2 DEF LInv, PInv, Usable, Obj, client
<1>4. Memory' = Memory /\ Target' = Target
  BY <1>2, MemoryKeeps, TargetKeeps DEF client
<1>5. QED
  BY <1>2, <1>3, <1>4 DEF Local!LSetScalar

LEMMA SetArgLocalSeen == ASSUME LInv, up', SetArgLocal PROVE PInv' /\ Seen
<1>1. SetUp /\ SetArg("local", NULL, TRUE, NULL) /\ Accepts("local", TRUE, NULL)
  BY KernelIs DEF SetArgLocal, Accepts
<1>2. /\ UNCHANGED <<client, content, queue, wait, got>> /\ args'["local"] = NULL
      /\ wanted'["scalar"] = wanted["scalar"] /\ wanted'["buffer"] = wanted["buffer"]
  BY <1>1 DEF SetArg, LInv, IInv, TypeOK, Params
<1>3. args'["local"] # Unset
  BY <1>2, BasicFacts
<1>4. PInv'
  BY <1>2, <1>3 DEF LInv, PInv, Usable, Obj, client
<1>5. Memory' = Memory /\ Target' = Target
  BY <1>2, MemoryKeeps, TargetKeeps DEF client
<1>6. QED
  BY <1>2, <1>4, <1>5 DEF Seen

\* A command is queued, and its effect is what the application sees.
LEMMA EnqueueSeen ==
  ASSUME LInv, up', SetUp, NEW c \in Commands, c.dst \in 1..mem_idx, c.src \in 0..mem_idx,
         Enqueue(TRUE, c)
  PROVE  /\ PInv' /\ Settled' = Effect(Settled, c) /\ Target' = Target
         /\ UNCHANGED <<client, wanted, got>>
<1>1. Good(mem_ptrs[QUEUE]) /\ queue \in Seq(Commands) /\ Len(queue) \in Nat
  BY KernelIs DEF LInv, IInv, TypeOK
<1>2. queue' = Append(queue, c) /\ UNCHANGED <<client, content, args, wait, wanted, got>>
  BY <1>1 DEF Enqueue, app
<1>3. /\ Len(queue') = Len(queue) + 1 /\ queue'[Len(queue) + 1] = c
      /\ \A i \in 1..Len(queue) : queue'[i] = queue[i]
  BY <1>1, <1>2, AppendProperties
<1>4. \A i \in 1..Len(queue') : queue'[i].dst \in 1..mem_idx /\ queue'[i].src \in 0..mem_idx
  BY <1>1, <1>3 DEF LInv, PInv
<1>5. PInv'
  BY <1>2, <1>4 DEF LInv, PInv, Usable, Obj, client
<1>6. Settled' = Effect(Settled, c)
  BY <1>2, SettledAppend DEF LInv
<1>7. QED
  BY <1>2, <1>5, <1>6, TargetKeeps DEF client

LEMMA MemoryPut ==
  ASSUME LInv, NEW b \in Buffers, handle[b] # Unset, NEW v, UNCHANGED client,
         Settled' = Put(Settled, Obj(b), v)
  PROVE  Memory' = [Memory EXCEPT ![b] = v]
<1>1. Obj(b) \in Objects /\ Settled \in Memories
  BY HandleObject, SettledType DEF LInv
<1>2. Settled'[Obj(b)] = v /\ \A o \in Objects : o # Obj(b) => Settled'[o] = Settled[o]
  BY <1>1 DEF Put, Memories
<1>3. \A a \in Buffers : handle'[a] = handle[a] /\ Obj(a)' = Obj(a)
  BY DEF client, Obj
<1>4. ASSUME NEW a \in Buffers
      PROVE  (IF handle'[a] = Unset THEN Unset ELSE Settled'[Obj(a)'])
               = IF a = b THEN v ELSE Memory[a]
  <2>1. CASE a = b
    BY <1>2, <1>3, <2>1
  <2>2. CASE a # b /\ handle[a] = Unset
    BY <1>3, <2>2 DEF Memory
  <2>3. CASE a # b /\ handle[a] # Unset
    <3>1. Obj(a) # Obj(b) /\ Obj(a) \in Objects /\ Memory[a] = Settled[Obj(a)]
      BY <2>3, HandleObject
    <3>2. QED
      BY <1>2, <1>3, <2>3, <3>1
  <2>4. QED
    BY <2>1, <2>2, <2>3
<1>5. Memory' = [a \in Buffers |-> IF a = b THEN v ELSE Memory[a]]
  BY <1>4 DEF Memory
<1>6. Memory = [a \in Buffers |-> Memory[a]]
  BY DEF Memory
<1> HIDE DEF Memory
<1>7. QED
  BY <1>5, <1>6

LEMMA LaunchSeen ==
  ASSUME Ordinary, LInv, up', NDRangeKernel PROVE PInv' /\ Local!LLaunch
<1> DEFINE c == Command("launch", args["buffer"], NULL, args["scalar"],
                        wanted["buffer"] + 1, wanted["scalar"])
<1>1. /\ wanted["buffer"] # Unset /\ wanted["scalar"] # Unset /\ wanted["local"] # Unset
      /\ Enqueue(Good(mem_ptrs[KERNEL]) /\ \A p \in Params : args[p] # Unset, c)
      /\ SetUp
  BY DEF NDRangeKernel, Params, Enqueue
<1>2. PICK t \in Buffers : t = Target /\ handle[t] = wanted["buffer"]
  BY <1>1, TargetIs
<1>3. Good(mem_ptrs[KERNEL]) /\ Good(mem_ptrs[QUEUE])
  BY <1>1, KernelIs
<1>4. /\ handle[t] # Unset /\ handle[t] \in Nat /\ handle[t] < Slots
      /\ mem_ptrs[handle[t]] = handle[t] + 1 /\ Obj(t) = handle[t] + 1
      /\ Obj(t) \in Objects /\ Obj(t) \in 1..mem_idx
  <2>1. mem_idx \in Nat /\ mem_idx <= Slots
    BY BasicFacts DEF LInv, IInv, TypeOK, Ordinary
  <2>2. QED
    BY <1>1, <1>2, <2>1, HandleObject, BasicFacts DEF Obj
<1>5. args["buffer"] = Obj(t)
  BY <1>2, <1>3, <1>4, BasicFacts DEF LInv, IInv, ArgsInv, NULL
<1>6. args["scalar"] = wanted["scalar"] /\ wanted["scalar"] \in Scalars
  BY <1>1, <1>3 DEF LInv, IInv, ArgsInv, WantedInv, Ordinary
<1>7. \A p \in Params : args[p] # Unset
  <2>1. args["buffer"] # Unset /\ args["scalar"] # Unset
    BY <1>1, <1>4, <1>5, <1>6, BasicFacts
  <2>2. args["local"] # Unset
    BY <1>1 DEF LInv, PInv
  <2>3. QED
    BY <2>1, <2>2 DEF Params
<1>8. /\ c.op = "launch" /\ c.dst = Obj(t) /\ c.src = NULL /\ c.num = wanted["scalar"]
      /\ c \in Commands
  <2>1. wanted["scalar"] \in Nat /\ wanted["buffer"] + 1 \in Nat
    BY <1>2, <1>4, <1>6, BasicFacts
  <2>2. c \in [op: {"launch"}, dst: {NULL} \union Objects, src: {NULL}, num: Scalars,
               wdst: Nat, wnum: Nat]
    BY <1>4, <1>5, <1>6, <2>1 DEF Command
  <2>3. QED
    BY <1>5, <1>6, <2>2 DEF Command, Commands
<1>9. Enqueue(TRUE, c)
  BY <1>1, <1>3, <1>7 DEF Enqueue
<1> HIDE DEF c
<1>10. c.src \in 0..mem_idx
  BY <1>4, <1>8 DEF NULL, LInv, IInv, TypeOK
<1>11. /\ PInv' /\ Settled' = Effect(Settled, c) /\ Target' = Target
       /\ UNCHANGED <<client, wanted, got>>
  BY <1>1, <1>4, <1>8, <1>9, <1>10, EnqueueSeen
<1> DEFINE v == IF Memory[t] = JUNK THEN JUNK ELSE Kernel(Memory[t], wanted["scalar"])
<1>12. Effect(Settled, c) = Put(Settled, Obj(t), v)
  <2>1. Memory[t] = Settled[Obj(t)] /\ Settled \in Memories
    BY <1>4, HandleObject, SettledType DEF LInv
  <2>2. QED
    BY <1>4, <1>8, <2>1 DEF Effect, Put, Memories
<1> HIDE DEF v
<1>13. Memory' = [Memory EXCEPT ![t] = v]
  BY <1>4, <1>11, <1>12, MemoryPut
<1>14. Target # Unset
  BY <1>2, ApiAssumption
<1>15. t \in DOMAIN Memory
  BY DEF Memory
<1>16. Local!LLaunch
  BY <1>1, <1>2, <1>11, <1>13, <1>14, <1>15 DEF Local!LLaunch, v
<1>17. QED
  BY <1>11, <1>16

LEMMA WriteSeen ==
  ASSUME LInv, up', ~ServerDies, NEW b \in Buffers, NEW v \in Contents, WriteBuffer(b, v)
  PROVE  PInv' /\ Local!LWrite(b, v)
<1> DEFINE c == Command("write", Obj(b), NULL, v, Obj(b), v)
<1>1. handle[b] # Unset /\ Enqueue(Good(Obj(b)), c) /\ SetUp
  BY DEF WriteBuffer, Usable, JunkObject, Enqueue
<1>2. /\ Obj(b) \in Objects /\ Obj(b) \in 1..mem_idx /\ Good(Obj(b)) /\ Memory[b] # Unset
      /\ v \in Nat
  BY <1>1, HandleObject, ApiAssumption
<1>3. /\ c.op = "write" /\ c.dst = Obj(b) /\ c.src = 0 /\ c.num = v /\ c \in Commands
      /\ Enqueue(TRUE, c)
  <2>1. Obj(b) \in Nat
    BY <1>2, BasicFacts
  <2>2. QED
    BY <1>1, <1>2, <2>1 DEF Command, Commands, Enqueue, NULL
<1>4. c.src \in 0..mem_idx
  BY <1>3 DEF LInv, IInv, TypeOK
<1> HIDE DEF c
<1>5. /\ PInv' /\ Settled' = Effect(Settled, c) /\ Target' = Target
      /\ UNCHANGED <<client, wanted, got>>
  BY <1>1, <1>2, <1>3, <1>4, EnqueueSeen
<1>6. Effect(Settled, c) = Put(Settled, Obj(b), v)
  BY <1>3 DEF Effect, Put
<1>7. Memory' = [Memory EXCEPT ![b] = v]
  BY <1>1, <1>5, <1>6, MemoryPut
<1>8. QED
  BY <1>2, <1>5, <1>7 DEF Local!LWrite

LEMMA CopySeen ==
  ASSUME LInv, up', ~ServerDies, NEW a \in Buffers, NEW b \in Buffers, CopyBuffer(a, b)
  PROVE  PInv' /\ Local!LCopy(a, b)
<1> DEFINE c == Command("copy", Obj(b), Obj(a), NULL, Obj(b), NULL)
<1>1. /\ handle[a] # Unset /\ handle[b] # Unset /\ SetUp
      /\ Enqueue(Good(Obj(a)) /\ Good(Obj(b)), c)
  BY DEF CopyBuffer, Usable, JunkObject, Enqueue
<1>2. /\ Obj(b) \in Objects /\ Obj(b) \in 1..mem_idx /\ Good(Obj(b)) /\ Memory[b] # Unset
      /\ Obj(a) \in Objects /\ Obj(a) \in 1..mem_idx /\ Good(Obj(a)) /\ Memory[a] # Unset
      /\ Memory[a] = Settled[Obj(a)]
  BY <1>1, HandleObject
<1>3. /\ c.op = "copy" /\ c.dst = Obj(b) /\ c.src = Obj(a) /\ c \in Commands
      /\ Enqueue(TRUE, c)
  <2>1. Obj(b) \in Nat /\ NULL \in Nat
    BY <1>2, BasicFacts
  <2>2. QED
    BY <1>1, <1>2, <2>1 DEF Command, Commands, Enqueue
<1>4. c.src \in 0..mem_idx
  BY <1>2, <1>3
<1> HIDE DEF c
<1>5. /\ PInv' /\ Settled' = Effect(Settled, c) /\ Target' = Target
      /\ UNCHANGED <<client, wanted, got>>
  BY <1>1, <1>2, <1>3, <1>4, EnqueueSeen
<1>6. Effect(Settled, c) = Put(Settled, Obj(b), Memory[a])
  BY <1>2, <1>3 DEF Effect, Put
<1>7. Memory' = [Memory EXCEPT ![b] = Memory[a]]
  BY <1>1, <1>5, <1>6, MemoryPut
<1>8. QED
  BY <1>2, <1>5, <1>7 DEF Local!LCopy

LEMMA ExecuteSeen ==
  ASSUME LInv, up', ~ServerDies, ExecuteCommand PROVE PInv' /\ Seen
<1>1. /\ queue # <<>> /\ queue' = Tail(queue)
      /\ content' = IF Head(queue).dst = NULL THEN content ELSE Effect(content, Head(queue))
      /\ UNCHANGED <<client, live, built, args, up, app>>
  BY DEF ExecuteCommand
<1>2. /\ queue \in Seq(Commands) /\ Head(queue) = queue[1] /\ 1 \in 1..Len(queue)
      /\ Len(queue) \in Nat /\ Len(queue') = Len(queue) - 1
      /\ \A i \in 1..Len(queue') : queue'[i] = queue[i + 1]
  BY <1>1, HeadTailProperties, LenProperties DEF LInv, IInv, TypeOK
<1>3. content' = Effect(content, Head(queue))
  <2>1. queue[1].dst # NULL
    BY <1>2 DEF LInv, PInv, NULL
  <2>2. QED
    BY <1>1, <1>2, <2>1
<1>4. Settled' = Settled
  BY <1>1, <1>3, SettledTail DEF LInv
<1>5. ASSUME NEW i \in 1..Len(queue')
      PROVE  queue'[i].dst \in 1..mem_idx /\ queue'[i].src \in 0..mem_idx
  <2>1. i + 1 \in 1..Len(queue) /\ queue'[i] = queue[i + 1]
    BY <1>2
  <2>2. QED
    BY <2>1 DEF LInv, PInv
<1>6. PInv'
  BY <1>1, <1>5 DEF LInv, PInv, Usable, Obj, client, app
<1>7. Memory' = Memory
  BY <1>1, <1>4 DEF Memory, Obj, client
<1>8. QED
  BY <1>1, <1>6, <1>7, TargetKeeps DEF Seen, client, app

\* A call begins or ceases to wait.
LEMMA WaitSeen ==
  ASSUME LInv, up', UNCHANGED <<client, driver, wanted, refused>>,
         wait'.op \in {"read", "map"} => \E b \in Buffers : Usable(b) /\ Obj(b) = wait'.obj
  PROVE  PInv' /\ Memory' = Memory /\ Target' = Target
<1>1. PInv'
  <2>1. wait'.op \in {"read", "map"} => \E b \in Buffers : Usable(b)' /\ Obj(b)' = wait'.obj
    BY DEF Usable, Obj, client
  <2>2. QED
    BY <2>1 DEF LInv, PInv, client, driver
<1>2. QED
  BY <1>1, MemoryKeeps, TargetKeeps DEF client, driver

LEMMA WaitForSeen ==
  ASSUME LInv, up', NEW op, NEW o, WaitFor(op, o),
         op \in {"read", "map"} => \E b \in Buffers : Usable(b) /\ Obj(b) = o
  PROVE  PInv' /\ Seen
<1>1. /\ UNCHANGED <<client, driver, wanted, refused, got>>
      /\ wait'.op = op /\ wait'.obj = o
  BY DEF WaitFor
<1>2. QED
  BY <1>1, WaitSeen DEF Seen

LEMMA ReadSeen ==
  ASSUME Ordinary, LInv, up', ~ServerDies, NEW b \in Buffers, ReadBuffer(b) \/ MapBuffer(b)
  PROVE  PInv' /\ Seen
<1>1. SetUp /\ Usable(b)
  BY DEF ReadBuffer, MapBuffer
<1>2. Good(Obj(b)) /\ Good(mem_ptrs[QUEUE])
  BY <1>1, HandleObject, KernelIs DEF Usable
<1>3. WaitFor("read", Obj(b)) \/ WaitFor("map", Obj(b))
  BY <1>2 DEF ReadBuffer, MapBuffer, Ordinary
<1>4. QED
  BY <1>1, <1>3, WaitForSeen

\* What a blocking read or a map brings when the queue is empty.
LEMMA DeliverSeen ==
  ASSUME LInv, up', NEW b \in Buffers, Usable(b), queue = <<>>, Deliver({content[Obj(b)]})
  PROVE  PInv' /\ Local!LRead(b)
<1>1. /\ UNCHANGED <<client, driver, wanted, refused>> /\ wait'.op = "none"
      /\ got' = content[Obj(b)]
  BY DEF Deliver, Idle
<1>2. PInv' /\ Memory' = Memory /\ Target' = Target
  BY <1>1, WaitSeen
<1>3. Memory[b] = content[Obj(b)] /\ Memory[b] # Unset
  BY HandleObject, SettledEmpty DEF Usable
<1>4. QED
  BY <1>1, <1>2, <1>3 DEF Local!LRead

LEMMA ReturnsSeen ==
  ASSUME Ordinary, LInv, up', (\E b \in Buffers : ReadReturns(b)) \/ MapReturns
  PROVE  PInv' /\ \E b \in Buffers : Local!LRead(b)
<1>1. ASSUME NEW b \in Buffers, ReadReturns(b) PROVE PInv' /\ Local!LRead(b)
  <2>1. Usable(b) /\ queue = <<>> /\ Deliver({content[Obj(b)]})
    BY <1>1 DEF ReadReturns, ReadOutcomes, Ordinary
  <2>2. QED
    BY <2>1, DeliverSeen
<1>2. ASSUME MapReturns PROVE PInv' /\ \E b \in Buffers : Local!LRead(b)
  <2>1. wait.op = "map" /\ queue = <<>> /\ Deliver({content[wait.obj]})
    BY <1>2 DEF MapReturns
  <2>2. PICK b \in Buffers : Usable(b) /\ Obj(b) = wait.obj
    BY <2>1 DEF LInv, PInv
  <2>3. PInv' /\ Local!LRead(b)
    BY <2>1, <2>2, DeliverSeen
  <2>4. QED
    BY <2>3
<1>3. QED
  BY <1>1, <1>2

LEMMA FinishSeen == ASSUME LInv, up', Finish \/ FinishReturns PROVE PInv' /\ Seen
<1>1. CASE Finish
  BY <1>1, WaitForSeen DEF Finish
<1>2. CASE FinishReturns
  <2>1. UNCHANGED <<client, driver, wanted, refused, got>> /\ wait'.op = "none"
    BY <1>2 DEF FinishReturns, Idle
  <2>2. QED
    BY <2>1, WaitSeen DEF Seen
<1>3. QED
  BY <1>1, <1>2

LEMMA QuietSeen ==
  ASSUME LInv, up', BuildProgram \/ UNCHANGED vars PROVE PInv' /\ Seen
<1>1. UNCHANGED <<client, content, args, queue, app>>
  BY DEF BuildProgram, vars, driver
<1>2. PInv'
  BY <1>1, QuietPInv DEF app
<1>3. QED
  BY <1>1, <1>2, MemoryKeeps, TargetKeeps DEF Seen, client, app

LEMMA NextSeen == ASSUME Ordinary, LInv, [Next]_vars PROVE LInv' /\ Seen
<1>1. up' /\ ~ServerDies
  BY StaysUp
<1>2. IInv'
  BY Invariance DEF LInv
<1>3. CASE CreateObject
  BY <1>2, <1>3, CreateSeen DEF LInv
<1>4. CASE BuildProgram \/ UNCHANGED vars
  BY <1>1, <1>2, <1>4, QuietSeen DEF LInv
<1>5. CASE \E b \in Buffers, v \in Contents \union {JUNK} : CreateBuffer(b, v)
  BY <1>1, <1>2, <1>5, CreateBufferSeen DEF LInv, Seen, Local!LNext
<1>6. CASE \E b \in Buffers : ReleaseMem(b)
  BY <1>1, <1>2, <1>6, ReleaseSeen DEF LInv, Seen, Local!LNext
<1>7. CASE \E b \in Buffers : SetArgBuffer(b)
  BY <1>1, <1>2, <1>7, SetArgBufferSeen DEF LInv, Seen, Local!LNext
<1>8. CASE \E n \in Scalars : SetArgScalar(n)
  BY <1>1, <1>2, <1>8, SetArgScalarSeen DEF LInv, Seen, Local!LNext
<1>9. CASE SetArgLocal
  BY <1>1, <1>2, <1>9, SetArgLocalSeen DEF LInv
<1>10. CASE NDRangeKernel
  BY <1>1, <1>2, <1>10, LaunchSeen DEF LInv, Seen, Local!LNext
<1>11. CASE \E b \in Buffers, v \in Contents : WriteBuffer(b, v)
  BY <1>1, <1>2, <1>11, WriteSeen DEF LInv, Seen, Local!LNext
<1>12. CASE \E a, b \in Buffers : CopyBuffer(a, b)
  BY <1>1, <1>2, <1>12, CopySeen DEF LInv, Seen, Local!LNext
<1>13. CASE \E b \in Buffers : ReadBuffer(b) \/ MapBuffer(b)
  BY <1>1, <1>2, <1>13, ReadSeen DEF LInv
<1>14. CASE (\E b \in Buffers : ReadReturns(b)) \/ MapReturns
  BY <1>1, <1>2, <1>14, ReturnsSeen DEF LInv, Seen, Local!LNext
<1>15. CASE Finish \/ FinishReturns
  BY <1>1, <1>2, <1>15, FinishSeen DEF LInv
<1>16. CASE ExecuteCommand
  BY <1>1, <1>2, <1>16, ExecuteSeen DEF LInv
<1>17. QED
  BY <1>3, <1>4, <1>5, <1>6, <1>7, <1>8, <1>9, <1>10, <1>11, <1>12, <1>13, <1>14, <1>15,
     <1>16 DEF Next

(* With large buffers, blocking reads, scalars other than zero, creations  *)
(* that succeed and room in the table, an application sees of the server   *)
(* what it would see of OpenCL on its own machine, whatever the driver has *)
(* carried out at which point.                                             *)
THEOREM LocalRefinement == ASSUME Ordinary PROVE Spec => ImplementsLocalCl
<1>1. Init => LInv /\ Local!LInit
  <2>1. ASSUME Init PROVE LInv
    BY <2>1, InitIInv DEF LInv, PInv, Init, Nothing, Params, Idle
  <2>2. ASSUME Init PROVE Local!LInit
    BY <2>2 DEF Init, Local!LInit, Memory, Target, Nothing, Params
  <2>3. QED
    BY <2>1, <2>2
<1>2. LInv /\ [Next]_vars => LInv' /\ [Local!LNext]_(Local!localVars)
  BY NextSeen DEF Seen, Local!localVars
<1>3. QED
  BY <1>1, <1>2, PTL DEF Spec, ImplementsLocalCl, Local!LSpec
=============================================================================
