------------------------- MODULE InterpreterProofs -------------------------
(***************************************************************************)
(* Proofs about Interpreter, for every program whose code passes the check *)
(* of Verifier, however long it runs.                                      *)
(***************************************************************************)
EXTENDS Verifier, FiniteSetTheorems, SequenceTheorems, WellFoundedInduction, TLAPS

-----------------------------------------------------------------------------
(* Sequences and numbers.                                                  *)

\* The lowest n elements.
LEMMA CutSeq ==
  ASSUME NEW S, NEW s \in Seq(S), NEW n \in 0 .. Len(s)
  PROVE  /\ SubSeq(s, 1, n) \in Seq(S) /\ Len(SubSeq(s, 1, n)) = n
         /\ DOMAIN SubSeq(s, 1, n) = 1 .. n
         /\ \A k \in 1 .. n : SubSeq(s, 1, n)[k] = s[k]
  <1>1. Len(s) \in Nat /\ \A k \in 1 .. n : s[k] \in S
    OBVIOUS
  <1>2. n \in Int /\ 1 \in Int /\ (1 <= n => n - 1 + 1 = n) /\ (~(1 <= n) => n = 0)
    BY <1>1
  <1>3. /\ SubSeq(s, 1, n) \in Seq(S)
        /\ Len(SubSeq(s, 1, n)) = n
    BY <1>1, <1>2, SubSeqProperties
  <1> QED OBVIOUS

\* One element more.
LEMMA AppendSeq ==
  ASSUME NEW S, NEW s \in Seq(S), NEW e \in S
  PROVE  /\ Append(s, e) \in Seq(S) /\ Len(Append(s, e)) = Len(s) + 1 /\ Len(s) \in Nat
         /\ DOMAIN Append(s, e) = 1 .. Len(s) + 1
         /\ \A k \in 1 .. Len(s) : Append(s, e)[k] = s[k]
         /\ Append(s, e)[Len(s) + 1] = e
  OBVIOUS

\* The order of the natural numbers is well founded.
LEMMA NatOrder == IsWellFoundedOn({p \in Nat \X Nat : p[1] < p[2]}, Nat)
  BY NatLessThanWellFounded DEF OpToRel

\* A nonempty set of natural numbers has a least member.
LEMMA LeastNatural ==
  ASSUME NEW P \in SUBSET Nat, P # {}
  PROVE  \E i \in P : \A j \in P : i <= j
  <1> DEFINE Less == {p \in Nat \X Nat : p[1] < p[2]}
  <1>1. IsWellFoundedOn(Less, Nat)
    BY NatOrder
  <1> HIDE DEF Less
  <1>2. PICK i \in P : \A j \in P : ~ (<<j, i>> \in Less)
    BY <1>1, WFMin
  <1>3. ASSUME NEW j \in P
        PROVE  i <= j
    <2>1. i \in Nat /\ j \in Nat
      OBVIOUS
    <2>2. j < i => <<j, i>> \in Less
      BY <2>1 DEF Less
    <2> QED BY <1>2, <2>1, <2>2
  <1> QED BY <1>3

\* A set that holds 0, and the successor of each of its numbers, holds them all.
LEMMA SetInduction ==
  ASSUME NEW P, 0 \in P, \A n \in Nat : n \in P => n + 1 \in P
  PROVE  Nat \subseteq P
  <1> SUFFICES ASSUME Nat \ P # {}
               PROVE  FALSE
    OBVIOUS
  <1>1. PICK i \in Nat \ P : \A j \in Nat \ P : i <= j
    BY LeastNatural
  <1>2. i # 0
    OBVIOUS
  <1>3. i - 1 \in Nat /\ i - 1 < i
    BY <1>2
  <1>4. i - 1 \in P
    BY <1>1, <1>3
  <1> QED BY <1>3, <1>4

-----------------------------------------------------------------------------
(* The invariant: what the values refer to exists, and every frame has one *)
(* of the shapes of its function.                                          *)

References == {"class", "instance", "bound"}
Tags == {"none", "undefined", "bool", "const", "native", "iterator", "closure"} \cup References

\* The names there are: those of Interpreter, and those in the code.
Names ==
    {"", "true", "false", "a", "b", "c", "d", "e", "i", "n", "list", "id", "__iter__",
     "cond", "pick", "risky", "receiver", "method"}
    \cup {code[fn].name : fn \in DOMAIN code}
    \cup UNION {{code[fn].code[i].name : i \in DOMAIN code[fn].code} : fn \in DOMAIN code}

Vals == [is : Tags, of : Names, fn : Nat, up : Seq(Nat)]

\* The upvalues of a closure of function fn.
UpvaluesOf(fn) ==
    {up \in Seq(Nat) : /\ DOMAIN up = DOMAIN code[fn].upvalues
                       /\ \A k \in DOMAIN up : up[k] \in DOMAIN upvalues}

\* Values whose function, upvalues or object exist.
Safe ==
    {v \in Vals :
        /\ v.is = "native" => v.of \in Natives
        /\ v.is = "closure" => v.fn \in DOMAIN code /\ v.up \in UpvaluesOf(v.fn)
        /\ v.is \in References => v.fn \in DOMAIN objects /\ objects[v.fn].is = v.is}
Closures == {v \in Safe : v.is = "closure"}

Members(S) == UNION {[names -> S] : names \in SUBSET Names}

Objects ==
    {o \in [is : References, name : Names, class : Nat, superclass : Nat,
            fields : Members(Safe), methods : Members(Closures)] :
        /\ o.superclass = 0 \/ o.superclass \in DOMAIN objects
        /\ o.is = "instance" => o.class \in DOMAIN objects
        /\ o.is = "bound" =>
              /\ {"receiver", "method"} \subseteq DOMAIN o.fields
              /\ IsObject(o.fields["receiver"]) /\ o.fields["method"] \in Closures}

FrameSet ==
    {f \in [fn : DOMAIN code, ip : Nat, base : Nat \ {0}, up : Seq(Nat)] : f.up \in UpvaluesOf(f.fn)}
Points == [size : Nat, frame : Nat, handler : Nat]
CatchPoints == Seq(Points)

CodeInv ==
    /\ code = CodeOf(program)
    /\ Verified(code, FailPolicy = "log", ShapesOf(program))

\* A variable on the stack has one upvalue.
Shared == \A u, w \in openUpvalues : upvalues[u].slot = upvalues[w].slot => u = w

UpvalueSet == [open : BOOLEAN, slot : Nat, value : Safe]

ValuesInv ==
    /\ stack \in Seq(Safe) /\ frames \in Seq(FrameSet) /\ catchPoints \in CatchPoints
    /\ upvalues \in Seq(UpvalueSet)
    /\ openUpvalues = {u \in DOMAIN upvalues : upvalues[u].open}
    /\ Shared
    /\ objects \in Seq(Objects)
    /\ globals \in [GlobalNames -> Safe]
    /\ others = <<>>

RunInv ==
    /\ outcome \in {"running", "suspended", "finished", "error"}
    /\ Len(frames) <= MaxFrames /\ (frames = <<>> <=> outcome = "finished")

\* The n-th catch point is one of the k-th frame.
PointOf(cps, n, k) == n \in DOMAIN cps /\ cps[n].frame = k

\* The catch points of the k-th frame are those of these try expressions.
TriesStand(cps, k, base, tries) ==
    \E from \in Nat :
        /\ \A n \in Nat : PointOf(cps, n, k) <=> n > from /\ n <= from + Len(tries)
        /\ \A m \in DOMAIN tries : /\ cps[from + m].handler = tries[m].handler
                                   /\ cps[from + m].size = base - 1 + tries[m].size

\* The k-th frame, from slot base, has shape r, and end is the slot above it.
Holds(st, ups, open, cps, k, base, r, end) ==
    /\ base + r.height = end
    /\ \A p \in r.known : IsA(st[base + p[1]], p[2])
    /\ \A u \in open : base <= ups[u].slot /\ ups[u].slot < end => ups[u].slot - base \in r.captured
    /\ TriesStand(cps, k, base, r.tries)

\* The shapes of the frame that runs, and of one that waits for a call.
Stands(f) == {s \in ShapesOf(program)[f.fn][f.ip] : f.ip \in DOMAIN code[f.fn].code}
Waits(f) ==
    LET at == f.ip - 1
    IN  {Rest(s, code[f.fn].code[at]) : s \in
            {s \in ShapesOf(program)[f.fn][at] : /\ at \in DOMAIN code[f.fn].code
                                                 /\ code[f.fn].code[at].op \in CallOps}}

FramesInv ==
    /\ \A j, k \in DOMAIN frames : j < k => frames[j].base < frames[k].base
    /\ frames # <<>> =>
          \E s \in Stands(Frame) :
             Holds(stack, upvalues, openUpvalues, catchPoints, Len(frames), Frame.base, s, Len(stack) + 1)
    /\ \A k \in 1 .. Len(frames) - 1 : \E r \in Waits(frames[k]) :
          Holds(stack, upvalues, openUpvalues, catchPoints, k, frames[k].base, r, frames[k + 1].base)
    /\ \A u \in openUpvalues : upvalues[u].slot \in 1 .. Len(stack)

PointsInv ==
    /\ \A n \in DOMAIN catchPoints : catchPoints[n].frame \in DOMAIN frames
    /\ \A m, n \in DOMAIN catchPoints : m < n => catchPoints[m].frame <= catchPoints[n].frame

ShapesInv == FramesInv /\ PointsInv

-----------------------------------------------------------------------------
(* Frames and their shapes.                                                *)

\* A frame that a step leaves where it is keeps its shape: the slots of it that
\* change are captured, no open upvalue comes to them, its catch points stay.
LEMMA KeepsShape ==
  ASSUME NEW k, NEW base \in Nat, NEW r, WellShaped(r), NEW end,
         NEW st, NEW ups, NEW open, NEW cps, Holds(st, ups, open, cps, k, base, r, end),
         NEW st2, NEW ups2, NEW open2, NEW cps2,
         \A p \in Nat : base <= p /\ p < end =>
            st2[p] = st[p] \/ \E u \in open : ups[u].slot = p,
         \A u \in open2 : ups2[u].slot < end => u \in open /\ ups2[u].slot = ups[u].slot,
         \A n \in Nat : PointOf(cps2, n, k) <=> PointOf(cps, n, k),
         \A n \in Nat : PointOf(cps, n, k) => cps2[n] = cps[n]
  PROVE  Holds(st2, ups2, open2, cps2, k, base, r, end)
  <1>1. r.height \in Nat /\ \A p \in r.known : p[1] \in Nat /\ p[1] < r.height /\ p[1] \notin r.captured
    BY DEF WellShaped, AllShapes
  <1>2. ASSUME NEW p \in r.known
        PROVE  IsA(st2[base + p[1]], p[2])
    <2>1. IsA(st[base + p[1]], p[2]) /\ base + r.height = end
      BY DEF Holds
    <2>2. base + p[1] \in Nat /\ base <= base + p[1] /\ base + p[1] < end
      BY <1>1, <2>1
    <2>3. st2[base + p[1]] = st[base + p[1]]
      <3> SUFFICES ASSUME NEW u \in open, ups[u].slot = base + p[1]
                   PROVE  FALSE
        BY <2>2
      <3>1. ups[u].slot - base \in r.captured
        BY <2>2 DEF Holds
      <3>2. ups[u].slot - base = p[1]
        BY <1>1
      <3> QED BY <1>1, <3>1, <3>2
    <2> QED BY <2>1, <2>3
  <1>3. ASSUME NEW u \in open2, base <= ups2[u].slot, ups2[u].slot < end
        PROVE  ups2[u].slot - base \in r.captured
    BY <1>3 DEF Holds
  <1>4. TriesStand(cps2, k, base, r.tries)
    <2>1. PICK from \in Nat :
            /\ \A n \in Nat : PointOf(cps, n, k) <=> n > from /\ n <= from + Len(r.tries)
            /\ \A m \in DOMAIN r.tries : /\ cps[from + m].handler = r.tries[m].handler
                                         /\ cps[from + m].size = base - 1 + r.tries[m].size
      BY DEF Holds, TriesStand
    <2>2. r.tries \in Seq([size : Nat, handler : Nat])
      BY DEF WellShaped, AllShapes
    <2>3. \A m \in DOMAIN r.tries : from + m \in Nat /\ from + m > from /\ from + m <= from + Len(r.tries)
      BY <2>2
    <2>4. \A m \in DOMAIN r.tries : cps2[from + m] = cps[from + m]
      BY <2>1, <2>3
    <2>5. \A n \in Nat : PointOf(cps2, n, k) <=> n > from /\ n <= from + Len(r.tries)
      BY <2>1
    <2>6. \A m \in DOMAIN r.tries : /\ cps2[from + m].handler = r.tries[m].handler
                                    /\ cps2[from + m].size = base - 1 + r.tries[m].size
      BY <2>1, <2>4
    <2> QED BY <2>5, <2>6 DEF TriesStand
  <1> QED BY <1>2, <1>3, <1>4 DEF Holds

\* The lowest slots of a frame have its shape cut off.
LEMMA CutHolds ==
  ASSUME NEW k, NEW base \in Nat \ {0}, NEW r, WellShaped(r), NEW end,
         NEW st, NEW ups, NEW open, NEW cps, Holds(st, ups, open, cps, k, base, r, end),
         \A u \in open : ups[u].slot \in Nat,
         NEW h \in Nat, h <= r.height,
         NEW st2, \A p \in 1 .. base + h - 1 : st2[p] = st[p]
  PROVE  Holds(st2, ups, open, cps, k, base, Cut(r, h), base + h)
  <1>1. /\ Cut(r, h).height = h /\ Cut(r, h).tries = r.tries /\ Cut(r, h).captured = r.captured
        /\ Cut(r, h).known = {p \in r.known : p[1] < h}
    BY DEF Cut, Shape
  <1>2. ASSUME NEW p \in r.known, p[1] < h
        PROVE  IsA(st2[base + p[1]], p[2])
    <2>1. p[1] \in Nat
      BY DEF WellShaped, AllShapes
    <2>2. base + p[1] \in 1 .. base + h - 1
      BY <1>2, <2>1
    <2>3. IsA(st[base + p[1]], p[2])
      BY DEF Holds
    <2> QED BY <2>2, <2>3
  <1>3. r.height \in Nat /\ base + r.height = end
    BY DEF Holds, WellShaped, AllShapes
  <1>4. ASSUME NEW u \in open, base <= ups[u].slot, ups[u].slot < base + h
        PROVE  ups[u].slot - base \in r.captured
    BY <1>3, <1>4 DEF Holds
  <1> QED BY <1>1, <1>2, <1>4 DEF Holds

\* One slot more.
LEMMA PushHolds ==
  ASSUME NEW k, NEW base \in Nat \ {0}, NEW r, WellShaped(r), NEW end,
         NEW st, NEW ups, NEW open, NEW cps, Holds(st, ups, open, cps, k, base, r, end),
         \A u \in open : ups[u].slot \in Nat /\ ups[u].slot # end,
         NEW kinds \in SUBSET ValueKinds,
         NEW st2, \A p \in 1 .. end - 1 : st2[p] = st[p],
         \A kind \in kinds : IsA(st2[end], kind)
  PROVE  Holds(st2, ups, open, cps, k, base, Push(r, kinds), end + 1)
  <1>1. /\ Push(r, kinds).height = r.height + 1 /\ Push(r, kinds).tries = r.tries
        /\ Push(r, kinds).captured = r.captured
        /\ Push(r, kinds).known = r.known \cup ({r.height} \X kinds)
    BY DEF Push, Shape
  <1>2. r.height \in Nat /\ base + r.height = end
    BY DEF Holds, WellShaped, AllShapes
  <1>3. ASSUME NEW p \in r.known
        PROVE  IsA(st2[base + p[1]], p[2])
    <2>1. p[1] \in Nat /\ p[1] < r.height
      BY DEF WellShaped, AllShapes
    <2>2. base + p[1] \in 1 .. end - 1
      BY <1>2, <2>1
    <2>3. IsA(st[base + p[1]], p[2])
      BY DEF Holds
    <2> QED BY <2>2, <2>3
  <1>4. ASSUME NEW p \in {r.height} \X kinds
        PROVE  IsA(st2[base + p[1]], p[2])
    <2>1. p[1] = r.height /\ p[2] \in kinds
      OBVIOUS
    <2> QED BY <1>2, <2>1
  <1>5. ASSUME NEW u \in open, base <= ups[u].slot, ups[u].slot < end + 1
        PROVE  ups[u].slot - base \in r.captured
    BY <1>2, <1>5 DEF Holds
  <1> QED BY <1>1, <1>2, <1>3, <1>4, <1>5 DEF Holds

-----------------------------------------------------------------------------
(* What the check of the code says.                                        *)

Log == FailPolicy = "log"
ShapesAt(fn, i) == ShapesOf(program)[fn][i]

\* Of the code of a function.
LEMMA CodeFacts ==
  ASSUME CodeInv, NEW fn \in DOMAIN code
  PROVE  /\ fn \in Nat /\ WellFormed(code[fn])
         /\ 1 \in DOMAIN code[fn].code /\ Entry(code[fn]) \in ShapesAt(fn, 1)
         /\ \A i \in DOMAIN code[fn].code :
               /\ i \in Nat
               /\ \A s \in ShapesAt(fn, i) :
                     /\ WellShaped(s) /\ Allowed(code, code[fn], i, s)
                     /\ Taken(code[fn].code[i]) <= s.height /\ WellShaped(Rest(s, code[fn].code[i]))
                     /\ \A q \in Flow(code, Log, code[fn], i, s) :
                           q[1] \in DOMAIN code[fn].code /\ q[2] \in ShapesAt(fn, q[1])
         /\ AsCompiled(code[fn], ShapesOf(program)[fn]) /\ Nested(code[fn].table)
  <1>1. /\ DOMAIN code \subseteq Nat /\ WellFormed(code[fn]) /\ Nested(code[fn].table)
        /\ FlowsInto(code, Log, code[fn], ShapesOf(program)[fn])
        /\ AsCompiled(code[fn], ShapesOf(program)[fn])
    BY DEF CodeInv, Verified, Log
  <1>2. code[fn].code \in Seq(Instructions)
    BY <1>1 DEF WellFormed
  <1>3. \A i \in DOMAIN code[fn].code : i \in Nat
    BY <1>2
  <1>4. /\ 1 \in DOMAIN code[fn].code /\ Entry(code[fn]) \in ShapesAt(fn, 1)
        /\ \A i \in DOMAIN code[fn].code : \A s \in ShapesAt(fn, i) :
              /\ Allowed(code, code[fn], i, s)
              /\ \A q \in Flow(code, Log, code[fn], i, s) :
                    q[1] \in DOMAIN code[fn].code /\ q[2] \in ShapesAt(fn, q[1])
    BY <1>1 DEF FlowsInto, ShapesAt
  <1>5. \A i \in DOMAIN code[fn].code : \A s \in ShapesAt(fn, i) :
            /\ WellShaped(s) /\ Taken(code[fn].code[i]) <= s.height
            /\ WellShaped(Rest(s, code[fn].code[i]))
    BY <1>4 DEF Allowed
  <1> QED BY <1>1, <1>3, <1>4, <1>5

\* Of the frame that runs, and of those that wait.
LEMMA ShapesWell ==
  ASSUME CodeInv, NEW f, f.fn \in DOMAIN code
  PROVE  (\A s \in Stands(f) : WellShaped(s)) /\ (\A r \in Waits(f) : WellShaped(r))
  <1>1. \A s \in Stands(f) : WellShaped(s)
    BY CodeFacts DEF Stands, ShapesAt
  <1>2. \A r \in Waits(f) : WellShaped(r)
    BY CodeFacts DEF Waits, ShapesAt
  <1> QED BY <1>1, <1>2

\* A frame of a state.
LEMMA FrameFacts ==
  ASSUME ValuesInv, NEW k \in DOMAIN frames
  PROVE  /\ k \in Nat /\ k \in 1 .. Len(frames) /\ Len(frames) \in Nat
         /\ frames[k].fn \in DOMAIN code /\ frames[k].ip \in Nat
         /\ frames[k].base \in Nat \ {0} /\ frames[k].base \in Nat
         /\ frames[k].up \in UpvaluesOf(frames[k].fn)
  BY DEF ValuesInv, FrameSet

SlotsNat == \A u \in openUpvalues : u \in DOMAIN upvalues /\ upvalues[u].slot \in Nat

\* Open upvalues are of slots, which are natural numbers.
LEMMA SlotNat == ValuesInv => SlotsNat
  <1> SUFFICES ASSUME ValuesInv
               PROVE  SlotsNat
    OBVIOUS
  <1>1. upvalues \in Seq(UpvalueSet) /\ openUpvalues \subseteq DOMAIN upvalues
    BY DEF ValuesInv
  <1>2. \A u \in DOMAIN upvalues : upvalues[u] \in UpvalueSet
    BY <1>1
  <1> QED BY <1>1, <1>2 DEF UpvalueSet, SlotsNat

\* A step that leaves the m-th frame innermost, those below it as they are, and
\* it in a shape of its function where it goes on.
LEMMA Lands ==
  ASSUME CodeInv, ValuesInv, ShapesInv, UNCHANGED loaded, ValuesInv',
         NEW m \in DOMAIN frames, Len(frames') = m,
         \A j \in 1 .. m - 1 : frames'[j] = frames[j],
         frames'[m].base = frames[m].base,
         \A p \in 1 .. frames[m].base - 1 :
            stack'[p] = stack[p] \/ \E u \in openUpvalues : upvalues[u].slot = p,
         \A u \in openUpvalues' : upvalues'[u].slot < frames[m].base =>
            u \in openUpvalues /\ upvalues'[u].slot = upvalues[u].slot,
         \A u \in openUpvalues' : upvalues'[u].slot \in 1 .. Len(stack'),
         \A k \in 1 .. m - 1 : \A n \in Nat :
            /\ PointOf(catchPoints', n, k) <=> PointOf(catchPoints, n, k)
            /\ PointOf(catchPoints, n, k) => catchPoints'[n] = catchPoints[n],
         NEW fn, NEW ip, frames'[m].fn = fn, frames'[m].ip = ip, ip \in DOMAIN code[fn].code,
         NEW t, t \in ShapesAt(fn, ip),
         Holds(stack', upvalues', openUpvalues', catchPoints', m, frames[m].base, t, Len(stack') + 1)
  PROVE  FramesInv'
  <1>1. code' = code /\ program' = program
    BY DEF loaded
  <1>2. /\ m \in Nat /\ m \in 1 .. Len(frames) /\ Len(frames) \in Nat /\ m # 0
        /\ frames[m].base \in Nat
    BY FrameFacts
  <1>3. DOMAIN frames' = 1 .. m /\ DOMAIN frames = 1 .. Len(frames)
    BY <1>2 DEF ValuesInv
  <1>4. Last(frames') = frames'[m] /\ frames' # <<>>
    BY <1>2, <1>3 DEF Last
  <1>5. \A j, k \in DOMAIN frames' : j < k => frames'[j].base < frames'[k].base
    <2>1. \A j \in 1 .. m : frames'[j].base = frames[j].base
      BY <1>2
    <2>2. \A j, k \in DOMAIN frames : j < k => frames[j].base < frames[k].base
      BY DEF ShapesInv, FramesInv
    <2> QED BY <1>2, <1>3, <2>1, <2>2
  <1>6. \E s \in Stands(Frame)' :
            Holds(stack', upvalues', openUpvalues', catchPoints', Len(frames'), Frame'.base, s,
                  Len(stack') + 1)
    <2>1. Frame' = frames'[m]
      BY <1>4 DEF Frame
    <2>2. t \in Stands(Frame)'
      BY <1>1, <2>1 DEF Stands, ShapesAt
    <2> QED BY <2>1, <2>2
  <1>7. ASSUME NEW k \in 1 .. Len(frames') - 1
        PROVE  \E r \in Waits(frames[k])' :
                  Holds(stack', upvalues', openUpvalues', catchPoints', k, frames'[k].base, r,
                        frames'[k + 1].base)
    <2>1. k \in 1 .. m - 1 /\ k \in DOMAIN frames /\ k + 1 \in DOMAIN frames /\ k \in 1 .. Len(frames) - 1
      BY <1>2, <1>3
    <2>2. PICK r \in Waits(frames[k]) :
             Holds(stack, upvalues, openUpvalues, catchPoints, k, frames[k].base, r, frames[k + 1].base)
      BY <2>1 DEF ShapesInv, FramesInv
    <2>3. frames'[k] = frames[k] /\ frames'[k + 1].base = frames[k + 1].base
      BY <1>2, <2>1
    <2>4. frames[k + 1].base <= frames[m].base
      <3>1. k + 1 = m \/ k + 1 < m
        BY <1>2, <2>1
      <3>2. \A i, j \in DOMAIN frames : i < j => frames[i].base < frames[j].base
        BY DEF ShapesInv, FramesInv
      <3> QED BY <1>2, <2>1, <3>1, <3>2, FrameFacts
    <2>5. Waits(frames[k])' = Waits(frames[k])
      BY <1>1, <2>3 DEF Waits
    <2>6. /\ frames[k].base \in Nat \ {0} /\ frames[k + 1].base \in Nat /\ frames[k].fn \in DOMAIN code
      BY <2>1, FrameFacts
    <2>7. WellShaped(r)
      BY <2>2, <2>6, ShapesWell
    <2>8. \A p \in Nat : frames[k].base <= p /\ p < frames[k + 1].base =>
             stack'[p] = stack[p] \/ \E u \in openUpvalues : upvalues[u].slot = p
      <3>1. \A p \in Nat : frames[k].base <= p /\ p < frames[k + 1].base => p \in 1 .. frames[m].base - 1
        BY <1>2, <2>4, <2>6
      <3> QED BY <3>1
    <2>9. \A u \in openUpvalues' : upvalues'[u].slot < frames[k + 1].base =>
             u \in openUpvalues /\ upvalues'[u].slot = upvalues[u].slot
      <3>1. \A u \in openUpvalues' : upvalues'[u].slot \in Nat
        <4>1. SlotsNat'
          BY SlotNat, PTL
        <4> QED BY <4>1 DEF SlotsNat
      <3> QED BY <1>2, <2>4, <2>6, <3>1
    <2>10. /\ \A n \in Nat : PointOf(catchPoints', n, k) <=> PointOf(catchPoints, n, k)
           /\ \A n \in Nat : PointOf(catchPoints, n, k) => catchPoints'[n] = catchPoints[n]
      BY <2>1
    <2>11. Holds(stack', upvalues', openUpvalues', catchPoints', k, frames[k].base, r, frames[k + 1].base)
      <3>1. frames[k].base \in Nat
        BY <2>6
      <3> QED BY <2>2, <2>7, <2>8, <2>9, <2>10, <3>1, KeepsShape, SMTT(60)
    <2> QED BY <2>2, <2>3, <2>5, <2>11
  <1> QED BY <1>5, <1>6, <1>7 DEF FramesInv

-----------------------------------------------------------------------------
(* Values.                                                                 *)

\* Sequences over a larger set.
LEMMA SeqGrows ==
  ASSUME NEW S, NEW T, S \subseteq T
  PROVE  Seq(S) \subseteq Seq(T)
  OBVIOUS

\* What stays safe when functions are the same, and upvalues and objects may be
\* more.
LEMMA SafeGrows ==
  ASSUME code' = code, DOMAIN upvalues \subseteq DOMAIN upvalues',
         DOMAIN objects \subseteq DOMAIN objects',
         \A k \in DOMAIN objects : objects'[k].is = objects[k].is
  PROVE  /\ Safe \subseteq Safe' /\ Closures \subseteq Closures'
         /\ \A fn : UpvaluesOf(fn) \subseteq UpvaluesOf(fn)'
         /\ FrameSet \subseteq FrameSet' /\ UpvalueSet \subseteq UpvalueSet'
         /\ Members(Safe) \subseteq Members(Safe)' /\ Members(Closures) \subseteq Members(Closures)'
         /\ Objects \subseteq Objects'
  <1>1. \A fn : UpvaluesOf(fn) \subseteq UpvaluesOf(fn)'
    BY DEF UpvaluesOf
  <1>n. Names' = Names
    BY DEF Names
  <1>2. Safe \subseteq Safe'
    BY <1>1, <1>n DEF Safe, Vals
  <1>3. Closures \subseteq Closures'
    BY <1>2 DEF Closures
  <1>4. FrameSet \subseteq FrameSet'
    BY <1>1 DEF FrameSet
  <1>5. UpvalueSet \subseteq UpvalueSet'
    BY <1>2 DEF UpvalueSet
  <1>6. Members(Safe) \subseteq Members(Safe)'
    BY <1>2, <1>n DEF Members
  <1>7. Members(Closures) \subseteq Members(Closures)'
    BY <1>3, <1>n DEF Members
  <1>8. Objects \subseteq Objects'
    BY <1>3, <1>6, <1>7, <1>n DEF Objects
  <1> QED BY <1>1, <1>2, <1>3, <1>4, <1>5, <1>6, <1>7, <1>8

\* A value that is neither a function nor refers to an object.
LEMMA PlainSafe ==
  ASSUME NEW is \in Tags \ {"closure", "native"}, is \notin References, NEW of \in Names
  PROVE  Value(is, of) \in Safe /\ Value(is, of).is = is
  <1>1. <<>> \in Seq(Nat)
    OBVIOUS
  <1>2. Value(is, of) \in Vals /\ Value(is, of).is = is
    BY <1>1 DEF Value, Vals
  <1> QED BY <1>2 DEF Safe

\* The values that need no object, function or upvalue.
LEMMA ConstantsSafe ==
  /\ None \in Safe /\ Undefined \in Safe /\ Error \in Safe
  /\ \A b : Bool(b) \in Safe
  /\ \A name \in Names : Value("const", name) \in Safe
  /\ Value("iterator", "__iter__") \in Safe
  <1>n. {"", "true", "false", "e", "__iter__"} \subseteq Names
    BY DEF Names
  <1>t. {"none", "undefined", "bool", "const", "iterator"} \subseteq Tags \ ({"closure", "native"} \cup References)
    BY DEF Tags, References
  <1>1. \A b : Bool(b) \in Safe
    <2> TAKE b
    <2>1. Value("bool", "true") \in Safe /\ Value("bool", "false") \in Safe
      BY <1>n, <1>t, PlainSafe
    <2> QED BY <2>1 DEF Bool
  <1>2. \A name \in Names : Value("const", name) \in Safe
    BY <1>n, <1>t, PlainSafe
  <1>3. Value("iterator", "__iter__") \in Safe
    BY <1>n, <1>t, PlainSafe
  <1>4. None \in Safe
    BY <1>n, <1>t, PlainSafe DEF None
  <1>5. Undefined \in Safe
    BY <1>n, <1>t, PlainSafe DEF Undefined
  <1> QED BY <1>1, <1>2, <1>3, <1>4, <1>5, <1>n DEF Error

\* What is read from the stack.
LEMMA StackSafe ==
  ASSUME ValuesInv
  PROVE  /\ Len(stack) \in Nat /\ DOMAIN stack = 1 .. Len(stack)
         /\ \A k \in DOMAIN stack : stack[k] \in Safe
         /\ \A k : Get(stack, k) \in Safe
         /\ Top \in Safe /\ (stack # <<>> => Top = stack[Len(stack)])
         /\ stack # <<>> <=> Len(stack) # 0
  <1>1. stack \in Seq(Safe)
    BY DEF ValuesInv
  <1>2. Len(stack) \in Nat /\ DOMAIN stack = 1 .. Len(stack) /\ \A k \in DOMAIN stack : stack[k] \in Safe
    BY <1>1
  <1>3. \A k : Get(stack, k) \in Safe
    BY <1>2, ConstantsSafe DEF Get
  <1>4. stack # <<>> <=> Len(stack) # 0
    BY <1>1
  <1>5. stack # <<>> => Top = stack[Len(stack)] /\ Len(stack) \in DOMAIN stack
    BY <1>2, <1>4 DEF Top, Last
  <1>6. Top \in Safe
    BY <1>2, <1>5, ConstantsSafe DEF Top
  <1> QED BY <1>2, <1>3, <1>4, <1>5, <1>6

\* The stack with its top n values dropped.
LEMMA DropSafe ==
  ASSUME ValuesInv, NEW n \in 0 .. Len(stack)
  PROVE  /\ Drop(n) \in Seq(Safe) /\ Len(Drop(n)) = Len(stack) - n
         /\ Truncate(stack, n) \in Seq(Safe) /\ Len(Truncate(stack, n)) = n
         /\ \A k \in 1 .. Len(stack) - n : Drop(n)[k] = stack[k]
         /\ \A k \in 1 .. n : Truncate(stack, n)[k] = stack[k]
         /\ stack # <<>> => Popped(stack) = Drop(1)
         /\ Len(stack) > 1 => Popped(Popped(stack)) = Drop(2)
  <1>1. stack \in Seq(Safe) /\ Len(stack) \in Nat
    BY StackSafe DEF ValuesInv
  <1>2. \A i \in 0 .. Len(stack) : Truncate(stack, i) = SubSeq(stack, 1, i)
    BY <1>1 DEF Truncate
  <1>3. Drop(n) = SubSeq(stack, 1, Len(stack) - n)
    BY <1>1, <1>2 DEF Drop
  <1>4. stack # <<>> => Popped(stack) = Drop(1)
    BY <1>1, <1>2 DEF Popped, Front, Drop
  <1>5. Len(stack) > 1 => Popped(Popped(stack)) = Drop(2)
    <2> SUFFICES ASSUME Len(stack) > 1
                 PROVE  Popped(Popped(stack)) = Drop(2)
      OBVIOUS
    <2>1. Popped(stack) = SubSeq(stack, 1, Len(stack) - 1)
      BY <1>1 DEF Popped, Front
    <2>2. Len(Popped(stack)) = Len(stack) - 1 /\ Popped(stack) # <<>>
      <3>1. Len(stack) - 1 \in 0 .. Len(stack)
        BY <1>1
      <3>2. Len(Popped(stack)) = Len(stack) - 1
        BY <1>1, <2>1, <3>1, CutSeq
      <3>3. Len(<<>>) = 0
        OBVIOUS
      <3> QED BY <1>1, <3>2, <3>3
    <2>3. Popped(Popped(stack)) = SubSeq(Popped(stack), 1, Len(Popped(stack)) - 1)
      <3> DEFINE q == Popped(stack)
      <3>1. q # <<>>
        BY <2>2
      <3> HIDE DEF q
      <3>2. Popped(q) = SubSeq(q, 1, Len(q) - 1)
        BY <3>1 DEF Popped, Front
      <3> QED BY <3>2 DEF q
    <2>4. SubSeq(SubSeq(stack, 1, Len(stack) - 1), 1, Len(stack) - 2) = SubSeq(stack, 1, Len(stack) - 2)
      BY <1>1
    <2>5. Drop(2) = SubSeq(stack, 1, Len(stack) - 2)
      BY <1>1, <1>2 DEF Drop
    <2> QED BY <1>1, <2>1, <2>2, <2>3, <2>4, <2>5
  <1>6. n \in 0 .. Len(stack) /\ Len(stack) - n \in 0 .. Len(stack)
    BY <1>1
  <1>7. /\ Drop(n) \in Seq(Safe) /\ Len(Drop(n)) = Len(stack) - n
        /\ \A k \in 1 .. Len(stack) - n : Drop(n)[k] = stack[k]
    BY <1>1, <1>3, <1>6, CutSeq
  <1>8. /\ Truncate(stack, n) \in Seq(Safe) /\ Len(Truncate(stack, n)) = n
        /\ \A k \in 1 .. n : Truncate(stack, n)[k] = stack[k]
    BY <1>1, <1>2, <1>6, CutSeq
  <1> QED BY <1>4, <1>5, <1>7, <1>8

-----------------------------------------------------------------------------
(* The frame that runs, and steps that stay in it.                         *)

IInv == CodeInv /\ ValuesInv /\ RunInv /\ ShapesInv

\* s is a shape the frame that runs has.
StandsAs(s) ==
    /\ Frame.ip \in DOMAIN Function.code /\ s \in ShapesAt(Frame.fn, Frame.ip)
    /\ Holds(stack, upvalues, openUpvalues, catchPoints, Len(frames), Frame.base, s, Len(stack) + 1)

\* While the fiber runs, its last frame stands as the check of the code expects.
LEMMA Running ==
  ASSUME IInv, outcome = "running"
  PROVE  /\ frames \in Seq(FrameSet) /\ frames # <<>>
         /\ Len(frames) \in Nat \ {0} /\ Len(frames) \in DOMAIN frames /\ DOMAIN frames = 1 .. Len(frames)
         /\ Frame = frames[Len(frames)] /\ Frame \in FrameSet
         /\ Frame.fn \in DOMAIN code /\ Frame.ip \in Nat /\ Frame.base \in Nat \ {0}
         /\ Frame.up \in UpvaluesOf(Frame.fn)
         /\ \E s : StandsAs(s)
  <1>1. frames \in Seq(FrameSet) /\ frames # <<>>
    BY DEF IInv, ValuesInv, RunInv
  <1>2. /\ Len(frames) \in Nat \ {0} /\ Len(frames) \in DOMAIN frames /\ DOMAIN frames = 1 .. Len(frames)
        /\ Frame = frames[Len(frames)] /\ Frame \in FrameSet
    BY <1>1 DEF Frame, Last
  <1>3. /\ Frame.fn \in DOMAIN code /\ Frame.ip \in Nat /\ Frame.base \in Nat \ {0}
        /\ Frame.up \in UpvaluesOf(Frame.fn)
    BY <1>2 DEF FrameSet
  <1>4. \E s : StandsAs(s)
    BY <1>1 DEF IInv, ShapesInv, FramesInv, Stands, StandsAs, ShapesAt, Function
  <1> QED BY <1>1, <1>2, <1>3, <1>4

\* The operands of the instruction that runs.
LEMMA InstructionFacts ==
  ASSUME IInv, outcome = "running", Frame.ip \in DOMAIN Function.code
  PROVE  /\ Instruction.arg \in Nat /\ Instruction.name \in Names
         /\ Instruction = code[Frame.fn].code[Frame.ip]
  <1>1. Frame.fn \in DOMAIN code /\ CodeInv
    BY Running DEF IInv
  <1>2. Instruction = code[Frame.fn].code[Frame.ip]
    BY DEF Instruction, Function
  <1>3. code[Frame.fn].code \in Seq(Instructions)
    BY <1>1, CodeFacts DEF WellFormed
  <1>4. Frame.ip \in DOMAIN code[Frame.fn].code
    BY DEF Function
  <1>5. Instruction.arg \in Nat
    <2>1. \A i \in DOMAIN code[Frame.fn].code : code[Frame.fn].code[i] \in Instructions
      BY <1>3
    <2> QED BY <1>2, <1>4, <2>1 DEF Instructions
  <1>6. Instruction.name \in Names
    <2>1. Instruction.name \in {code[Frame.fn].code[i].name : i \in DOMAIN code[Frame.fn].code}
      BY <1>2, <1>4
    <2>2. Instruction.name \in
             UNION {{code[fn].code[i].name : i \in DOMAIN code[fn].code} : fn \in DOMAIN code}
      BY <1>1, <2>1
    <2> QED BY <2>2 DEF Names
  <1> QED BY <1>2, <1>5, <1>6

\* What the check of the code has accepted of the shape the frame stands in: the
\* instruction may run there, and all it can lead to are shapes of the function.
LEMMA StandingFacts ==
  ASSUME IInv, outcome = "running", NEW s, StandsAs(s)
  PROVE  /\ WellShaped(s) /\ s.height \in Nat \ {0} /\ Frame.base + s.height = Len(stack) + 1
         /\ Allowed(code, Function, Frame.ip, s)
         /\ Taken(Instruction) <= s.height /\ WellShaped(Rest(s, Instruction))
         /\ \A q \in Flow(code, Log, Function, Frame.ip, s) :
               q[1] \in DOMAIN Function.code /\ q[1] \in Nat /\ q[2] \in ShapesAt(Frame.fn, q[1])
                 /\ WellShaped(q[2])
         /\ Instruction.arg \in Nat /\ Instruction.name \in Names
         /\ Len(stack) \in Nat /\ Len(stack) # 0 /\ stack # <<>>
  <1>1. Frame.fn \in DOMAIN code /\ Frame.base \in Nat \ {0} /\ CodeInv /\ ValuesInv
    BY Running DEF IInv
  <1>2. Frame.ip \in DOMAIN Function.code /\ s \in ShapesAt(Frame.fn, Frame.ip)
    BY DEF StandsAs
  <1>3. /\ WellShaped(s) /\ Allowed(code, Function, Frame.ip, s)
        /\ Taken(Instruction) <= s.height /\ WellShaped(Rest(s, Instruction))
        /\ \A q \in Flow(code, Log, Function, Frame.ip, s) :
              q[1] \in DOMAIN Function.code /\ q[2] \in ShapesAt(Frame.fn, q[1])
    BY <1>1, <1>2, CodeFacts DEF Function, Instruction
  <1>4. \A i \in DOMAIN Function.code : i \in Nat /\ \A t \in ShapesAt(Frame.fn, i) : WellShaped(t)
    BY <1>1, CodeFacts DEF Function
  <1>5. s.height \in Nat \ {0}
    BY <1>3 DEF WellShaped, AllShapes
  <1>6. Frame.base + s.height = Len(stack) + 1
    BY DEF StandsAs, Holds
  <1>7. Len(stack) \in Nat /\ (stack # <<>> <=> Len(stack) # 0)
    BY <1>1, StackSafe
  <1>8. Instruction.arg \in Nat /\ Instruction.name \in Names
    BY <1>2, InstructionFacts
  <1> QED BY <1>1, <1>3, <1>4, <1>5, <1>6, <1>7, <1>8

\* The frames, with the last one at another ip.
LEMMA AtFrames ==
  ASSUME IInv, outcome = "running", NEW ip \in Nat
  PROVE  /\ At(frames, ip) \in Seq(FrameSet) /\ Len(At(frames, ip)) = Len(frames)
         /\ \A j \in 1 .. Len(frames) - 1 : At(frames, ip)[j] = frames[j]
         /\ At(frames, ip)[Len(frames)] = [Frame EXCEPT !.ip = ip]
         /\ [Frame EXCEPT !.ip = ip].fn = Frame.fn /\ [Frame EXCEPT !.ip = ip].base = Frame.base
         /\ [Frame EXCEPT !.ip = ip].ip = ip /\ [Frame EXCEPT !.ip = ip] \in FrameSet
  <1>1. frames \in Seq(FrameSet) /\ Len(frames) \in 1 .. Len(frames) /\ Len(frames) \in Nat
    BY Running
  <1>2. Frame \in FrameSet /\ Frame = frames[Len(frames)]
    BY Running
  <1>3. /\ [Frame EXCEPT !.ip = ip].fn = Frame.fn /\ [Frame EXCEPT !.ip = ip].base = Frame.base
        /\ [Frame EXCEPT !.ip = ip].ip = ip /\ [Frame EXCEPT !.ip = ip] \in FrameSet
    BY <1>2 DEF FrameSet
  <1>4. At(frames, ip) = [frames EXCEPT ![Len(frames)] = [Frame EXCEPT !.ip = ip]]
    BY <1>2 DEF At
  <1> HIDE DEF FrameSet
  <1>5. /\ At(frames, ip) \in Seq(FrameSet) /\ Len(At(frames, ip)) = Len(frames)
        /\ \A j \in 1 .. Len(frames) : At(frames, ip)[j] =
              IF j = Len(frames) THEN [Frame EXCEPT !.ip = ip] ELSE frames[j]
    BY <1>1, <1>3, <1>4, ExceptSeq
  <1> QED BY <1>1, <1>3, <1>5

\* The step goes on at ip in the same frame, in a shape that is expected there;
\* below the frame only captured slots change, and no upvalue is opened.
LEMMA Continues ==
  ASSUME IInv, outcome = "running", UNCHANGED <<loaded, catchPoints>>, ValuesInv',
         outcome' \in {"running", "suspended"},
         NEW ip \in DOMAIN Function.code, ip \in Nat, frames' = At(frames, ip),
         \A p \in 1 .. Frame.base - 1 :
            stack'[p] = stack[p] \/ \E u \in openUpvalues : upvalues[u].slot = p,
         \A u \in openUpvalues' : upvalues'[u].slot < Frame.base =>
            u \in openUpvalues /\ upvalues'[u].slot = upvalues[u].slot,
         \A u \in openUpvalues' : upvalues'[u].slot \in 1 .. Len(stack'),
         NEW t \in ShapesAt(Frame.fn, ip),
         Holds(stack', upvalues', openUpvalues', catchPoints, Len(frames), Frame.base, t, Len(stack') + 1)
  PROVE  IInv'
  <1>1. CodeInv /\ ValuesInv /\ ShapesInv /\ RunInv /\ code' = code /\ program' = program
    BY DEF IInv, loaded
  <1> DEFINE m == Len(frames)
  <1>2. /\ m \in DOMAIN frames /\ m \in Nat \ {0} /\ Frame = frames[m]
    BY Running
  <1>3. /\ Len(frames') = m /\ \A j \in 1 .. m - 1 : frames'[j] = frames[j]
        /\ frames'[m].base = frames[m].base /\ frames'[m].fn = Frame.fn /\ frames'[m].ip = ip
    <2>1. /\ Len(At(frames, ip)) = m /\ \A j \in 1 .. m - 1 : At(frames, ip)[j] = frames[j]
          /\ At(frames, ip)[m] = [Frame EXCEPT !.ip = ip]
      BY AtFrames
    <2>2. /\ [Frame EXCEPT !.ip = ip].fn = Frame.fn /\ [Frame EXCEPT !.ip = ip].base = Frame.base
          /\ [Frame EXCEPT !.ip = ip].ip = ip
      BY AtFrames
    <2> QED BY <1>2, <2>1, <2>2
  <1>4. ip \in DOMAIN code[Frame.fn].code /\ frames'[m].fn = Frame.fn /\ frames'[m].ip = ip
    BY <1>3 DEF Function
  <1>5. UNCHANGED loaded /\ catchPoints' = catchPoints
    OBVIOUS
  <1> HIDE DEF m
  <1>6. Holds(stack', upvalues', openUpvalues', catchPoints', m, frames[m].base, t, Len(stack') + 1)
    BY <1>2, <1>5 DEF m
  <1>7. FramesInv'
    <2>1. /\ \A p \in 1 .. frames[m].base - 1 :
                stack'[p] = stack[p] \/ \E u \in openUpvalues : upvalues[u].slot = p
          /\ \A u \in openUpvalues' : upvalues'[u].slot < frames[m].base =>
                u \in openUpvalues /\ upvalues'[u].slot = upvalues[u].slot
      BY <1>2
    <2>2. \A k \in 1 .. m - 1 : \A n \in Nat :
            /\ PointOf(catchPoints', n, k) <=> PointOf(catchPoints, n, k)
            /\ PointOf(catchPoints, n, k) => catchPoints'[n] = catchPoints[n]
      BY <1>5
    <2>3. m \in DOMAIN frames
      BY <1>2
    <2> QED BY <1>1, <1>3, <1>4, <1>5, <1>6, <2>1, <2>2, <2>3, Lands
  <1>8. DOMAIN frames' = DOMAIN frames /\ frames' # <<>>
    <2>1. DOMAIN frames' = 1 .. Len(frames')
      BY DEF ValuesInv
    <2>2. DOMAIN frames = 1 .. m
      BY Running DEF m
    <2> QED BY <1>2, <1>3, <2>1, <2>2
  <1>9. PointsInv'
    BY <1>1, <1>5, <1>8 DEF ShapesInv, PointsInv
  <1>10. CodeInv'
    BY <1>1 DEF CodeInv, FailPolicy
  <1>11. RunInv'
    BY <1>1, <1>3, <1>8 DEF RunInv, m
  <1> QED BY <1>7, <1>9, <1>10, <1>11 DEF IInv, ShapesInv

\* Open upvalues are of slots that are left when an instruction has taken its own.
LEMMA CapturedBelow ==
  ASSUME IInv, outcome = "running", NEW s, StandsAs(s), Instruction.op # "CloseUpvalue"
  PROVE  /\ Rest(s, Instruction) = Cut(s, s.height - Taken(Instruction))
         /\ \A u \in openUpvalues : /\ upvalues[u].slot \in Nat \ {0}
                                    /\ upvalues[u].slot < Frame.base + s.height - Taken(Instruction)
  <1>1. Rest(s, Instruction) = Cut(s, s.height - Taken(Instruction))
    BY DEF Rest
  <1>2. WellShaped(Cut(s, s.height - Taken(Instruction)))
    BY <1>1, StandingFacts
  <1>3. /\ s.height - Taken(Instruction) \in Nat \ {0}
        /\ \A slot \in s.captured : slot \in 1 .. s.height - Taken(Instruction) - 1
    BY <1>2 DEF WellShaped, AllShapes, Cut, Shape
  <1>4. ASSUME NEW u \in openUpvalues
        PROVE  /\ upvalues[u].slot \in Nat \ {0}
               /\ upvalues[u].slot < Frame.base + s.height - Taken(Instruction)
    <2>1. upvalues[u].slot \in 1 .. Len(stack) /\ Len(stack) \in Nat
      BY StandingFacts DEF IInv, ShapesInv, FramesInv
    <2>2. Frame.base <= upvalues[u].slot => upvalues[u].slot - Frame.base \in s.captured
      BY <2>1, <1>4 DEF StandsAs, Holds
    <2>3. Frame.base \in Nat \ {0} /\ s.height \in Nat
      BY Running, StandingFacts
    <2>4. Frame.base + (s.height - Taken(Instruction)) = Frame.base + s.height - Taken(Instruction)
      BY <1>3, <2>3
    <2> QED BY <1>3, <2>1, <2>2, <2>3
  <1> QED BY <1>1, <1>4

\* A step that takes what its instruction takes and leaves what it leaves.
LEMMA Falling ==
  ASSUME IInv, outcome = "running", NEW s, StandsAs(s),
         Instruction.op \notin {"Jump", "Loop", "Return"}, Instruction.op = "Fail" => Log
  PROVE  /\ Frame.ip + 1 \in DOMAIN Function.code /\ Frame.ip + 1 \in Nat
         /\ ShapeAfter(code, Frame.ip, s, Instruction) \in ShapesAt(Frame.fn, Frame.ip + 1)
         /\ WellShaped(ShapeAfter(code, Frame.ip, s, Instruction))
  <1> DEFINE q == <<Frame.ip + 1, ShapeAfter(code, Frame.ip, s, Instruction)>>
  <1>1. q \in Falls(code, Log, Frame.ip, s, Instruction)
    BY DEF Falls
  <1>2. q \in Flow(code, Log, Function, Frame.ip, s)
    BY <1>1 DEF Flow, Instruction
  <1> QED BY <1>2, StandingFacts


\* A step that only moves values leaves safe ones.
LEMMA Moves ==
  ASSUME IInv, outcome = "running", UNCHANGED <<loaded, elsewhere, upvalues, openUpvalues, catchPoints>>,
         NEW ip \in Nat, frames' = At(frames, ip), stack' \in Seq(Safe),
         globals' \in [GlobalNames -> Safe]
  PROVE  ValuesInv'
  <1>1. ValuesInv /\ code' = code /\ upvalues' = upvalues /\ objects' = objects
    BY DEF IInv, loaded, elsewhere
  <1>2. Safe \subseteq Safe' /\ FrameSet \subseteq FrameSet' /\ Closures \subseteq Closures'
    BY <1>1, SafeGrows
  <1>3. Objects' = Objects /\ UpvalueSet' = UpvalueSet /\ Safe' = Safe
    <2>1. Names' = Names
      BY <1>1 DEF Names
    <2>2. Safe' = Safe
      BY <1>1, <2>1 DEF Safe, Vals, UpvaluesOf
    <2>3. Closures' = Closures
      BY <2>2 DEF Closures
    <2>4. Members(Safe)' = Members(Safe) /\ Members(Closures)' = Members(Closures)
      BY <2>1, <2>2, <2>3 DEF Members
    <2>5. Objects' = Objects
      BY <1>1, <2>1, <2>2, <2>3, <2>4 DEF Objects
    <2> QED BY <2>2, <2>5 DEF UpvalueSet
  <1>4. frames' \in Seq(FrameSet')
    <2>1. At(frames, ip) \in Seq(FrameSet)
      BY AtFrames
    <2> QED BY <1>2, <2>1, SeqGrows
  <1>5. stack' \in Seq(Safe')
    BY <1>3
  <1>6. globals' \in [GlobalNames -> Safe']
    BY <1>3
  <1>7. catchPoints' \in CatchPoints /\ upvalues' \in Seq(UpvalueSet') /\ objects' \in Seq(Objects')
    BY <1>1, <1>3 DEF ValuesInv
  <1>8. others' = <<>> /\ openUpvalues' = {u \in DOMAIN upvalues' : upvalues'[u].open}
    BY <1>1 DEF ValuesInv, elsewhere
  <1>9. Shared'
    BY <1>1 DEF ValuesInv, Shared
  <1> QED BY <1>4, <1>5, <1>6, <1>7, <1>8, <1>9 DEF ValuesInv

\* Only the slots of upvalues matter to a shape.
LEMMA SameSlots ==
  ASSUME NEW st, NEW ups, NEW ups2, NEW open, NEW cps, NEW k, NEW base, NEW r, NEW end,
         Holds(st, ups, open, cps, k, base, r, end), \A u \in open : ups2[u].slot = ups[u].slot
  PROVE  Holds(st, ups2, open, cps, k, base, r, end)
  BY DEF Holds

\* Where the slots of a frame end when some are taken.
LEMMA SlotArithmetic ==
  ASSUME NEW base \in Nat \ {0}, NEW height \in Nat, NEW len \in Nat, NEW taken \in Nat,
         base + height = len + 1, taken <= height
  PROVE  /\ taken \in 0 .. len /\ len - taken = base + (height - taken) - 1
         /\ height - taken <= height /\ base + height - taken = base + (height - taken)
         /\ \A slot \in Nat \ {0} : slot < base + height - taken =>
                slot \in 1 .. base + (height - taken) - 1 /\ slot # base + (height - taken)
  OBVIOUS

\* What an instruction does not take.
LEMMA Rests ==
  ASSUME IInv, outcome = "running", NEW s, StandsAs(s), Instruction.op # "CloseUpvalue",
         NEW h, h = s.height - Taken(Instruction)
  PROVE  /\ h \in Nat \ {0} /\ h <= s.height /\ Taken(Instruction) \in 0 .. Len(stack)
         /\ Rest(s, Instruction) = Cut(s, h)
         /\ Cut(s, h).height = h /\ Cut(s, h).tries = s.tries /\ Cut(s, h).captured = s.captured
         /\ Len(stack) - Taken(Instruction) = Frame.base + h - 1
         /\ \A u \in openUpvalues : /\ upvalues[u].slot \in 1 .. Frame.base + h - 1
                                    /\ upvalues[u].slot \in Nat /\ upvalues[u].slot # Frame.base + h
  <1>1. /\ Rest(s, Instruction) = Cut(s, h) /\ WellShaped(Rest(s, Instruction))
        /\ \A u \in openUpvalues : /\ upvalues[u].slot \in Nat \ {0}
                                   /\ upvalues[u].slot < Frame.base + s.height - Taken(Instruction)
    BY CapturedBelow, StandingFacts
  <1>2. Cut(s, h).height = h /\ Cut(s, h).tries = s.tries /\ Cut(s, h).captured = s.captured
    BY DEF Cut, Shape
  <1>3. h \in Nat \ {0}
    BY <1>1, <1>2 DEF WellShaped, AllShapes
  <1>4. /\ Frame.base \in Nat \ {0} /\ s.height \in Nat /\ Len(stack) \in Nat
        /\ Frame.base + s.height = Len(stack) + 1 /\ Taken(Instruction) <= s.height /\ WellShaped(s)
    BY Running, StandingFacts
  <1>5. Taken(Instruction) \in Nat
    <2>1. Instruction.arg \in Nat
      BY StandingFacts
    <2> QED BY <2>1 DEF Taken
  <1>6. Taken(Instruction) \in 0 .. Len(stack) /\ Len(stack) - Taken(Instruction) = Frame.base + h - 1
        /\ h <= s.height
        /\ \A slot \in Nat \ {0} : slot < Frame.base + s.height - Taken(Instruction) =>
              slot \in 1 .. Frame.base + h - 1 /\ slot # Frame.base + h
    <2> DEFINE base == Frame.base
               height == s.height
               len == Len(stack)
               taken == Taken(Instruction)
    <2>1. /\ base \in Nat \ {0} /\ height \in Nat /\ len \in Nat /\ taken \in Nat
          /\ base + height = len + 1 /\ taken <= height /\ h = height - taken
      BY <1>4, <1>5
    <2> HIDE DEF base, height, len, taken
    <2>2. /\ taken \in 0 .. len /\ len - taken = base + h - 1 /\ h <= height
          /\ \A slot \in Nat \ {0} : slot < base + height - taken =>
                slot \in 1 .. base + h - 1 /\ slot # base + h
      BY <2>1, SlotArithmetic
    <2> QED BY <2>2 DEF base, height, len, taken
  <1>9. \A u \in openUpvalues : /\ upvalues[u].slot \in 1 .. Frame.base + h - 1
                                /\ upvalues[u].slot \in Nat /\ upvalues[u].slot # Frame.base + h
    BY <1>1, <1>6
  <1> QED BY <1>1, <1>2, <1>3, <1>6, <1>9

\* What an instruction does not take stays in its shape.
LEMMA Remains ==
  ASSUME IInv, outcome = "running", NEW s, StandsAs(s), Instruction.op # "CloseUpvalue",
         NEW h, h = s.height - Taken(Instruction),
         NEW st, \A p \in 1 .. Frame.base + h - 1 : st[p] = stack[p],
         NEW ups, \A u \in openUpvalues : ups[u].slot = upvalues[u].slot
  PROVE  Holds(st, ups, openUpvalues, catchPoints, Len(frames), Frame.base, Rest(s, Instruction),
               Frame.base + h)
  <1>1. /\ h \in Nat /\ h <= s.height /\ Rest(s, Instruction) = Cut(s, h)
        /\ \A u \in openUpvalues : upvalues[u].slot \in Nat
    BY Rests
  <1>2. Frame.base \in Nat \ {0} /\ WellShaped(s)
    BY Running, StandingFacts
  <1>3. Holds(stack, upvalues, openUpvalues, catchPoints, Len(frames), Frame.base, s, Len(stack) + 1)
    BY DEF StandsAs
  <1>4. Holds(st, upvalues, openUpvalues, catchPoints, Len(frames), Frame.base, Cut(s, h), Frame.base + h)
    BY <1>1, <1>2, <1>3, CutHolds, SMTT(60)
  <1> QED BY <1>1, <1>4, SameSlots

\* Open upvalues are of the slots they were of.
Kept == /\ openUpvalues' = openUpvalues
        /\ \A u \in openUpvalues : upvalues'[u].slot = upvalues[u].slot

\* A step that takes what its instruction takes, and leaves nothing.
LEMMA Pops ==
  ASSUME IInv, outcome = "running", NEW s, StandsAs(s),
         Instruction.op \notin Leaving \cup {"Jump", "Loop", "Return", "CloseUpvalue", "SetCatchPoint",
                                            "ClearCatchPoint", "SetLocal", "Closure"},
         UNCHANGED <<loaded, catchPoints>>, Kept, ValuesInv',
         outcome' \in {"running", "suspended"}, frames' = Next1, stack' = Drop(Taken(Instruction))
  PROVE  IInv'
  <1> DEFINE h == s.height - Taken(Instruction)
             t == ShapeAfter(code, Frame.ip, s, Instruction)
  <1>1. /\ Frame.ip + 1 \in DOMAIN Function.code /\ Frame.ip + 1 \in Nat
        /\ t \in ShapesAt(Frame.fn, Frame.ip + 1)
    BY Falling DEF Leaving, Throwing
  <1>2. t = Rest(s, Instruction)
    BY DEF ShapeAfter, Leaving
  <1>3. Taken(Instruction) \in 0 .. Len(stack) /\ Len(stack) - Taken(Instruction) = Frame.base + h - 1 /\ h \in Nat
    BY Rests
  <1>4. /\ Len(stack') = Frame.base + h - 1
        /\ \A k \in 1 .. Frame.base + h - 1 : stack'[k] = stack[k]
    BY <1>3, DropSafe DEF IInv
  <1>5. Frame.base \in Nat \ {0}
    BY Running
  <1>6. /\ Holds(stack', upvalues', openUpvalues', catchPoints, Len(frames), Frame.base, t, Len(stack') + 1)
        /\ \A u \in openUpvalues' : upvalues'[u].slot \in 1 .. Len(stack')
    <2>1. \A u \in openUpvalues : upvalues'[u].slot = upvalues[u].slot
      BY DEF Kept
    <2>2. Holds(stack', upvalues', openUpvalues, catchPoints, Len(frames), Frame.base,
                Rest(s, Instruction), Frame.base + h)
      BY <1>4, <2>1, Remains
    <2>4. \A u \in openUpvalues : upvalues'[u].slot \in 1 .. Frame.base + h - 1
      BY <2>1, Rests
    <2>3. Frame.base + h = Len(stack') + 1
      BY <1>3, <1>4, <1>5
    <2> QED BY <1>2, <1>4, <2>2, <2>3, <2>4 DEF Kept
  <1>7. \A p \in 1 .. Frame.base - 1 : stack'[p] = stack[p]
    BY <1>3, <1>4, <1>5
  <1>8. \A u \in openUpvalues' : u \in openUpvalues /\ upvalues'[u].slot = upvalues[u].slot
    BY DEF Kept
  <1> HIDE DEF t
  <1> QED BY <1>1, <1>6, <1>7, <1>8, Continues DEF Next1

\* A step that takes what its instruction takes, and leaves v.
LEMMA Leaves ==
  ASSUME IInv, outcome = "running", NEW s, StandsAs(s),
         Instruction.op \in Leaving, Instruction.op = "Fail" => Log,
         UNCHANGED <<loaded, catchPoints>>, Kept, ValuesInv',
         outcome' \in {"running", "suspended"}, frames' = Next1,
         NEW v, stack' = Append(Drop(Taken(Instruction)), v),
         \A kind \in KindsLeft(s, Instruction) : IsA(v, kind)
  PROVE  IInv'
  <1> DEFINE h == s.height - Taken(Instruction)
             t == ShapeAfter(code, Frame.ip, s, Instruction)
  <1>h. h = s.height - Taken(Instruction)
    OBVIOUS
  <1> HIDE DEF h
  <1>0. Instruction.op \notin {"Jump", "Loop", "Return", "CloseUpvalue", "SetCatchPoint",
                               "ClearCatchPoint", "SetLocal", "Closure"}
    BY DEF Leaving, Throwing, CallOps
  <1>1. /\ Frame.ip + 1 \in DOMAIN Function.code /\ Frame.ip + 1 \in Nat
        /\ t \in ShapesAt(Frame.fn, Frame.ip + 1)
    BY <1>0, Falling
  <1>2. t = Push(Rest(s, Instruction), KindsLeft(s, Instruction))
    BY <1>0 DEF ShapeAfter
  <1>3. Taken(Instruction) \in 0 .. Len(stack) /\ Len(stack) - Taken(Instruction) = Frame.base + h - 1 /\ h \in Nat
    BY <1>h, <1>0, Rests
  <1>4. /\ Len(stack') = Frame.base + h
        /\ \A k \in 1 .. Frame.base + h - 1 : stack'[k] = stack[k]
        /\ stack'[Frame.base + h] = v
    <2> DEFINE d == Drop(Taken(Instruction))
    <2>1. /\ d \in Seq(Safe) /\ Len(d) = Frame.base + h - 1
          /\ \A k \in 1 .. Frame.base + h - 1 : d[k] = stack[k]
      BY <1>3, DropSafe DEF IInv
    <2> HIDE DEF d
    <2>2. /\ Len(Append(d, v)) = Len(d) + 1 /\ \A k \in 1 .. Len(d) : Append(d, v)[k] = d[k]
          /\ Append(d, v)[Len(d) + 1] = v
      <3> DEFINE S == Safe \cup {v}
      <3>1. d \in Seq(S)
        BY <2>1, SeqGrows
      <3>2. v \in S
        OBVIOUS
      <3> HIDE DEF S
      <3> QED BY <3>1, <3>2, AppendSeq
    <2>3. stack' = Append(d, v)
      BY DEF d
    <2> DEFINE base == Frame.base
    <2>4. base \in Nat \ {0} /\ h \in Nat /\ Len(d) = base + h - 1
      BY <1>3, <2>1, Running
    <2>5. \A k \in 1 .. base + h - 1 : d[k] = stack[k]
      BY <2>1
    <2> HIDE DEF base
    <2>6. Len(d) + 1 = base + h
      BY ONLY <2>4
    <2>7. /\ Len(stack') = base + h /\ \A k \in 1 .. base + h - 1 : stack'[k] = stack[k]
          /\ stack'[base + h] = v
      BY ONLY <2>2, <2>3, <2>4, <2>5, <2>6
    <2> QED BY <2>7 DEF base
  <1>5. Frame.base \in Nat \ {0}
    BY Running
  <1>6. /\ Holds(stack', upvalues', openUpvalues', catchPoints, Len(frames), Frame.base, t, Len(stack') + 1)
        /\ \A u \in openUpvalues' : upvalues'[u].slot \in 1 .. Len(stack')
    <2>1. \A u \in openUpvalues : upvalues'[u].slot = upvalues[u].slot
      BY DEF Kept
    <2>2. Holds(stack', upvalues', openUpvalues, catchPoints, Len(frames), Frame.base,
                Rest(s, Instruction), Frame.base + h)
      <3>1. Instruction.op # "CloseUpvalue"
        BY <1>0
      <3>2. \A p \in 1 .. Frame.base + h - 1 : stack'[p] = stack[p]
        BY <1>4
      <3> QED BY <1>h, <3>1, <3>2, <2>1, Remains
    <2>9. \A u \in openUpvalues : /\ upvalues'[u].slot \in 1 .. Frame.base + h - 1
                                  /\ upvalues'[u].slot \in Nat /\ upvalues'[u].slot # Frame.base + h
      BY <1>h, <1>0, <2>1, Rests
    <2>3. KindsLeft(s, Instruction) \in SUBSET ValueKinds
      BY DEF KindsLeft, ValueKinds
    <2>4. WellShaped(Rest(s, Instruction))
      BY StandingFacts
    <2> DEFINE r == Rest(s, Instruction)
               kinds == KindsLeft(s, Instruction)
               end == Frame.base + h
    <2>5. /\ \A p \in 1 .. end - 1 : stack'[p] = stack'[p]
          /\ \A kind \in kinds : IsA(stack'[end], kind)
      BY <1>4
    <2> HIDE DEF r, kinds, end
    <2>6. Holds(stack', upvalues', openUpvalues, catchPoints, Len(frames), Frame.base, Push(r, kinds), end + 1)
      BY <1>5, <2>2, <2>3, <2>4, <2>5, <2>9, PushHolds DEF r, kinds, end
    <2>7. end + 1 = Len(stack') + 1
      BY <1>4 DEF end
    <2>8. \A u \in openUpvalues : upvalues'[u].slot \in 1 .. Len(stack')
      BY <1>3, <1>4, <1>5, <2>9
    <2> QED BY <1>2, <2>6, <2>7, <2>8 DEF Kept, r, kinds
  <1>7. \A p \in 1 .. Frame.base - 1 : stack'[p] = stack[p]
    <2>1. \A p \in 1 .. Frame.base - 1 : p \in 1 .. Frame.base + h - 1
      BY <1>3, <1>5
    <2> QED BY <1>4, <2>1
  <1>8. \A u \in openUpvalues' : u \in openUpvalues /\ upvalues'[u].slot = upvalues[u].slot
    BY DEF Kept
  <1> HIDE DEF t
  <1> QED BY <1>1, <1>6, <1>7, <1>8, Continues DEF Next1

\* A step that leaves the fiber as it is.
LEMMA Stays ==
  ASSUME IInv, UNCHANGED <<loaded, elsewhere, stack, frames, upvalues, openUpvalues, catchPoints, globals>>
  PROVE  CodeInv' /\ ValuesInv' /\ ShapesInv'
  <1>1. /\ program' = program /\ code' = code /\ others' = others /\ objects' = objects
        /\ stack' = stack /\ frames' = frames /\ upvalues' = upvalues
        /\ openUpvalues' = openUpvalues /\ catchPoints' = catchPoints /\ globals' = globals
    BY DEF loaded, elsewhere
  <1>2. CodeInv'
    BY <1>1 DEF IInv, CodeInv, FailPolicy
  <1>3. ValuesInv'
    <2>1. Names' = Names
      BY <1>1 DEF Names
    <2>2. Safe' = Safe
      BY <1>1, <2>1 DEF Safe, Vals, UpvaluesOf
    <2>3. Closures' = Closures /\ FrameSet' = FrameSet /\ UpvalueSet' = UpvalueSet
      BY <1>1, <2>2 DEF Closures, FrameSet, UpvaluesOf, UpvalueSet
    <2>4. Members(Safe)' = Members(Safe) /\ Members(Closures)' = Members(Closures)
      BY <2>1, <2>2, <2>3 DEF Members
    <2>5. Objects' = Objects
      BY <1>1, <2>1, <2>2, <2>3, <2>4 DEF Objects
    <2> QED BY <1>1, <2>2, <2>3, <2>5 DEF IInv, ValuesInv, Shared
  <1>4. ShapesInv'
    <2>1. Frame' = Frame
      BY <1>1 DEF Frame
    <2>2. Stands(Frame)' = Stands(Frame)
      BY <1>1, <2>1 DEF Stands
    <2>3. ASSUME NEW k
          PROVE  Waits(frames[k])' = Waits(frames[k])
      BY <1>1 DEF Waits
    <2>4. FramesInv'
      BY <1>1, <2>1, <2>2, <2>3 DEF IInv, ShapesInv, FramesInv
    <2>5. PointsInv'
      BY <1>1 DEF IInv, ShapesInv, PointsInv
    <2> QED BY <2>4, <2>5 DEF ShapesInv
  <1> QED BY <1>2, <1>3, <1>4

\* A fiber that ends with an error leaves all as it is.
LEMMA DyingKeeps ==
  ASSUME IInv, outcome = "running", Dies("error")
  PROVE  IInv'
  <1>1. CodeInv' /\ ValuesInv' /\ ShapesInv'
    BY Stays DEF Dies
  <1>2. RunInv'
    BY DEF Dies, IInv, RunInv
  <1> QED BY <1>1, <1>2 DEF IInv

\* Nothing dropped.
LEMMA DropNone ==
  ASSUME ValuesInv
  PROVE  Drop(0) = stack /\ (stack # <<>> => Append(Drop(1), Top) = stack)
  <1>1. stack \in Seq(Safe) /\ Len(stack) \in Nat
    BY StackSafe DEF ValuesInv
  <1>2. \A i \in 0 .. Len(stack) : Truncate(stack, i) = SubSeq(stack, 1, i)
    BY <1>1 DEF Truncate
  <1>3. Drop(0) = SubSeq(stack, 1, Len(stack)) /\ (stack # <<>> => Drop(1) = SubSeq(stack, 1, Len(stack) - 1))
    BY <1>1, <1>2 DEF Drop
  <1>4. stack # <<>> => Append(SubSeq(stack, 1, Len(stack) - 1), stack[Len(stack)]) = stack
    BY <1>1
  <1>5. SubSeq(stack, 1, Len(stack)) = stack
    BY <1>1
  <1>6. stack # <<>> => Top = stack[Len(stack)]
    BY StackSafe
  <1> QED BY <1>3, <1>4, <1>5, <1>6

Goes == outcome' \in {"running", "suspended"} /\ frames' = Next1
        /\ UNCHANGED <<loaded, elsewhere, upvalues, openUpvalues, catchPoints>>

\* A step that takes what its instruction takes and leaves a safe value.
LEMMA GoesLeaving ==
  ASSUME IInv, outcome = "running", NEW s, StandsAs(s),
         Instruction.op \in Leaving, Instruction.op = "Fail" => Log,
         Goes, globals' \in [GlobalNames -> Safe],
         NEW v \in Safe, stack' = Append(Drop(Taken(Instruction)), v),
         \A kind \in KindsLeft(s, Instruction) : IsA(v, kind)
  PROVE  IInv'
  <1>1. stack' \in Seq(Safe)
    <2>1. Taken(Instruction) \in 0 .. Len(stack)
      <3>1. Instruction.op # "CloseUpvalue"
        BY DEF Leaving, Throwing, CallOps
      <3> QED BY <3>1, Rests
    <2>2. Drop(Taken(Instruction)) \in Seq(Safe)
      BY <2>1, DropSafe DEF IInv
    <2> QED BY <2>2, AppendSeq
  <1>2. Frame.ip + 1 \in Nat
    BY Running
  <1>3. ValuesInv'
    BY <1>1, <1>2, Moves DEF Goes, Next1
  <1>4. Kept
    BY DEF Goes, Kept
  <1> QED BY <1>3, <1>4, Leaves DEF Goes

\* A step that takes what its instruction takes and leaves nothing.
LEMMA GoesPopping ==
  ASSUME IInv, outcome = "running",
         Instruction.op \notin Leaving \cup {"Jump", "Loop", "Return", "CloseUpvalue", "SetCatchPoint",
                                            "ClearCatchPoint", "SetLocal", "Closure"},
         Goes, globals' \in [GlobalNames -> Safe], stack' = Drop(Taken(Instruction))
  PROVE  IInv'
  <1>1. PICK s : StandsAs(s)
    BY Running
  <1>2. stack' \in Seq(Safe)
    <2>1. Taken(Instruction) \in 0 .. Len(stack)
      BY <1>1, Rests
    <2> QED BY <2>1, DropSafe DEF IInv
  <1>3. Frame.ip + 1 \in Nat
    BY Running
  <1>4. ValuesInv'
    BY <1>2, <1>3, Moves DEF Goes, Next1
  <1>5. Kept
    BY DEF Goes, Kept
  <1> QED BY <1>1, <1>4, <1>5, Pops DEF Goes

\* What Steps leaves alone.
LEMMA StepsGo ==
  ASSUME IInv, outcome = "running", NEW newStack, Steps(newStack)
  PROVE  Goes /\ globals' \in [GlobalNames -> Safe] /\ stack' = newStack /\ UNCHANGED globals
  BY DEF Steps, Goes, IInv, ValuesInv

\* No kind is known of what is left.
LEMMA StepsLeaving ==
  ASSUME IInv, outcome = "running",
         Instruction.op \in Leaving \ {"GetLocal", "GetIterator"}, Instruction.op = "Fail" => Log,
         NEW n, n = Taken(Instruction), NEW v \in Safe, Steps(Append(Drop(n), v))
  PROVE  IInv'
  <1>1. PICK s : StandsAs(s)
    BY Running
  <1>2. KindsLeft(s, Instruction) = {}
    BY DEF KindsLeft
  <1>3. Goes /\ globals' \in [GlobalNames -> Safe] /\ stack' = Append(Drop(n), v)
    BY StepsGo
  <1> QED BY <1>1, <1>2, <1>3, GoesLeaving

\* Steps that drop what the instruction takes.
LEMMA StepsPopping ==
  ASSUME IInv, outcome = "running",
         Instruction.op \notin Leaving \cup {"Jump", "Loop", "Return", "CloseUpvalue", "SetCatchPoint",
                                            "ClearCatchPoint", "SetLocal", "Closure"},
         NEW n, n = Taken(Instruction), Steps(Drop(n))
  PROVE  IInv'
  <1>1. Goes /\ globals' \in [GlobalNames -> Safe] /\ stack' = Drop(n)
    BY StepsGo
  <1> QED BY <1>1, GoesPopping

-----------------------------------------------------------------------------
(* Instructions that move values.                                          *)

\* What every handler finds: its instruction, with operands that can be read.
LEMMA RunsOp ==
  ASSUME IInv, NEW op, Executes(op)
  PROVE  /\ outcome = "running" /\ Instruction.op = op /\ ValuesInv
         /\ Instruction.arg \in Nat /\ Instruction.name \in Names
         /\ Drop(0) = stack /\ stack # <<>> /\ Append(Drop(1), Top) = stack /\ Popped(stack) = Drop(1)
  <1>1. outcome = "running" /\ Instruction.op = op /\ ValuesInv
    BY DEF Executes, IInv
  <1>2. PICK s : StandsAs(s)
    BY <1>1, Running
  <1>3. /\ Instruction.arg \in Nat /\ Instruction.name \in Names /\ stack # <<>>
        /\ Len(stack) \in Nat /\ Len(stack) # 0
    BY <1>1, <1>2, StandingFacts
  <1>4. Popped(stack) = Drop(1)
    <2>1. 1 \in 0 .. Len(stack)
      BY <1>3
    <2> QED BY <1>1, <1>3, <2>1, DropSafe
  <1> QED BY <1>1, <1>3, <1>4, DropNone

\* The invariant is kept by each handler: constants and the stack.
LEMMA ConstantKeeps == ASSUME IInv, PushConstant PROVE IInv'
  <1>1. Executes("Constant") /\ Steps(Append(stack, Value("const", Instruction.name)))
    BY DEF PushConstant
  <1>2. outcome = "running" /\ Instruction.op = "Constant" /\ Instruction.name \in Names /\ Drop(0) = stack
    BY <1>1, RunsOp
  <1>3. Taken(Instruction) = 0
    BY <1>2 DEF Taken, CallOps
  <1> QED BY <1>1, <1>2, <1>3, ConstantsSafe, StepsLeaving DEF Leaving

LEMMA NoneKeeps == ASSUME IInv, PushNone PROVE IInv'
  <1>1. Executes("None") /\ Steps(Append(stack, None))
    BY DEF PushNone
  <1>2. outcome = "running" /\ Instruction.op = "None" /\ Drop(0) = stack
    BY <1>1, RunsOp
  <1>3. Taken(Instruction) = 0
    BY <1>2 DEF Taken, CallOps
  <1> QED BY <1>1, <1>2, <1>3, ConstantsSafe, StepsLeaving DEF Leaving

LEMMA DupKeeps == ASSUME IInv, Dup PROVE IInv'
  <1>1. Executes("Dup") /\ Steps(Append(stack, Top))
    BY DEF Dup
  <1>2. outcome = "running" /\ Instruction.op = "Dup" /\ Drop(0) = stack /\ ValuesInv
    BY <1>1, RunsOp
  <1>3. Taken(Instruction) = 0
    BY <1>2 DEF Taken, CallOps
  <1>4. Top \in Safe
    BY <1>2, StackSafe
  <1> QED BY <1>1, <1>2, <1>3, <1>4, StepsLeaving DEF Leaving

LEMMA PopKeeps == ASSUME IInv, Pop PROVE IInv'
  <1>1. Executes("Pop") /\ Steps(Popped(stack))
    BY DEF Pop
  <1>2. outcome = "running" /\ Instruction.op = "Pop" /\ Popped(stack) = Drop(1)
    BY <1>1, RunsOp
  <1>3. Taken(Instruction) = 1
    BY <1>2 DEF Taken, CallOps
  <1> QED BY <1>1, <1>2, <1>3, StepsPopping DEF Leaving, Throwing, CallOps

\* Popping twice drops two values.
LEMMA TwoTaken ==
  ASSUME IInv, outcome = "running", Taken(Instruction) = 2, Instruction.op # "CloseUpvalue"
  PROVE  Popped(Popped(stack)) = Drop(2) /\ Len(stack) > 1
  <1>1. PICK s : StandsAs(s)
    BY Running
  <1>2. 2 \in 0 .. Len(stack) /\ Len(stack) - 2 = Frame.base + (s.height - 2) - 1 /\ s.height - 2 \in Nat \ {0}
    BY <1>1, Rests
  <1>3. Len(stack) > 1
    BY <1>1, <1>2, StandingFacts
  <1> QED BY <1>2, <1>3, DropSafe DEF IInv

LEMMA EqualKeeps == ASSUME IInv, Equal PROVE IInv'
  <1>1. PICK b : Steps(Append(Popped(Popped(stack)), Bool(b)))
    BY DEF Equal
  <1>2. outcome = "running" /\ Instruction.op = "Equal"
    BY RunsOp DEF Equal
  <1>3. Taken(Instruction) = 2
    BY <1>2 DEF Taken, CallOps
  <1>4. Popped(Popped(stack)) = Drop(2)
    BY <1>2, <1>3, TwoTaken
  <1>5. Bool(b) \in Safe
    BY ConstantsSafe
  <1> QED BY <1>1, <1>2, <1>3, <1>4, <1>5, StepsLeaving DEF Leaving

LEMMA ArithmeticKeeps ==
  ASSUME IInv, Arithmetic \/ Negate \/ Not \/ Compare
  PROVE  IInv'
  <1>0. "n" \in Names /\ ValuesInv
    BY DEF Names, IInv
  <1>1. outcome = "running" /\ Instruction.op \in {"Arithmetic", "Negate", "Not", "Compare"}
    BY DEF Arithmetic, Negate, Not, Compare, Executes
  <1>2. \/ Dies("error")
        \/ \E v \in Safe : Steps(Append(Drop(Taken(Instruction)), v))
    <2>1. CASE Arithmetic
      <3>1. Taken(Instruction) = 2
        BY <2>1 DEF Arithmetic, Executes, Taken, CallOps
      <3> QED BY <1>0, <2>1, <3>1, ConstantsSafe DEF Arithmetic
    <2>2. CASE Negate
      <3>1. Taken(Instruction) = 1
        BY <2>2 DEF Negate, Executes, Taken, CallOps
      <3> QED BY <1>0, <2>2, <3>1, ConstantsSafe DEF Negate
    <2>3. CASE Not
      <3>1. Taken(Instruction) = 1
        BY <2>3 DEF Not, Executes, Taken, CallOps
      <3> QED BY <2>3, <3>1, ConstantsSafe DEF Not
    <2>4. CASE Compare
      <3>1. Taken(Instruction) = 2
        BY <2>4 DEF Compare, Executes, Taken, CallOps
      <3> QED BY <2>4, <3>1, ConstantsSafe DEF Compare
    <2> QED BY <2>1, <2>2, <2>3, <2>4
  <1>3. Instruction.op \in Leaving \ {"GetLocal", "GetIterator"} /\ Instruction.op # "Fail"
    BY <1>1 DEF Leaving
  <1> QED BY <1>1, <1>2, <1>3, StepsLeaving, DyingKeeps

LEMMA AssertKeeps == ASSUME IInv, AssertOp \/ AssertCmp PROVE IInv'
  <1>1. outcome = "running" /\ Instruction.op \in {"AssertOp", "AssertCmp"}
    BY DEF AssertOp, AssertCmp, Executes
  <1>2. Dies("error") \/ Steps(Drop(Taken(Instruction)))
    <2>1. CASE AssertOp
      <3>1. Taken(Instruction) = 1 + Instruction.arg
        BY <1>1, <2>1, RunsOp DEF AssertOp, Executes, Taken, CallOps
      <3> QED BY <2>1, <3>1 DEF AssertOp
    <2>2. CASE AssertCmp
      <3>1. Taken(Instruction) = 2
        BY <2>2 DEF AssertCmp, Executes, Taken, CallOps
      <3> QED BY <2>2, <3>1 DEF AssertCmp
    <2> QED BY <2>1, <2>2
  <1>3. Instruction.op \notin Leaving \cup {"Jump", "Loop", "Return", "CloseUpvalue", "SetCatchPoint",
                                           "ClearCatchPoint", "SetLocal", "Closure"}
    BY <1>1 DEF Leaving, Throwing, CallOps
  <1> QED BY <1>1, <1>2, <1>3, StepsPopping, DyingKeeps

LEMMA CollectionKeeps ==
  ASSUME IInv, Build \/ BuildRange \/ GetIndex \/ SetIndex
  PROVE  IInv'
  <1>0. {"n", "list"} \subseteq Names /\ ValuesInv
    BY DEF Names, IInv
  <1>1. outcome = "running" /\ Instruction.op \in {"Build", "BuildRange", "GetIndex", "SetIndex"}
    BY DEF Build, BuildRange, GetIndex, SetIndex, Executes
  <1>2. \/ Dies("error")
        \/ \E v \in Safe : Steps(Append(Drop(Taken(Instruction)), v))
    <2>1. CASE Build
      <3>1. Taken(Instruction) = Instruction.arg /\ Instruction.name \in Names
        BY <2>1, RunsOp DEF Build, Executes, Taken, CallOps
      <3> QED BY <2>1, <3>1, ConstantsSafe DEF Build
    <2>2. CASE BuildRange
      <3>1. Taken(Instruction) = 2
        BY <2>2 DEF BuildRange, Executes, Taken, CallOps
      <3> QED BY <1>0, <2>2, <3>1, ConstantsSafe DEF BuildRange
    <2>3. CASE GetIndex
      <3>1. Taken(Instruction) = 2
        BY <2>3 DEF GetIndex, Executes, Taken, CallOps
      <3> QED BY <1>0, <2>3, <3>1, ConstantsSafe DEF GetIndex
    <2>4. CASE SetIndex
      <3>1. Taken(Instruction) = 3
        BY <2>4 DEF SetIndex, Executes, Taken, CallOps
      <3>2. Top \in Safe
        BY <1>0, StackSafe
      <3> QED BY <2>4, <3>1, <3>2 DEF SetIndex
    <2> QED BY <2>1, <2>2, <2>3, <2>4
  <1>3. Instruction.op \in Leaving \ {"GetLocal", "GetIterator"} /\ Instruction.op # "Fail"
    BY <1>1 DEF Leaving
  <1> QED BY <1>1, <1>2, <1>3, StepsLeaving, DyingKeeps

LEMMA GetLocalKeeps == ASSUME IInv, GetLocal PROVE IInv'
  <1>1. /\ outcome = "running" /\ Instruction.op = "GetLocal" /\ Drop(0) = stack /\ ValuesInv
        /\ Instruction.arg \in Nat
    BY RunsOp DEF GetLocal
  <1>2. PICK s : StandsAs(s)
    BY <1>1, Running
  <1> DEFINE v == Get(stack, Slot(Instruction.arg))
  <1>3. Taken(Instruction) = 0
    BY <1>1 DEF Taken, CallOps
  <1>4. v \in Safe
    BY <1>1, StackSafe
  <1>5. ASSUME NEW kind \in KindsLeft(s, Instruction)
        PROVE  IsA(v, kind)
    <2>1. <<Instruction.arg, kind>> \in s.known
      BY <1>1 DEF KindsLeft
    <2>2. Instruction.arg < s.height /\ IsA(stack[Frame.base + Instruction.arg], kind)
      <3>1. \A p \in s.known : p[1] < s.height /\ IsA(stack[Frame.base + p[1]], p[2])
        BY <1>1, <1>2, StandingFacts DEF WellShaped, StandsAs, Holds
      <3> QED BY <2>1, <3>1
    <2>3. Slot(Instruction.arg) \in DOMAIN stack
      <3>1. /\ Frame.base \in Nat \ {0} /\ s.height \in Nat /\ Frame.base + s.height = Len(stack) + 1
            /\ Len(stack) \in Nat /\ DOMAIN stack = 1 .. Len(stack)
        BY <1>1, <1>2, Running, StandingFacts, StackSafe
      <3> QED BY <1>1, <2>2, <3>1 DEF Slot
    <2> QED BY <2>2, <2>3 DEF Get, Slot
  <1>6. Goes /\ globals' \in [GlobalNames -> Safe] /\ stack' = Append(stack, v)
    BY <1>1, StepsGo DEF GetLocal
  <1> HIDE DEF v
  <1> QED BY <1>1, <1>2, <1>3, <1>4, <1>5, <1>6, GoesLeaving DEF Leaving

LEMMA GetGlobalKeeps == ASSUME IInv, GetGlobal PROVE IInv'
  <1>1. /\ outcome = "running" /\ Instruction.op = "GetGlobal" /\ Drop(0) = stack /\ ValuesInv
    BY RunsOp DEF GetGlobal
  <1>2. PICK s : StandsAs(s)
    BY <1>1, Running
  <1>3. Instruction.name \in GlobalNames
    BY <1>1, <1>2, StandingFacts DEF Allowed, Instruction
  <1>4. globals[Instruction.name] \in Safe
    BY <1>1, <1>3 DEF ValuesInv
  <1>5. Taken(Instruction) = 0
    BY <1>1 DEF Taken, CallOps
  <1>6. Dies("error") \/ Steps(Append(Drop(0), globals[Instruction.name]))
    BY <1>1 DEF GetGlobal
  <1> QED BY <1>1, <1>4, <1>5, <1>6, StepsLeaving, DyingKeeps DEF Leaving

LEMMA SetGlobalKeeps == ASSUME IInv, SetGlobal \/ DefineGlobal PROVE IInv'
  <1>1. /\ outcome = "running" /\ Instruction.op \in {"SetGlobal", "DefineGlobal"}
        /\ Drop(0) = stack /\ ValuesInv /\ Popped(stack) = Drop(1)
    BY RunsOp DEF SetGlobal, DefineGlobal
  <1>2. PICK s : StandsAs(s)
    BY <1>1, Running
  <1>3. Instruction.name \in GlobalNames
    BY <1>1, <1>2, StandingFacts DEF Allowed, Instruction
  <1>4. Top \in Safe
    BY <1>1, StackSafe
  <1>5. Instruction.op \notin Leaving \cup {"Jump", "Loop", "Return", "CloseUpvalue", "SetCatchPoint",
                                           "ClearCatchPoint", "SetLocal", "Closure"}
    BY <1>1 DEF Leaving, Throwing, CallOps
  <1>6. SUFFICES ASSUME ~Dies("error")
                 PROVE  IInv'
    BY <1>1, DyingKeeps
  <1>7. stack' = Drop(Taken(Instruction))
    BY <1>1, <1>6 DEF SetGlobal, DefineGlobal, Executes, Taken, CallOps
  <1>8. globals' = [globals EXCEPT ![Instruction.name] = Top]
    BY <1>6 DEF SetGlobal, DefineGlobal
  <1>9. globals' \in [GlobalNames -> Safe]
    BY <1>1, <1>3, <1>4, <1>8 DEF ValuesInv
  <1>10. Goes
    BY <1>1, <1>6 DEF SetGlobal, DefineGlobal, Goes
  <1> QED BY <1>1, <1>5, <1>7, <1>9, <1>10, GoesPopping

\* The upvalues of the function that runs.
LEMMA ReadSafe ==
  ASSUME IInv, outcome = "running"
  PROVE  \A k \in DOMAIN Frame.up : Frame.up[k] \in DOMAIN upvalues /\ ReadUpvalue(Frame.up[k]) \in Safe
  <1>1. ValuesInv /\ Frame.up \in UpvaluesOf(Frame.fn)
    BY Running DEF IInv
  <1>2. \A k \in DOMAIN Frame.up : Frame.up[k] \in DOMAIN upvalues
    BY <1>1 DEF UpvaluesOf
  <1>3. \A u \in DOMAIN upvalues : upvalues[u].value \in Safe
    <2>1. \A u \in DOMAIN upvalues : upvalues[u] \in UpvalueSet
      BY <1>1 DEF ValuesInv
    <2> QED BY <2>1 DEF UpvalueSet
  <1>4. \A k : Get(stack, k) \in Safe
    BY <1>1, StackSafe
  <1> QED BY <1>2, <1>3, <1>4 DEF ReadUpvalue

LEMMA GetUpvalueKeeps == ASSUME IInv, GetUpvalue PROVE IInv'
  <1>1. /\ outcome = "running" /\ Instruction.op = "GetUpvalue" /\ Drop(0) = stack
    BY RunsOp DEF GetUpvalue
  <1>2. Taken(Instruction) = 0
    BY <1>1 DEF Taken, CallOps
  <1>3. PICK v \in Safe : Steps(Append(Drop(0), v))
    <2>1. None \in Safe
      BY ConstantsSafe
    <2> QED BY <1>1, <2>1, ReadSafe DEF GetUpvalue
  <1> QED BY <1>1, <1>2, <1>3, StepsLeaving DEF Leaving

LEMMA IteratorKeeps == ASSUME IInv, GetIterator PROVE IInv'
  <1>1. outcome = "running" /\ Instruction.op = "GetIterator" /\ Popped(stack) = Drop(1)
    BY RunsOp DEF GetIterator
  <1>2. PICK s : StandsAs(s)
    BY <1>1, Running
  <1>3. Taken(Instruction) = 1
    BY <1>1 DEF Taken, CallOps
  <1>4. KindsLeft(s, Instruction) = {"iterator"}
    BY <1>1 DEF KindsLeft
  <1> DEFINE v == Value("iterator", "__iter__")
  <1>5. v \in Safe /\ IsA(v, "iterator")
    BY ConstantsSafe DEF IsA, Value
  <1>6. CASE Dies("error")
    BY <1>1, <1>6, DyingKeeps
  <1>7. CASE Steps(Append(Drop(1), v))
    <2>1. Goes /\ globals' \in [GlobalNames -> Safe] /\ stack' = Append(Drop(1), v)
      BY <1>1, <1>7, StepsGo
    <2> HIDE DEF v
    <2> QED BY <1>1, <1>2, <1>3, <1>4, <1>5, <2>1, GoesLeaving DEF Leaving
  <1> QED BY <1>1, <1>6, <1>7 DEF GetIterator

-----------------------------------------------------------------------------
(* Jumps.                                                                  *)

\* Cutting at the height leaves a shape whole.
LEMMA CutWhole ==
  ASSUME NEW s, WellShaped(s)
  PROVE  Cut(s, s.height) = s
  <1>1. s = Shape(s.height, s.tries, s.known, s.captured)
    BY DEF WellShaped, AllShapes, Shape
  <1>2. s.known = {p \in s.known : p[1] < s.height}
    BY DEF WellShaped
  <1> QED BY <1>1, <1>2 DEF Cut

\* To where the check of the code says.
LEMMA Jumping ==
  ASSUME IInv, outcome = "running", NEW s, StandsAs(s), NEW offset, NEW newStack, JumpTo(offset, newStack),
         NEW h \in Nat, h <= s.height,
         <<Frame.ip + 1 + offset, Cut(s, h)>> \in Jumps(Frame.ip, s, Instruction),
         newStack \in Seq(Safe), Len(newStack) = Frame.base + h - 1,
         \A k \in 1 .. Frame.base + h - 1 : newStack[k] = stack[k],
         \A u \in openUpvalues : upvalues[u].slot \in 1 .. Frame.base + h - 1
  PROVE  IInv'
  <1> DEFINE ip == Frame.ip + 1 + offset
             t == Cut(s, h)
  <1>1. ip \in DOMAIN Function.code /\ ip \in Nat /\ t \in ShapesAt(Frame.fn, ip)
    <2>1. <<ip, t>> \in Flow(code, Log, Function, Frame.ip, s)
      BY DEF Flow, Instruction
    <2>2. \A q \in Flow(code, Log, Function, Frame.ip, s) :
               q[1] \in DOMAIN Function.code /\ q[1] \in Nat /\ q[2] \in ShapesAt(Frame.fn, q[1])
      BY StandingFacts
    <2> HIDE DEF ip, t
    <2> QED BY <2>1, <2>2
  <1>2. /\ frames' = At(frames, ip) /\ stack' = newStack /\ outcome' = outcome /\ globals' = globals
        /\ UNCHANGED <<loaded, elsewhere, upvalues, openUpvalues, catchPoints>>
    BY DEF JumpTo, Jumped
  <1>3. Frame.base \in Nat \ {0} /\ WellShaped(s)
    BY Running, StandingFacts
  <1> HIDE DEF ip
  <1>4. ValuesInv'
    BY <1>1, <1>2, Moves DEF IInv, ValuesInv
  <1>5. Holds(stack', upvalues', openUpvalues', catchPoints, Len(frames), Frame.base, t, Len(stack') + 1)
    <2>1. Holds(stack, upvalues, openUpvalues, catchPoints, Len(frames), Frame.base, s, Len(stack) + 1)
      BY DEF StandsAs
    <2>2. Holds(stack', upvalues, openUpvalues, catchPoints, Len(frames), Frame.base, Cut(s, h), Frame.base + h)
      <3>1. \A u \in openUpvalues : upvalues[u].slot \in Nat
        BY SlotNat DEF IInv, SlotsNat
      <3>2. \A p \in 1 .. Frame.base + h - 1 : stack'[p] = stack[p]
        BY <1>2
      <3> QED BY <1>3, <2>1, <3>1, <3>2, CutHolds, SMTT(60)
    <2>4. Frame.base + h = Len(stack') + 1
      BY <1>2, <1>3
    <2> QED BY <1>2, <2>2, <2>4
  <1>6. \A p \in 1 .. Frame.base - 1 : stack'[p] = stack[p]
    <2>1. \A p \in 1 .. Frame.base - 1 : p \in 1 .. Frame.base + h - 1
      BY <1>3
    <2> QED BY <1>2, <2>1
  <1>7. \A u \in openUpvalues' : /\ u \in openUpvalues /\ upvalues'[u].slot = upvalues[u].slot
                                 /\ upvalues'[u].slot \in 1 .. Len(stack')
    BY <1>2
  <1>8. outcome' \in {"running", "suspended"} /\ UNCHANGED <<loaded, catchPoints>>
    BY <1>2
  <1> HIDE DEF t
  <1> QED BY <1>1, <1>2, <1>4, <1>5, <1>6, <1>7, <1>8, Continues

\* With the stack as it is.
LEMMA JumpsWhole ==
  ASSUME IInv, outcome = "running", NEW s, StandsAs(s), NEW offset,
         <<Frame.ip + 1 + offset, s>> \in Jumps(Frame.ip, s, Instruction), JumpTo(offset, stack)
  PROVE  IInv'
  <1>1. /\ s.height \in Nat /\ Len(stack) = Frame.base + s.height - 1
        /\ stack \in Seq(Safe)
    <2>1. s.height \in Nat /\ Frame.base \in Nat /\ Len(stack) \in Nat /\ Frame.base + s.height = Len(stack) + 1
      BY StandingFacts, Running
    <2> QED BY <2>1 DEF IInv, ValuesInv
  <1>2. \A u \in openUpvalues : upvalues[u].slot \in 1 .. Frame.base + s.height - 1
    BY <1>1 DEF IInv, ShapesInv, FramesInv
  <1> DEFINE h == s.height
  <1>3. /\ h \in Nat /\ h <= s.height
        /\ <<Frame.ip + 1 + offset, Cut(s, h)>> \in Jumps(Frame.ip, s, Instruction)
        /\ Len(stack) = Frame.base + h - 1
        /\ \A u \in openUpvalues : upvalues[u].slot \in 1 .. Frame.base + h - 1
    BY <1>1, <1>2, CutWhole, StandingFacts
  <1> HIDE DEF h
  <1> QED BY <1>1, <1>3, Jumping, SMTT(60)

\* A jump by nothing is a step to the next instruction.
LEMMA FallsWhole ==
  ASSUME IInv, outcome = "running", Taken(Instruction) = 0,
         Instruction.op \notin Leaving \cup {"Jump", "Loop", "Return", "CloseUpvalue", "SetCatchPoint",
                                            "ClearCatchPoint", "SetLocal", "Closure"},
         JumpTo(0, stack)
  PROVE  IInv'
  <1>1. Jumped(0) = Next1
    BY Running DEF Jumped, Next1
  <1>2. Drop(0) = stack
    BY DropNone DEF IInv
  <1>3. Steps(Drop(0))
    BY <1>1, <1>2 DEF JumpTo, Steps
  <1> QED BY <1>3, StepsPopping

LEMMA JumpKeeps ==
  ASSUME IInv, Jump \/ JumpIfFalse \/ JumpIfTrue \/ Loop
  PROVE  IInv'
  <1>1. /\ outcome = "running" /\ Instruction.op \in {"Jump", "JumpIfFalse", "JumpIfTrue", "Loop"}
        /\ Instruction.arg \in Nat
    BY RunsOp DEF Jump, JumpIfFalse, JumpIfTrue, Loop
  <1>2. PICK s : StandsAs(s)
    BY <1>1, Running
  <1>3. CASE JumpTo(0, stack) /\ Instruction.op \in {"JumpIfFalse", "JumpIfTrue"}
    <2>1. Taken(Instruction) = 0
      BY <1>3 DEF Taken, CallOps
    <2>2. Instruction.op \notin Leaving \cup {"Jump", "Loop", "Return", "CloseUpvalue", "SetCatchPoint",
                                             "ClearCatchPoint", "SetLocal", "Closure"}
      BY <1>3 DEF Leaving, Throwing, CallOps
    <2> QED BY <1>1, <1>3, <2>1, <2>2, FallsWhole
  <1>4. CASE JumpTo(Instruction.arg, stack) /\ Instruction.op # "Loop"
    <2>1. <<Frame.ip + 1 + Instruction.arg, s>> \in Jumps(Frame.ip, s, Instruction)
      BY <1>1, <1>4 DEF Jumps
    <2> QED BY <1>1, <1>2, <1>4, <2>1, JumpsWhole
  <1>5. CASE JumpTo(-Instruction.arg, stack) /\ Instruction.op = "Loop"
    <2>1. Frame.ip + 1 + (-Instruction.arg) = Frame.ip + 1 - Instruction.arg
      BY <1>1, Running
    <2>2. <<Frame.ip + 1 + (-Instruction.arg), s>> \in Jumps(Frame.ip, s, Instruction)
      BY <1>1, <1>5, <2>1 DEF Jumps
    <2> QED BY <1>1, <1>2, <1>5, <2>2, JumpsWhole
  <1> QED BY <1>1, <1>3, <1>4, <1>5 DEF Jump, JumpIfFalse, JumpIfTrue, Loop, Executes

\* What is known of the top of the stack.
LEMMA TopKnown ==
  ASSUME IInv, outcome = "running", NEW s, StandsAs(s), NEW kind, <<s.height - 1, kind>> \in s.known
  PROVE  IsA(Top, kind)
  <1>1. IsA(stack[Frame.base + (s.height - 1)], kind)
    BY DEF StandsAs, Holds
  <1>2. /\ Frame.base \in Nat /\ s.height \in Nat /\ Len(stack) \in Nat /\ Frame.base + s.height = Len(stack) + 1
        /\ stack # <<>>
    BY StandingFacts, Running
  <1>3. Frame.base + (s.height - 1) = Len(stack)
    BY <1>2
  <1>4. Top = stack[Len(stack)]
    BY <1>2, StackSafe DEF IInv
  <1> QED BY <1>1, <1>3, <1>4

LEMMA IteratorNextKeeps == ASSUME IInv, IteratorNext PROVE IInv'
  <1>1. /\ outcome = "running" /\ Instruction.op = "IteratorNext" /\ Instruction.arg \in Nat
        /\ Popped(stack) = Drop(1) /\ ValuesInv
    BY RunsOp DEF IteratorNext
  <1>2. PICK s : StandsAs(s)
    BY <1>1, Running
  <1>3. Taken(Instruction) = 1
    BY <1>1 DEF Taken, CallOps
  <1>4. Top.is = "iterator"
    <2>1. <<s.height - 1, "iterator">> \in s.known
      BY <1>1, <1>2, StandingFacts DEF Allowed, Instruction
    <2> QED BY <1>1, <1>2, <2>1, TopKnown DEF IsA
  <1>5. CASE Steps(Append(Drop(1), Value("const", "i")))
    <2>1. Value("const", "i") \in Safe
      BY ConstantsSafe DEF Names
    <2> QED BY <1>1, <1>3, <1>5, <2>1, StepsLeaving DEF Leaving
  <1>6. CASE JumpTo(Instruction.arg, Drop(1))
    <2> DEFINE h == s.height - 1
    <2>1. /\ h \in Nat /\ h <= s.height /\ 1 \in 0 .. Len(stack) /\ Rest(s, Instruction) = Cut(s, h)
          /\ Cut(s, h).height = h /\ Len(stack) - 1 = Frame.base + h - 1
          /\ \A u \in openUpvalues : upvalues[u].slot \in 1 .. Frame.base + h - 1
      BY <1>1, <1>2, <1>3, Rests
    <2>2. /\ Drop(1) \in Seq(Safe) /\ Len(Drop(1)) = Frame.base + h - 1
          /\ \A k \in 1 .. Frame.base + h - 1 : Drop(1)[k] = stack[k]
      BY <1>1, <2>1, DropSafe
    <2>3. <<Frame.ip + 1 + Instruction.arg, Cut(s, h)>> \in Jumps(Frame.ip, s, Instruction)
      BY <1>1, <2>1 DEF Jumps
    <2> HIDE DEF h
    <2> QED BY <1>1, <1>2, <1>6, <2>1, <2>2, <2>3, Jumping, SMTT(60)
  <1>7. \/ Steps(Append(Popped(stack), Value("const", "i")))
        \/ JumpTo(Instruction.arg, Popped(stack))
    <2>1. Top \notin NoObject
      <3>1. None.is = "none" /\ \A b : Bool(b).is = "bool"
        BY DEF None, Bool, Value
      <3> QED BY <1>4, <3>1 DEF NoObject
    <2> QED BY <1>4, <2>1 DEF IteratorNext
  <1> QED BY <1>1, <1>5, <1>6, <1>7

LEMMA CoalesceKeeps == ASSUME IInv, NoneCoalesce PROVE IInv'
  <1>1. /\ outcome = "running" /\ Instruction.op = "NoneCoalesce" /\ Popped(stack) = Drop(1)
    BY RunsOp DEF NoneCoalesce
  <1>2. PICK s : StandsAs(s)
    BY <1>1, Running
  <1>3. CASE Steps(Drop(1))
    <2>1. Taken(Instruction) = 1
      BY <1>1 DEF Taken, CallOps
    <2>2. Instruction.op \notin Leaving \cup {"Jump", "Loop", "Return", "CloseUpvalue", "SetCatchPoint",
                                             "ClearCatchPoint", "SetLocal", "Closure"}
      BY <1>1 DEF Leaving, Throwing, CallOps
    <2> QED BY <1>1, <1>3, <2>1, <2>2, StepsPopping
  <1>4. CASE JumpTo(Instruction.arg, stack)
    <2>1. <<Frame.ip + 1 + Instruction.arg, s>> \in Jumps(Frame.ip, s, Instruction)
      BY <1>1 DEF Jumps
    <2> QED BY <1>1, <1>2, <1>4, <2>1, JumpsWhole
  <1> QED BY <1>1, <1>3, <1>4 DEF NoneCoalesce

LEMMA YieldKeeps == ASSUME IInv, Yield \/ Wait PROVE IInv'
  <1>0. ValuesInv
    BY DEF IInv
  <1>1. CASE Yield
    <2>1. outcome = "running" /\ Instruction.op = "Yield" /\ Popped(stack) = Drop(1)
      BY <1>1, RunsOp DEF Yield
    <2>2. Taken(Instruction) = 1
      BY <2>1 DEF Taken, CallOps
    <2>3. Instruction.op \notin Leaving \cup {"Jump", "Loop", "Return", "CloseUpvalue", "SetCatchPoint",
                                             "ClearCatchPoint", "SetLocal", "Closure"}
      BY <2>1 DEF Leaving, Throwing, CallOps
    <2>4. Goes /\ globals' \in [GlobalNames -> Safe] /\ stack' = Drop(1)
      BY <1>0, <1>1, <2>1 DEF Yield, Goes, ValuesInv
    <2> QED BY <2>1, <2>2, <2>3, <2>4, GoesPopping
  <1>2. CASE Wait
    <2>1. outcome = "running" /\ Instruction.op = "Wait" /\ Popped(stack) = Drop(1)
      BY <1>2, RunsOp DEF Wait
    <2>2. Taken(Instruction) = 1
      BY <2>1 DEF Taken, CallOps
    <2>3. SUFFICES ASSUME ~Dies("error")
                   PROVE  IInv'
      BY <2>1, DyingKeeps
    <2>4. Goes /\ globals' \in [GlobalNames -> Safe] /\ stack' = Append(Drop(1), None)
      BY <1>0, <1>2, <2>1, <2>3 DEF Wait, Goes, ValuesInv
    <2>5. PICK s : StandsAs(s)
      BY <2>1, Running
    <2>6. KindsLeft(s, Instruction) = {}
      BY <2>1 DEF KindsLeft
    <2>7. None \in Safe
      BY ConstantsSafe
    <2> QED BY <2>1, <2>2, <2>4, <2>5, <2>6, <2>7, GoesLeaving DEF Leaving
  <1> QED BY <1>1, <1>2

\* Resume, and the steps of programs that spawn fibers, which are not checked.
LEMMA FiberKeeps == ASSUME IInv, Resume \/ Switch \/ SpawnFiber PROVE IInv'
  <1>1. CASE Resume
    <2>1. CodeInv' /\ ValuesInv' /\ ShapesInv'
      BY <1>1, Stays DEF Resume
    <2>2. RunInv'
      BY <1>1 DEF Resume, IInv, RunInv
    <2> QED BY <2>1, <2>2 DEF IInv
  <1>2. CASE Switch
    <2>1. DOMAIN others = {}
      BY DEF IInv, ValuesInv
    <2> QED BY <1>2, <2>1 DEF Switch
  <1>3. CASE SpawnFiber
    <2>1. outcome = "running" /\ Instruction.op = "SpawnFiber"
      BY <1>3 DEF SpawnFiber, Executes
    <2>2. PICK s : StandsAs(s)
      BY <2>1, Running
    <2> QED BY <2>1, <2>2, StandingFacts DEF Allowed, Instruction
  <1> QED BY <1>1, <1>2, <1>3

LEMMA SetLocalKeeps == ASSUME IInv, SetLocal PROVE IInv'
  <1>1. /\ outcome = "running" /\ Instruction.op = "SetLocal" /\ Instruction.arg \in Nat /\ ValuesInv
    BY RunsOp DEF SetLocal
  <1>2. PICK s : StandsAs(s)
    BY <1>1, Running
  <1> DEFINE k == Slot(Instruction.arg)
             base == Frame.base
             t == ShapeAfter(code, Frame.ip, s, Instruction)
  <1>3. Instruction.arg < s.height
    BY <1>1, <1>2, StandingFacts DEF Allowed, Instruction
  <1>4. /\ base \in Nat \ {0} /\ s.height \in Nat /\ base + s.height = Len(stack) + 1
        /\ Len(stack) \in Nat /\ DOMAIN stack = 1 .. Len(stack) /\ WellShaped(s)
        /\ Top \in Safe /\ stack \in Seq(Safe)
    BY <1>1, <1>2, Running, StandingFacts, StackSafe DEF ValuesInv
  <1>5. k \in 1 .. Len(stack) /\ k = base + Instruction.arg
    BY <1>1, <1>3, <1>4 DEF Slot
  <1>6. Steps([stack EXCEPT ![k] = Top])
    BY <1>4, <1>5 DEF SetLocal
  <1>7. /\ Goes /\ outcome' = "running" /\ globals' \in [GlobalNames -> Safe]
        /\ stack' = [stack EXCEPT ![k] = Top]
    BY <1>1, <1>6, StepsGo DEF Steps
  <1> HIDE DEF k
  <1>8. /\ stack' \in Seq(Safe) /\ Len(stack') = Len(stack)
        /\ \A p \in 1 .. Len(stack) : p # k => stack'[p] = stack[p]
    BY <1>4, <1>5, <1>7, ExceptSeq
  <1>9. /\ Frame.ip + 1 \in DOMAIN Function.code /\ Frame.ip + 1 \in Nat /\ t \in ShapesAt(Frame.fn, Frame.ip + 1)
    BY <1>1, <1>2, Falling
  <1>10. ValuesInv'
    BY <1>1, <1>7, <1>8, <1>9, Moves DEF Goes, Next1
  <1>11. /\ t.height = s.height /\ t.tries = s.tries /\ t.captured = s.captured
         /\ t.known = {p \in s.known : p[1] < s.height /\ p[1] # Instruction.arg}
    <2>1. Taken(Instruction) = 0
      BY <1>1 DEF Taken, CallOps
    <2>2. Rest(s, Instruction) = Cut(s, s.height)
      BY <1>1, <1>4, <2>1 DEF Rest
    <2>3. t = Shape(s.height, s.tries, Forget(Cut(s, s.height), {Instruction.arg}), s.captured)
      <3> DEFINE r == Rest(s, Instruction)
      <3>1. t = Shape(r.height, r.tries, Forget(r, {Instruction.arg}), r.captured)
        BY <1>1 DEF ShapeAfter, Leaving, Throwing, CallOps
      <3>2. r.height = s.height /\ r.tries = s.tries /\ r.captured = s.captured
        BY <2>2 DEF Cut, Shape
      <3> QED BY <2>2, <3>1, <3>2
    <2> HIDE DEF t
    <2> QED BY <2>3 DEF Shape, Forget, Cut
  <1> HIDE DEF t
  <1>12. Holds(stack', upvalues', openUpvalues', catchPoints, Len(frames), base, t, Len(stack') + 1)
    <2>1. /\ \A p \in s.known : IsA(stack[base + p[1]], p[2])
          /\ \A u \in openUpvalues : base <= upvalues[u].slot /\ upvalues[u].slot < Len(stack) + 1 =>
                upvalues[u].slot - base \in s.captured
          /\ TriesStand(catchPoints, Len(frames), base, s.tries)
      BY <1>2 DEF StandsAs, Holds
    <2>2. ASSUME NEW p \in t.known
          PROVE  IsA(stack'[base + p[1]], p[2])
      <3>1. p \in s.known /\ p[1] < s.height /\ p[1] # Instruction.arg /\ p[1] \in Nat
        BY <1>4, <1>11 DEF WellShaped, AllShapes
      <3>2. base + p[1] \in 1 .. Len(stack) /\ base + p[1] # k
        BY <1>1, <1>4, <1>5, <3>1
      <3> QED BY <1>8, <2>1, <3>1, <3>2
    <2> QED BY <1>4, <1>7, <1>8, <1>11, <2>1, <2>2 DEF Holds, Goes
  <1>13. \A p \in 1 .. base - 1 : stack'[p] = stack[p]
    <2>1. \A p \in 1 .. base - 1 : p \in 1 .. Len(stack) /\ p # k
      BY <1>1, <1>4, <1>5
    <2> QED BY <1>8, <2>1
  <1>14. \A u \in openUpvalues' : /\ u \in openUpvalues /\ upvalues'[u].slot = upvalues[u].slot
                                  /\ upvalues'[u].slot \in 1 .. Len(stack')
    BY <1>7, <1>8 DEF Goes, IInv, ShapesInv, FramesInv
  <1> QED BY <1>1, <1>7, <1>9, <1>10, <1>12, <1>13, <1>14, Continues DEF Goes, Next1

-----------------------------------------------------------------------------
(* Upvalues.                                                               *)

\* A step of the frame that runs, with more upvalues or others.
LEMMA MovesUpvalues ==
  ASSUME IInv, outcome = "running", UNCHANGED <<loaded, elsewhere, catchPoints, globals>>,
         NEW ip \in Nat, frames' = At(frames, ip), stack' \in Seq(Safe'),
         upvalues' \in Seq(UpvalueSet'), DOMAIN upvalues \subseteq DOMAIN upvalues',
         openUpvalues' = {u \in DOMAIN upvalues' : upvalues'[u].open}, Shared'
  PROVE  ValuesInv'
  <1>1. ValuesInv /\ code' = code /\ objects' = objects
    BY DEF IInv, loaded, elsewhere
  <1>2. Safe \subseteq Safe' /\ FrameSet \subseteq FrameSet' /\ Objects \subseteq Objects'
    BY <1>1, SafeGrows
  <1>3. frames' \in Seq(FrameSet')
    <2>1. At(frames, ip) \in Seq(FrameSet)
      BY AtFrames
    <2> QED BY <1>2, <2>1, SeqGrows
  <1>4. objects' \in Seq(Objects')
    <2>1. objects \in Seq(Objects)
      BY <1>1 DEF ValuesInv
    <2> QED BY <1>1, <1>2, <2>1, SeqGrows
  <1>5. globals' \in [GlobalNames -> Safe']
    BY <1>1, <1>2 DEF ValuesInv
  <1>6. catchPoints' \in CatchPoints /\ others' = <<>>
    BY <1>1 DEF ValuesInv, elsewhere
  <1> QED BY <1>3, <1>4, <1>5, <1>6 DEF ValuesInv

\* Open upvalues are of slots of the stack.
LEMMA OpenOnStack ==
  ASSUME IInv, outcome = "running"
  PROVE  /\ upvalues \in Seq(UpvalueSet) /\ DOMAIN upvalues = 1 .. Len(upvalues) /\ Len(upvalues) \in Nat
         /\ openUpvalues = {u \in DOMAIN upvalues : upvalues[u].open}
         /\ \A u \in DOMAIN upvalues : /\ upvalues[u] \in UpvalueSet /\ upvalues[u].open \in BOOLEAN
                                       /\ upvalues[u].slot \in Nat /\ upvalues[u].value \in Safe
         /\ \A u \in openUpvalues : upvalues[u].slot \in 1 .. Len(stack) /\ upvalues[u].slot \in Nat
  <1>1. upvalues \in Seq(UpvalueSet) /\ openUpvalues = {u \in DOMAIN upvalues : upvalues[u].open}
    BY DEF IInv, ValuesInv
  <1>2. DOMAIN upvalues = 1 .. Len(upvalues) /\ Len(upvalues) \in Nat /\ \A u \in DOMAIN upvalues : upvalues[u] \in UpvalueSet
    BY <1>1
  <1>3. \A u \in DOMAIN upvalues : /\ upvalues[u].open \in BOOLEAN /\ upvalues[u].slot \in Nat
                                   /\ upvalues[u].value \in Safe
    BY <1>2 DEF UpvalueSet
  <1>4. \A u \in openUpvalues : upvalues[u].slot \in 1 .. Len(stack)
    BY Running DEF IInv, ShapesInv, FramesInv
  <1> QED BY <1>1, <1>2, <1>3, <1>4

\* Assigning to a variable that has left the stack.
LEMMA SetClosedKeeps ==
  ASSUME IInv, Executes("SetUpvalue"), NEW u \in DOMAIN upvalues, ~upvalues[u].open,
         upvalues' = [upvalues EXCEPT ![u].value = Top], frames' = Next1,
         UNCHANGED <<loaded, elsewhere, stack, openUpvalues, catchPoints, globals, outcome>>
  PROVE  IInv'
  <1>1. /\ outcome = "running" /\ Instruction.op = "SetUpvalue" /\ ValuesInv /\ Drop(0) = stack
    BY RunsOp
  <1>2. PICK s : StandsAs(s)
    BY <1>1, Running
  <1>3. Top \in Safe /\ stack \in Seq(Safe)
    BY <1>1, StackSafe DEF ValuesInv
  <1> DEFINE e == [upvalues[u] EXCEPT !.value = Top]
  <1>4. e \in UpvalueSet /\ e.open = upvalues[u].open /\ e.slot = upvalues[u].slot
    BY <1>1, <1>3, OpenOnStack DEF UpvalueSet
  <1>5. upvalues' = [upvalues EXCEPT ![u] = e]
    OBVIOUS
  <1> HIDE DEF e
  <1>6. /\ upvalues' \in Seq(UpvalueSet) /\ DOMAIN upvalues' = DOMAIN upvalues
        /\ \A w \in DOMAIN upvalues : upvalues'[w] = IF w = u THEN e ELSE upvalues[w]
    <2>1. upvalues \in Seq(UpvalueSet) /\ u \in 1 .. Len(upvalues) /\ DOMAIN upvalues = 1 .. Len(upvalues)
      BY <1>1, OpenOnStack
    <2>2. [upvalues EXCEPT ![u] = e] \in Seq(UpvalueSet)
      BY <1>4, <2>1, ExceptSeq
    <2> QED BY <1>5, <2>2
  <1>7. Kept /\ openUpvalues' = {w \in DOMAIN upvalues' : upvalues'[w].open}
    <2>1. openUpvalues = {w \in DOMAIN upvalues : upvalues[w].open}
      BY <1>1, OpenOnStack
    <2> QED BY <1>4, <1>6, <2>1 DEF Kept
  <1>8. ValuesInv'
    <2>1. Safe \subseteq Safe' /\ UpvalueSet \subseteq UpvalueSet'
      BY <1>6, SafeGrows DEF loaded, elsewhere
    <2>2. stack' \in Seq(Safe') /\ upvalues' \in Seq(UpvalueSet')
      BY <1>3, <1>6, <2>1, SeqGrows
    <2>3. Shared'
      BY <1>1, <1>7 DEF ValuesInv, Shared, Kept
    <2>4. Frame.ip + 1 \in Nat
      BY <1>1, Running
    <2> QED BY <1>1, <1>6, <1>7, <2>2, <2>3, <2>4, MovesUpvalues DEF Next1
  <1>9. Taken(Instruction) = 0 /\ Instruction.op \notin Leaving \cup {"Jump", "Loop", "Return",
            "CloseUpvalue", "SetCatchPoint", "ClearCatchPoint", "SetLocal", "Closure"}
    BY <1>1 DEF Taken, CallOps, Leaving, Throwing
  <1> QED BY <1>1, <1>2, <1>7, <1>8, <1>9, Pops

\* Assigning to a variable that is still on the stack: its slot may be of a frame
\* that waits, and is captured there.
LEMMA SetOpenKeeps ==
  ASSUME IInv, Executes("SetUpvalue"), NEW u \in openUpvalues,
         Steps([stack EXCEPT ![upvalues[u].slot] = Top])
  PROVE  IInv'
  <1>1. /\ outcome = "running" /\ Instruction.op = "SetUpvalue" /\ ValuesInv
    BY RunsOp
  <1>2. PICK s : StandsAs(s)
    BY <1>1, Running
  <1> DEFINE k == upvalues[u].slot
             base == Frame.base
             t == ShapeAfter(code, Frame.ip, s, Instruction)
  <1>3. /\ base \in Nat \ {0} /\ s.height \in Nat /\ base + s.height = Len(stack) + 1
        /\ Len(stack) \in Nat /\ DOMAIN stack = 1 .. Len(stack) /\ WellShaped(s)
        /\ Top \in Safe /\ stack \in Seq(Safe) /\ k \in 1 .. Len(stack)
    BY <1>1, <1>2, Running, StandingFacts, StackSafe, OpenOnStack DEF ValuesInv
  <1>4. /\ Goes /\ outcome' = "running" /\ globals' \in [GlobalNames -> Safe]
        /\ stack' = [stack EXCEPT ![k] = Top]
    BY <1>1, StepsGo DEF Steps
  <1> HIDE DEF k
  <1>5. /\ stack' \in Seq(Safe) /\ Len(stack') = Len(stack)
        /\ \A p \in 1 .. Len(stack) : p # k => stack'[p] = stack[p]
    BY <1>3, <1>4, ExceptSeq
  <1>6. /\ Frame.ip + 1 \in DOMAIN Function.code /\ Frame.ip + 1 \in Nat /\ t \in ShapesAt(Frame.fn, Frame.ip + 1)
    BY <1>1, <1>2, Falling
  <1>7. ValuesInv'
    BY <1>1, <1>4, <1>5, <1>6, Moves DEF Goes, Next1
  <1>8. t = s
    <2>1. Taken(Instruction) = 0
      BY <1>1 DEF Taken, CallOps
    <2>2. Rest(s, Instruction) = Cut(s, s.height)
      BY <1>1, <1>3, <2>1 DEF Rest
    <2>3. t = Rest(s, Instruction)
      BY <1>1 DEF ShapeAfter, Leaving, Throwing, CallOps
    <2> QED BY <1>3, <2>2, <2>3, CutWhole
  <1> HIDE DEF t
  <1>9. \A p \in 1 .. Len(stack) : stack'[p] = stack[p] \/ \E w \in openUpvalues : upvalues[w].slot = p
    BY <1>5 DEF k
  <1>10. Holds(stack', upvalues', openUpvalues', catchPoints', Len(frames), base, s, Len(stack) + 1)
    <2>1. Holds(stack, upvalues, openUpvalues, catchPoints, Len(frames), base, s, Len(stack) + 1)
      BY <1>2 DEF StandsAs
    <2>2. \A p \in Nat : base <= p /\ p < Len(stack) + 1 =>
             stack'[p] = stack[p] \/ \E w \in openUpvalues : upvalues[w].slot = p
      <3>1. \A p \in Nat : base <= p /\ p < Len(stack) + 1 => p \in 1 .. Len(stack)
        BY <1>3
      <3> QED BY <1>9, <3>1
    <2>3. base \in Nat /\ UNCHANGED <<upvalues, openUpvalues, catchPoints>>
      BY <1>3, <1>4 DEF Goes
    <2> QED BY <1>3, <2>1, <2>2, <2>3, KeepsShape, SMTT(60)
  <1>11. \A p \in 1 .. base - 1 : stack'[p] = stack[p] \/ \E w \in openUpvalues : upvalues[w].slot = p
    <2>1. \A p \in 1 .. base - 1 : p \in 1 .. Len(stack)
      BY <1>3
    <2> QED BY <1>9, <2>1
  <1>12. \A w \in openUpvalues' : /\ w \in openUpvalues /\ upvalues'[w].slot = upvalues[w].slot
                                  /\ upvalues'[w].slot \in 1 .. Len(stack')
    BY <1>1, <1>4, <1>5, OpenOnStack DEF Goes
  <1>13. Holds(stack', upvalues', openUpvalues', catchPoints, Len(frames), base, t, Len(stack') + 1)
    BY <1>4, <1>5, <1>8, <1>10 DEF Goes
  <1> QED BY <1>1, <1>4, <1>6, <1>7, <1>11, <1>12, <1>13, Continues DEF Goes, Next1

LEMMA SetUpvalueKeeps == ASSUME IInv, SetUpvalue PROVE IInv'
  <1>1. /\ outcome = "running" /\ Instruction.op = "SetUpvalue" /\ Drop(0) = stack
        /\ Executes("SetUpvalue") /\ DOMAIN stack = 1 .. Len(stack)
    BY RunsOp, StackSafe DEF SetUpvalue
  <1>2. CASE Instruction.arg \notin DOMAIN Frame.up
    <2>1. Taken(Instruction) = 0 /\ Instruction.op \notin Leaving \cup {"Jump", "Loop", "Return",
              "CloseUpvalue", "SetCatchPoint", "ClearCatchPoint", "SetLocal", "Closure"}
      BY <1>1 DEF Taken, CallOps, Leaving, Throwing
    <2>2. Steps(Drop(0))
      BY <1>1, <1>2 DEF SetUpvalue
    <2> QED BY <1>1, <2>1, <2>2, StepsPopping
  <1>3. CASE Instruction.arg \in DOMAIN Frame.up
    <2> DEFINE u == Frame.up[Instruction.arg]
    <2>1. u \in DOMAIN upvalues /\ (upvalues[u].open => u \in openUpvalues /\ upvalues[u].slot \in DOMAIN stack)
      BY <1>1, <1>3, ReadSafe, OpenOnStack
    <2>2. CASE upvalues[u].open
      <3>1. Steps([stack EXCEPT ![upvalues[u].slot] = Top])
        BY <1>3, <2>1, <2>2 DEF SetUpvalue
      <3> HIDE DEF u
      <3> QED BY <1>1, <2>1, <2>2, <3>1, SetOpenKeeps
    <2>3. CASE ~upvalues[u].open
      <3>1. /\ upvalues' = [upvalues EXCEPT ![u].value = Top] /\ frames' = Next1
            /\ UNCHANGED <<loaded, elsewhere, stack, openUpvalues, catchPoints, globals, outcome>>
        BY <1>3, <2>3 DEF SetUpvalue
      <3> HIDE DEF u
      <3> QED BY <1>1, <2>1, <2>3, <3>1, SetClosedKeeps
    <2> QED BY <2>2, <2>3
  <1> QED BY <1>2, <1>3

\* Closing upvalues: those of lower slots stay as they are.
LEMMA Closes ==
  ASSUME ValuesInv, NEW st, \A k : Get(st, k) \in Safe, NEW last, CloseUpvalues(st, last)
  PROVE  /\ upvalues' \in Seq(UpvalueSet) /\ DOMAIN upvalues' = DOMAIN upvalues
         /\ openUpvalues' = {u \in DOMAIN upvalues' : upvalues'[u].open}
         /\ \A u \in openUpvalues' : /\ u \in openUpvalues /\ u \notin Closing(last)
                                     /\ upvalues'[u] = upvalues[u]
         /\ Shared'
  <1>1. upvalues \in Seq(UpvalueSet) /\ openUpvalues = {u \in DOMAIN upvalues : upvalues[u].open}
    BY DEF ValuesInv
  <1>2. /\ DOMAIN upvalues = 1 .. Len(upvalues) /\ Len(upvalues) \in Nat
        /\ \A u \in DOMAIN upvalues : upvalues[u] \in UpvalueSet
    BY <1>1
  <1> DEFINE Closed(u) == [open |-> FALSE, slot |-> 0, value |-> Get(st, upvalues[u].slot)]
  <1>3. \A u : Closed(u) \in UpvalueSet /\ Closed(u).open = FALSE
    BY DEF UpvalueSet
  <1>4. /\ openUpvalues' = openUpvalues \ Closing(last)
        /\ upvalues' = [u \in DOMAIN upvalues |-> IF u \in Closing(last) THEN Closed(u) ELSE upvalues[u]]
    BY DEF CloseUpvalues
  <1> HIDE DEF Closed
  <1>5. /\ DOMAIN upvalues' = DOMAIN upvalues
        /\ \A u \in DOMAIN upvalues : upvalues'[u] = IF u \in Closing(last) THEN Closed(u) ELSE upvalues[u]
    BY <1>4
  <1>6. upvalues' \in Seq(UpvalueSet)
    <2>1. \A u \in 1 .. Len(upvalues) : (IF u \in Closing(last) THEN Closed(u) ELSE upvalues[u]) \in UpvalueSet
      BY <1>2, <1>3
    <2> QED BY <1>2, <1>4, <2>1
  <1>7. openUpvalues' = {u \in DOMAIN upvalues' : upvalues'[u].open}
    <2>1. Closing(last) \subseteq openUpvalues
      BY DEF Closing
    <2> QED BY <1>1, <1>3, <1>4, <1>5, <2>1
  <1>8. \A u \in openUpvalues' : /\ u \in openUpvalues /\ u \notin Closing(last)
                                 /\ upvalues'[u] = upvalues[u]
    BY <1>1, <1>4, <1>5
  <1>9. Shared'
    BY <1>8 DEF ValuesInv, Shared
  <1> QED BY <1>5, <1>6, <1>7, <1>8, <1>9

LEMMA CloseUpvalueKeeps == ASSUME IInv, CloseUpvalue PROVE IInv'
  <1>1. /\ outcome = "running" /\ Instruction.op = "CloseUpvalue" /\ ValuesInv /\ Popped(stack) = Drop(1)
    BY RunsOp DEF CloseUpvalue
  <1>2. PICK s : StandsAs(s)
    BY <1>1, Running
  <1> DEFINE base == Frame.base
             h == s.height - 1
             t == ShapeAfter(code, Frame.ip, s, Instruction)
  <1>3. /\ CloseUpvalues(stack, Len(stack)) /\ stack' = Drop(1) /\ frames' = Next1
        /\ UNCHANGED <<loaded, elsewhere, catchPoints, globals, outcome>>
    BY <1>1 DEF CloseUpvalue
  <1>4. /\ base \in Nat \ {0} /\ s.height \in Nat \ {0} /\ base + s.height = Len(stack) + 1
        /\ Len(stack) \in Nat \ {0} /\ DOMAIN stack = 1 .. Len(stack) /\ WellShaped(s)
        /\ \A k : Get(stack, k) \in Safe
    BY <1>1, <1>2, Running, StandingFacts, StackSafe
  <1>5. Taken(Instruction) = 1
    BY <1>1 DEF Taken, CallOps
  <1>6. /\ t.height = h /\ t.tries = s.tries /\ t.known = {p \in s.known : p[1] < h}
        /\ t.captured = s.captured \ {h}
    <2>1. t = Rest(s, Instruction)
      BY <1>1 DEF ShapeAfter, Leaving, Throwing, CallOps
    <2>2. Rest(s, Instruction) = Shape(h, s.tries, {p \in s.known : p[1] < h}, s.captured \ {h})
      BY <1>1, <1>5 DEF Rest, Cut, Shape
    <2> HIDE DEF t, h
    <2> QED BY <2>1, <2>2 DEF Shape
  <1>7. /\ Frame.ip + 1 \in DOMAIN Function.code /\ Frame.ip + 1 \in Nat /\ t \in ShapesAt(Frame.fn, Frame.ip + 1)
    BY <1>1, <1>2, Falling
  <1> HIDE DEF t
  <1>8. /\ upvalues' \in Seq(UpvalueSet) /\ DOMAIN upvalues' = DOMAIN upvalues
        /\ openUpvalues' = {u \in DOMAIN upvalues' : upvalues'[u].open}
        /\ \A u \in openUpvalues' : /\ u \in openUpvalues /\ u \notin Closing(Len(stack))
                                    /\ upvalues'[u] = upvalues[u]
        /\ Shared'
    BY <1>1, <1>3, <1>4, Closes
  <1>9. /\ stack' \in Seq(Safe) /\ Len(stack') = Len(stack) - 1 /\ h \in Nat /\ base + h = Len(stack)
        /\ \A k \in 1 .. Len(stack) - 1 : stack'[k] = stack[k]
    <2>1. 1 \in 0 .. Len(stack)
      BY <1>4
    <2>2. /\ stack' \in Seq(Safe) /\ Len(stack') = Len(stack) - 1
          /\ \A k \in 1 .. Len(stack) - 1 : stack'[k] = stack[k]
      BY <1>1, <1>3, <2>1, DropSafe
    <2>3. h \in Nat /\ base + h = Len(stack)
      BY <1>4
    <2> QED BY <2>2, <2>3
  <1>10. \A u \in openUpvalues' : /\ u \in openUpvalues /\ upvalues'[u].slot = upvalues[u].slot
                                  /\ upvalues'[u].slot \in 1 .. Len(stack')
                                  /\ upvalues[u].slot # Len(stack)
    <2>1. \A u \in openUpvalues : upvalues[u].slot \in 1 .. Len(stack)
      BY <1>1, OpenOnStack
    <2>2. \A u \in openUpvalues \ Closing(Len(stack)) : ~(upvalues[u].slot >= Len(stack))
      BY DEF Closing
    <2> QED BY <1>4, <1>8, <1>9, <2>1, <2>2
  <1>11. ValuesInv'
    <2>1. Safe \subseteq Safe' /\ UpvalueSet \subseteq UpvalueSet'
      BY <1>3, <1>8, SafeGrows DEF loaded, elsewhere
    <2>2. stack' \in Seq(Safe') /\ upvalues' \in Seq(UpvalueSet')
      BY <1>8, <1>9, <2>1, SeqGrows
    <2> QED BY <1>1, <1>3, <1>7, <1>8, <2>2, MovesUpvalues DEF Next1
  <1>12. Holds(stack', upvalues', openUpvalues', catchPoints, Len(frames), base, t, Len(stack') + 1)
    <2>1. /\ \A p \in s.known : IsA(stack[base + p[1]], p[2])
          /\ \A u \in openUpvalues : base <= upvalues[u].slot /\ upvalues[u].slot < Len(stack) + 1 =>
                upvalues[u].slot - base \in s.captured
          /\ TriesStand(catchPoints, Len(frames), base, s.tries)
      BY <1>2 DEF StandsAs, Holds
    <2>2. ASSUME NEW p \in t.known
          PROVE  IsA(stack'[base + p[1]], p[2])
      <3>1. p \in s.known /\ p[1] < h /\ p[1] \in Nat
        BY <1>4, <1>6 DEF WellShaped, AllShapes
      <3>2. base + p[1] \in 1 .. Len(stack) - 1
        BY <1>4, <1>9, <3>1
      <3> QED BY <1>9, <2>1, <3>1, <3>2
    <2>3. ASSUME NEW u \in openUpvalues', base <= upvalues'[u].slot
          PROVE  upvalues'[u].slot - base \in t.captured
      <3> DEFINE k == upvalues[u].slot
      <3>1. k \in 1 .. Len(stack) /\ k # Len(stack) /\ base <= k /\ upvalues'[u].slot = k /\ u \in openUpvalues
        BY <1>1, <1>10, <2>3, OpenOnStack
      <3>2. k - base \in s.captured
        BY <1>4, <2>1, <3>1
      <3>3. k - base # h
        BY <1>4, <1>9, <3>1
      <3> QED BY <1>6, <3>1, <3>2, <3>3
    <2>4. base + t.height = Len(stack') + 1
      BY <1>4, <1>6, <1>9
    <2> QED BY <1>6, <2>1, <2>2, <2>3, <2>4 DEF Holds
  <1>13. \A p \in 1 .. base - 1 : stack'[p] = stack[p]
    <2>1. \A p \in 1 .. base - 1 : p \in 1 .. Len(stack) - 1
      BY <1>4, <1>9
    <2> QED BY <1>9, <2>1
  <1>14. outcome' \in {"running", "suspended"} /\ UNCHANGED <<loaded, catchPoints>>
    BY <1>1, <1>3
  <1> QED BY <1>1, <1>3, <1>7, <1>10, <1>11, <1>12, <1>13, <1>14, Continues DEF Next1

-----------------------------------------------------------------------------
(* New closures.                                                           *)

\* What has been captured when n upvalues have: the upvalues there were and new
\* ones of the slots of indices in more, and for each of the n one of them.
Captures(acc, n, more) ==
    /\ acc = [objects |-> acc.objects, open |-> acc.open, ids |-> acc.ids]
    /\ acc.objects \in Seq(UpvalueSet) /\ DOMAIN upvalues \subseteq DOMAIN acc.objects
    /\ \A u \in DOMAIN upvalues : acc.objects[u] = upvalues[u]
    /\ acc.open = {u \in DOMAIN acc.objects : acc.objects[u].open}
    /\ \A u, w \in acc.open : acc.objects[u].slot = acc.objects[w].slot => u = w
    /\ \A u \in acc.open : u \in DOMAIN upvalues \/ \E x \in more : acc.objects[u].slot = Slot(x)
    /\ acc.ids \in Seq(Nat) /\ Len(acc.ids) = n
    /\ \A k \in 1 .. n : acc.ids[k] \in DOMAIN acc.objects

\* The least of one.
LEMMA MinOne ==
  ASSUME NEW u \in Nat
  PROVE  Min({u}) = u
  BY DEF Min

\* One upvalue more is captured (or found open, or taken from the function that
\* runs), and all that is open stays so.
LEMMA CapturesMore ==
  ASSUME NEW acc, NEW n \in Nat, NEW more, Captures(acc, n, more), NEW uv, uv.isLocal \in BOOLEAN,
         uv.isLocal => uv.index \in more /\ Slot(uv.index) \in Nat,
         ~uv.isLocal => Frame.up[uv.index] \in DOMAIN upvalues
  PROVE  Captures(Captured(acc, uv), n + 1, more)
  <1> DEFINE objs == acc.objects
             open == acc.open
             ids == acc.ids
  <1>1. /\ acc = [objects |-> objs, open |-> open, ids |-> ids]
        /\ objs \in Seq(UpvalueSet) /\ DOMAIN upvalues \subseteq DOMAIN objs
        /\ \A u \in DOMAIN upvalues : objs[u] = upvalues[u]
        /\ open = {u \in DOMAIN objs : objs[u].open}
        /\ \A u, w \in open : objs[u].slot = objs[w].slot => u = w
        /\ \A u \in open : u \in DOMAIN upvalues \/ \E x \in more : objs[u].slot = Slot(x)
        /\ ids \in Seq(Nat) /\ Len(ids) = n
        /\ \A k \in 1 .. n : ids[k] \in DOMAIN objs
    BY DEF Captures
  <1>2. DOMAIN objs = 1 .. Len(objs) /\ Len(objs) \in Nat
    BY <1>1
  <1> HIDE DEF objs, open, ids
  <1>6. \A u : [acc EXCEPT !.ids = Append(@, u)] = [objects |-> objs, open |-> open, ids |-> Append(ids, u)]
    <2>1. \A u : [[objects |-> objs, open |-> open, ids |-> ids] EXCEPT !.ids = Append(@, u)]
                    = [objects |-> objs, open |-> open, ids |-> Append(ids, u)]
      OBVIOUS
    <2> QED BY <1>1, <2>1
  <1>3. ASSUME NEW u \in DOMAIN objs,
               Captured(acc, uv) = [objects |-> objs, open |-> open, ids |-> Append(ids, u)]
        PROVE  Captures(Captured(acc, uv), n + 1, more)
    <2> DEFINE ids2 == Append(ids, u)
    <2>1. Captured(acc, uv) = [objects |-> objs, open |-> open, ids |-> ids2]
      BY <1>3
    <2>2. /\ ids2 \in Seq(Nat) /\ Len(ids2) = n + 1 /\ \A k \in 1 .. n : ids2[k] = ids[k]
          /\ ids2[n + 1] = u
      BY <1>1, <1>2, AppendSeq
    <2> HIDE DEF ids2
    <2>3. \A k \in 1 .. n + 1 : ids2[k] \in DOMAIN objs
      <3>1. \A k \in 1 .. n + 1 : k = n + 1 \/ k \in 1 .. n
        OBVIOUS
      <3> QED BY <1>1, <2>2, <3>1
    <2>4. DOMAIN upvalues \subseteq DOMAIN objs /\ objs \in Seq(UpvalueSet)
      BY <1>1
    <2> DEFINE c == Captured(acc, uv)
    <2>5. /\ c.objects = objs /\ c.open = open /\ c.ids = ids2
          /\ c = [objects |-> c.objects, open |-> c.open, ids |-> c.ids]
      BY <2>1
    <2> HIDE DEF c
    <2>6. Captures(c, n + 1, more)
      BY <1>1, <2>2, <2>3, <2>4, <2>5 DEF Captures
    <2> QED BY <2>6 DEF c
  <1>4. CASE ~uv.isLocal
    <2>1. Captured(acc, uv) = [acc EXCEPT !.ids = Append(@, Frame.up[uv.index])]
      BY <1>4 DEF Captured
    <2> QED BY <1>1, <1>3, <1>4, <1>6, <2>1
  <1>5. CASE uv.isLocal
    <2> DEFINE slot == Slot(uv.index)
               same == {u \in open : objs[u].slot = slot}
               new == Len(objs) + 1
               e == [open |-> TRUE, slot |-> slot, value |-> None]
    <2>1. Captured(acc, uv) = IF same # {} THEN [acc EXCEPT !.ids = Append(@, Min(same))]
                              ELSE [objects |-> Append(objs, e), open |-> open \cup {new},
                                    ids |-> Append(ids, new)]
      BY <1>5 DEF Captured, CaptureUpvalue, objs, open, ids
    <2>2. CASE same # {}
      <3>1. PICK u \in open : objs[u].slot = slot
        BY <2>2
      <3>2. same = {u} /\ u \in DOMAIN objs /\ u \in Nat
        BY <1>1, <1>2, <3>1
      <3>3. Min(same) = u
        BY <3>2, MinOne
      <3>4. Captured(acc, uv) = [objects |-> objs, open |-> open, ids |-> Append(ids, u)]
        BY <1>6, <2>1, <2>2, <3>3
      <3> HIDE DEF e, slot, same, new
      <3> QED BY <1>3, <3>2, <3>4
    <2>3. CASE same = {}
      <3> DEFINE objs2 == Append(objs, e)
                 open2 == open \cup {new}
                 ids2 == Append(ids, new)
      <3>1. e \in UpvalueSet /\ e.open = TRUE /\ e.slot = slot
        BY <1>5, ConstantsSafe DEF UpvalueSet
      <3>2. /\ Captured(acc, uv) = [objects |-> objs2, open |-> open2, ids |-> ids2]
            /\ \A u \in open : objs[u].slot # slot
        BY <2>1, <2>3
      <3> HIDE DEF e, slot, same
      <3>3. /\ objs2 \in Seq(UpvalueSet) /\ DOMAIN objs2 = 1 .. new /\ new \in Nat
            /\ \A u \in 1 .. Len(objs) : objs2[u] = objs[u]
            /\ objs2[new] = e
        BY <1>1, <1>2, <3>1, AppendSeq
      <3>4. /\ ids2 \in Seq(Nat) /\ Len(ids2) = n + 1 /\ \A k \in 1 .. n : ids2[k] = ids[k]
            /\ ids2[n + 1] = new
        BY <1>1, <1>2, AppendSeq
      <3>5. \A u \in DOMAIN objs2 : u = new \/ u \in DOMAIN objs
        BY <1>2, <3>3
      <3>6. new \in DOMAIN objs2 /\ new \notin DOMAIN objs /\ DOMAIN objs \subseteq DOMAIN objs2
        BY <1>2, <3>3
      <3> HIDE DEF new, objs2, ids2
      <3>7. \A k \in 1 .. n + 1 : ids2[k] \in DOMAIN objs2
        <4>1. \A k \in 1 .. n + 1 : k = n + 1 \/ k \in 1 .. n
          OBVIOUS
        <4> QED BY <1>1, <3>4, <3>6, <4>1
      <3>8. /\ open2 = {u \in DOMAIN objs2 : objs2[u].open}
            /\ \A u \in open : u \in DOMAIN objs /\ objs2[u] = objs[u]
        BY <1>1, <1>2, <3>1, <3>3, <3>5, <3>6
      <3>9. \A u, w \in open2 : objs2[u].slot = objs2[w].slot => u = w
        BY <1>1, <3>1, <3>2, <3>3, <3>8
      <3>10. \A u \in open2 : u \in DOMAIN upvalues \/ \E x \in more : objs2[u].slot = Slot(x)
        BY <1>1, <1>5, <3>1, <3>3, <3>8 DEF slot
      <3>11. \A u \in DOMAIN upvalues : objs2[u] = upvalues[u]
        BY <1>1, <1>2, <3>3
      <3>12. DOMAIN upvalues \subseteq DOMAIN objs2
        BY <1>1, <3>6
      <3> HIDE DEF open2
      <3> QED BY <3>2, <3>3, <3>4, <3>7, <3>8, <3>9, <3>10, <3>11, <3>12 DEF Captures
    <2> QED BY <2>2, <2>3
  <1> QED BY <1>4, <1>5

\* The recurrence of MakeClosure has a solution.
IsBuild(c, start, wanted, M) ==
    c = [n \in 0 .. M |-> IF n = 0 THEN start ELSE Captured(c[n - 1], wanted[n])]

\* The fold over the captured variables has a value after each of them.
LEMMA BuildExists ==
  ASSUME NEW start, NEW wanted, NEW M \in Nat
  PROVE  \E c : IsBuild(c, start, wanted, M)
  <1> DEFINE F(c, n) == IF n = 0 THEN start ELSE Captured(c[n - 1], wanted[n])
             P == {k \in Nat : \E c : IsBuild(c, start, wanted, k)}
  <1>1. 0 \in P
    <2> DEFINE c == [n \in 0 .. 0 |-> start]
    <2>1. IsBuild(c, start, wanted, 0)
      BY DEF IsBuild
    <2> QED BY <2>1
  <1>2. ASSUME NEW k \in Nat, k \in P
        PROVE  k + 1 \in P
    <2>1. PICK c : IsBuild(c, start, wanted, k)
      BY <1>2
    <2> DEFINE d == [n \in 0 .. (k + 1) |-> F(c, n)]
    <2>2. \A n \in 0 .. k : c[n] = d[n]
      <3>1. \A n \in 0 .. k : n \in 0 .. (k + 1)
        OBVIOUS
      <3>2. \A n \in 0 .. k : c[n] = F(c, n)
        BY <2>1 DEF IsBuild
      <3> HIDE DEF F
      <3> QED BY <3>1, <3>2
    <2> HIDE DEF d
    <2>3. \A n \in 0 .. (k + 1) : F(c, n) = F(d, n)
      <3>1. \A n \in 0 .. (k + 1) : n # 0 => n - 1 \in 0 .. k
        OBVIOUS
      <3> QED BY <2>2, <3>1
    <2>4. d = [n \in 0 .. (k + 1) |-> F(d, n)]
      <3> HIDE DEF F
      <3> QED BY <2>3 DEF d
    <2>5. IsBuild(d, start, wanted, k + 1)
      BY <2>4 DEF IsBuild
    <2> QED BY <2>5
  <1> HIDE DEF P
  <1>3. Nat \subseteq P
    BY <1>1, <1>2, SetInduction
  <1> QED BY <1>3 DEF P

\* A closure is made of what is captured for it.
LEMMA ClosureMade ==
  ASSUME IInv, MakeClosure, NEW s, StandsAs(s)
  PROVE  LET wanted == code[Instruction.arg].upvalues
             more == CapturedBy(wanted)
         IN  /\ Instruction.arg \in DOMAIN code /\ wanted \in Seq(UpvalueInfos)
             /\ \A x \in more : x \in 1 .. s.height
             /\ \E made : /\ Captures(made, Len(wanted), more)
                          /\ upvalues' = made.objects /\ openUpvalues' = made.open
                          /\ stack' = Append(stack, Closure(Instruction.arg, made.ids))
  <1> DEFINE wanted == code[Instruction.arg].upvalues
             more == CapturedBy(wanted)
             start == [objects |-> upvalues, open |-> openUpvalues, ids |-> <<>>]
             W(c) == c = [n \in 0 .. Len(wanted) |->
                            IF n = 0 THEN start ELSE Captured(c[n - 1], wanted[n])]
             built == (CHOOSE c : W(c))[Len(wanted)]
  <1>1. /\ outcome = "running" /\ Instruction.op = "Closure" /\ ValuesInv /\ CodeInv
    BY RunsOp DEF MakeClosure, IInv
  <1>2. /\ upvalues' = built.objects /\ openUpvalues' = built.open
        /\ stack' = Append(stack, Closure(Instruction.arg, built.ids))
    BY DEF MakeClosure
  <1>3. /\ Instruction.arg \in DOMAIN code
        /\ \A k \in DOMAIN wanted :
              wanted[k].index \in IF wanted[k].isLocal THEN 1 .. s.height ELSE DOMAIN Function.upvalues
    BY <1>1, StandingFacts DEF Allowed, Instruction
  <1>4. wanted \in Seq(UpvalueInfos)
    BY <1>1, <1>3, CodeFacts DEF WellFormed
  <1>5. DOMAIN wanted = 1 .. Len(wanted) /\ Len(wanted) \in Nat /\ \A k \in DOMAIN wanted : wanted[k] \in UpvalueInfos
    BY <1>4
  <1> HIDE DEF wanted
  <1>6. \A x \in more : x \in 1 .. s.height
    BY <1>3 DEF CapturedBy
  <1>7. \A k \in DOMAIN wanted :
           /\ wanted[k].isLocal \in BOOLEAN
           /\ wanted[k].isLocal => wanted[k].index \in more /\ Slot(wanted[k].index) \in Nat
           /\ ~wanted[k].isLocal => Frame.up[wanted[k].index] \in DOMAIN upvalues
    <2> TAKE k \in DOMAIN wanted
    <2>1. wanted[k].isLocal \in BOOLEAN /\ wanted[k].index \in Nat
      BY <1>5 DEF UpvalueInfos
    <2>2. wanted[k].isLocal => wanted[k].index \in more
      BY DEF CapturedBy
    <2>3. Slot(wanted[k].index) \in Nat
      BY <1>1, <2>1, Running DEF Slot
    <2>4. DOMAIN Frame.up = DOMAIN Function.upvalues /\ \A j \in DOMAIN Frame.up : Frame.up[j] \in DOMAIN upvalues
      BY <1>1, Running DEF UpvaluesOf, Function
    <2> QED BY <1>3, <2>1, <2>2, <2>3, <2>4
  <1>8. PICK c : W(c) /\ built = c[Len(wanted)]
    <2>1. \E c : W(c)
      <3>1. \E c : IsBuild(c, start, wanted, Len(wanted))
        <4> HIDE DEF start
        <4> QED BY <1>5, BuildExists
      <3> QED BY <3>1 DEF IsBuild
    <2> HIDE DEF W
    <2> QED BY <2>1
  <1> HIDE DEF built, more
  <1>9. Captures(start, 0, more)
    <2>1. /\ upvalues \in Seq(UpvalueSet) /\ openUpvalues = {u \in DOMAIN upvalues : upvalues[u].open}
          /\ \A u, w \in openUpvalues : upvalues[u].slot = upvalues[w].slot => u = w
      BY <1>1 DEF ValuesInv, Shared
    <2>2. <<>> \in Seq(Nat) /\ Len(<<>>) = 0
      OBVIOUS
    <2>3. start.objects = upvalues /\ start.open = openUpvalues /\ start.ids = <<>>
      OBVIOUS
    <2>4. start = [objects |-> start.objects, open |-> start.open, ids |-> start.ids]
      OBVIOUS
    <2>5. \A u \in openUpvalues : u \in DOMAIN upvalues
      BY <2>1
    <2>6. \A k \in 1 .. 0 : FALSE
      OBVIOUS
    <2> HIDE DEF start
    <2> QED BY <2>1, <2>2, <2>3, <2>4, <2>5, <2>6 DEF Captures
  <1> DEFINE P == {k \in Nat : k \in 0 .. Len(wanted) => Captures(c[k], k, more)}
  <1>10. 0 \in P
    <2>1. c[0] = start
      BY <1>5, <1>8
    <2> HIDE DEF start, W
    <2> QED BY <1>9, <2>1
  <1>11. ASSUME NEW k \in Nat, k \in P
         PROVE  k + 1 \in P
    <2> SUFFICES ASSUME k + 1 \in 0 .. Len(wanted)
                 PROVE  Captures(c[k + 1], k + 1, more)
      OBVIOUS
    <2>1. k \in 0 .. Len(wanted) /\ k + 1 # 0 /\ (k + 1) - 1 = k /\ k + 1 \in DOMAIN wanted
      BY <1>5
    <2>2. c[k + 1] = Captured(c[k], wanted[k + 1])
      <3> HIDE DEF start
      <3> QED BY <1>8, <2>1
    <2>3. Captures(c[k], k, more)
      BY <1>11, <2>1
    <2> DEFINE uv == wanted[k + 1]
    <2>4. /\ uv.isLocal \in BOOLEAN
          /\ uv.isLocal => uv.index \in more /\ Slot(uv.index) \in Nat
          /\ ~uv.isLocal => Frame.up[uv.index] \in DOMAIN upvalues
      BY <1>7, <2>1
    <2> HIDE DEF uv, start, P, W
    <2>5. Captures(Captured(c[k], uv), k + 1, more)
      BY <2>3, <2>4, CapturesMore
    <2> QED BY <2>2, <2>5 DEF uv
  <1> HIDE DEF P, start, W
  <1>12. Nat \subseteq P
    BY <1>10, <1>11, SetInduction
  <1>13. Captures(built, Len(wanted), more)
    BY <1>5, <1>8, <1>12 DEF P
  <1> QED BY <1>2, <1>3, <1>4, <1>6, <1>13 DEF wanted, more

LEMMA ClosureKeeps == ASSUME IInv, MakeClosure PROVE IInv'
  <1>1. /\ outcome = "running" /\ Instruction.op = "Closure" /\ ValuesInv
    BY RunsOp DEF MakeClosure
  <1>2. PICK s : StandsAs(s)
    BY <1>1, Running
  <1> DEFINE fn == Instruction.arg
             base == Frame.base
             wanted == code[fn].upvalues
             more == CapturedBy(wanted)
             t == ShapeAfter(code, Frame.ip, s, Instruction)
             end == Len(stack) + 1
  <1>3. /\ frames' = Next1 /\ UNCHANGED <<loaded, elsewhere, catchPoints, globals, outcome>>
    BY DEF MakeClosure
  <1>4. /\ fn \in DOMAIN code /\ wanted \in Seq(UpvalueInfos) /\ \A x \in more : x \in 1 .. s.height
    BY <1>2, ClosureMade
  <1>5. PICK made : /\ Captures(made, Len(wanted), more)
                    /\ upvalues' = made.objects /\ openUpvalues' = made.open
                    /\ stack' = Append(stack, Closure(fn, made.ids))
    BY <1>2, ClosureMade
  <1>6. /\ base \in Nat \ {0} /\ s.height \in Nat \ {0} /\ base + s.height = end
        /\ Len(stack) \in Nat \ {0} /\ DOMAIN stack = 1 .. Len(stack) /\ WellShaped(s) /\ stack \in Seq(Safe)
    BY <1>1, <1>2, Running, StandingFacts, StackSafe DEF ValuesInv
  <1>7. /\ Frame.ip + 1 \in DOMAIN Function.code /\ Frame.ip + 1 \in Nat /\ t \in ShapesAt(Frame.fn, Frame.ip + 1)
    BY <1>1, <1>2, Falling
  <1>8. /\ t.height = s.height + 1 /\ t.tries = s.tries /\ t.captured = s.captured \cup more
        /\ \A p \in t.known : p \in s.known \/ p = <<s.height, "closure">>
    <2>1. Rest(s, Instruction) = s
      <3>1. Taken(Instruction) = 0
        BY <1>1 DEF Taken, CallOps
      <3>2. Rest(s, Instruction) = Cut(s, s.height)
        BY <1>1, <1>6, <3>1 DEF Rest
      <3> QED BY <1>6, <3>2, CutWhole
    <2>2. t = Shape(s.height + 1, s.tries, Forget(Push(s, {"closure"}), more), s.captured \cup more)
      BY <1>1, <2>1 DEF ShapeAfter, Leaving, Throwing, CallOps
    <2> HIDE DEF t, more, wanted
    <2>3. t.known = Forget(Push(s, {"closure"}), more) /\ t.height = s.height + 1 /\ t.tries = s.tries
          /\ t.captured = s.captured \cup more
      BY <2>2 DEF Shape
    <2>4. \A p \in Forget(Push(s, {"closure"}), more) : p \in s.known \/ p = <<s.height, "closure">>
      BY DEF Forget, Push, Shape
    <2> QED BY <2>3, <2>4
  <1> HIDE DEF t, more, wanted
  <1>9. /\ upvalues' \in Seq(UpvalueSet) /\ DOMAIN upvalues \subseteq DOMAIN upvalues'
        /\ \A u \in DOMAIN upvalues : upvalues'[u] = upvalues[u]
        /\ openUpvalues' = {u \in DOMAIN upvalues' : upvalues'[u].open}
        /\ Shared'
        /\ \A u \in openUpvalues' : u \in DOMAIN upvalues \/ \E x \in more : upvalues'[u].slot = Slot(x)
        /\ made.ids \in Seq(Nat) /\ Len(made.ids) = Len(wanted)
        /\ \A k \in 1 .. Len(wanted) : made.ids[k] \in DOMAIN upvalues'
    BY <1>5 DEF Captures, Shared
  <1>10. code' = code /\ program' = program /\ objects' = objects /\ others' = others
    BY <1>3 DEF loaded, elsewhere
  <1>11. Safe \subseteq Safe' /\ UpvalueSet \subseteq UpvalueSet'
    BY <1>9, <1>10, SafeGrows
  <1> DEFINE v == Closure(fn, made.ids)
  <1>12. v \in Safe' /\ IsA(v, "closure")
    <2>1. code[fn].name \in Names /\ Names' = Names /\ fn \in Nat
      <3>1. CodeInv
        BY DEF IInv
      <3>2. Names' = Names
        BY <1>10 DEF Names
      <3>3. code[fn].name \in Names
        BY <1>4 DEF Names
      <3>4. fn \in Nat
        BY <1>4, <3>1, CodeFacts
      <3> QED BY <3>2, <3>3, <3>4
    <2>2. DOMAIN made.ids = DOMAIN code'[fn].upvalues /\ \A k \in DOMAIN made.ids : made.ids[k] \in DOMAIN upvalues'
      <3>1. DOMAIN made.ids = DOMAIN wanted /\ \A k \in DOMAIN made.ids : made.ids[k] \in DOMAIN upvalues'
        <4>1. DOMAIN wanted = 1 .. Len(wanted)
          BY <1>4
        <4>2. DOMAIN made.ids = 1 .. Len(made.ids)
          BY <1>9
        <4> QED BY <1>9, <4>1, <4>2
      <3> QED BY <1>10, <3>1 DEF wanted
    <2>3. v = [is |-> "closure", of |-> code[fn].name, fn |-> fn, up |-> made.ids]
      BY DEF Closure
    <2>4. "closure" \in Tags /\ "closure" \notin References
      BY DEF Tags, References
    <2> HIDE DEF v, fn
    <2>5. v \in Vals' /\ v.is = "closure" /\ v.fn = fn /\ v.up = made.ids
      BY <1>9, <2>1, <2>3, <2>4 DEF Vals
    <2>6. v.fn \in DOMAIN code' /\ v.up \in Seq(Nat)
      BY <1>4, <1>9, <1>10, <2>5
    <2>7. v \in Safe'
      BY <2>2, <2>4, <2>5, <2>6 DEF Safe, UpvaluesOf
    <2> QED BY <2>5, <2>7 DEF IsA
  <1> HIDE DEF v
  <1>13. /\ stack' \in Seq(Safe') /\ Len(stack') = end /\ stack'[end] = v
         /\ \A p \in 1 .. Len(stack) : stack'[p] = stack[p]
    <2>1. stack \in Seq(Safe')
      BY <1>6, <1>11, SeqGrows
    <2> QED BY <1>5, <1>12, <2>1, AppendSeq DEF v
  <1>14. upvalues' \in Seq(UpvalueSet')
    BY <1>9, <1>11, SeqGrows
  <1>15. ValuesInv'
    BY <1>1, <1>3, <1>7, <1>9, <1>13, <1>14, MovesUpvalues DEF Next1
  <1>16. \A u \in openUpvalues' :
            \/ u \in openUpvalues /\ upvalues'[u].slot = upvalues[u].slot
            \/ \E x \in more : upvalues'[u].slot = base + x /\ x \in 1 .. s.height
    <2>1. openUpvalues = {u \in DOMAIN upvalues : upvalues[u].open}
      BY <1>1 DEF ValuesInv
    <2> QED BY <1>4, <1>9, <2>1 DEF Slot
  <1>17. \A u \in openUpvalues : upvalues[u].slot \in 1 .. Len(stack)
    BY <1>1, OpenOnStack
  <1>18. \A u \in openUpvalues' : upvalues'[u].slot \in 1 .. Len(stack')
    <2>1. \A x \in 1 .. s.height : base + x \in 1 .. end
      BY <1>6
    <2>2. \A k \in 1 .. Len(stack) : k \in 1 .. end
      BY <1>6
    <2> QED BY <1>13, <1>16, <1>17, <2>1, <2>2
  <1>19. \A u \in openUpvalues' : upvalues'[u].slot < base =>
            u \in openUpvalues /\ upvalues'[u].slot = upvalues[u].slot
    <2>1. \A x \in 1 .. s.height : ~(base + x < base)
      BY <1>6
    <2> QED BY <1>16, <2>1
  <1>20. Holds(stack', upvalues', openUpvalues', catchPoints, Len(frames), base, t, Len(stack') + 1)
    <2>1. /\ \A p \in s.known : IsA(stack[base + p[1]], p[2])
          /\ \A u \in openUpvalues : base <= upvalues[u].slot /\ upvalues[u].slot < Len(stack) + 1 =>
                upvalues[u].slot - base \in s.captured
          /\ TriesStand(catchPoints, Len(frames), base, s.tries)
      BY <1>2 DEF StandsAs, Holds
    <2>2. ASSUME NEW p \in t.known
          PROVE  IsA(stack'[base + p[1]], p[2])
      <3>1. CASE p \in s.known
        <4>1. p[1] < s.height /\ p[1] \in Nat
          BY <1>6, <3>1 DEF WellShaped, AllShapes
        <4>2. base + p[1] \in 1 .. Len(stack)
          BY <1>6, <4>1
        <4> QED BY <1>13, <2>1, <3>1, <4>2
      <3>2. CASE p = <<s.height, "closure">>
        BY <1>6, <1>12, <1>13, <3>2
      <3> QED BY <1>8, <3>1, <3>2
    <2>3. ASSUME NEW u \in openUpvalues', base <= upvalues'[u].slot
          PROVE  upvalues'[u].slot - base \in t.captured
      <3>1. CASE u \in openUpvalues /\ upvalues'[u].slot = upvalues[u].slot
        <4>1. upvalues[u].slot < Len(stack) + 1
          BY <1>6, <1>17, <3>1
        <4> QED BY <1>8, <2>1, <2>3, <3>1, <4>1
      <3>2. ASSUME NEW x \in more, upvalues'[u].slot = base + x, x \in 1 .. s.height
            PROVE  upvalues'[u].slot - base \in t.captured
        <4>1. upvalues'[u].slot - base = x
          BY <1>6, <3>2
        <4>2. x \in t.captured
          BY <1>8
        <4> QED BY <4>1, <4>2
      <3> QED BY <1>16, <3>1, <3>2
    <2>4. base + t.height = Len(stack') + 1
      BY <1>6, <1>8, <1>13
    <2> QED BY <1>8, <2>1, <2>2, <2>3, <2>4 DEF Holds
  <1>21. \A p \in 1 .. base - 1 : stack'[p] = stack[p]
    <2>1. \A p \in 1 .. base - 1 : p \in 1 .. Len(stack)
      BY <1>6
    <2> QED BY <1>13, <2>1
  <1>22. outcome' \in {"running", "suspended"} /\ UNCHANGED <<loaded, catchPoints>>
    BY <1>1, <1>3
  <1> QED BY <1>1, <1>3, <1>7, <1>15, <1>18, <1>19, <1>20, <1>21, <1>22, Continues DEF Next1

-----------------------------------------------------------------------------
(* Errors.                                                                 *)

\* A step to an instruction of the m-th frame, in a shape that is expected there.
LEMMA Resumes ==
  ASSUME IInv, outcome = "running", UNCHANGED loaded, ValuesInv', PointsInv', outcome' = "running",
         NEW m \in DOMAIN frames, Len(frames') = m,
         \A j \in 1 .. m - 1 : frames'[j] = frames[j],
         NEW fn, fn = frames[m].fn, NEW base, base = frames[m].base,
         NEW ip, ip \in DOMAIN code[fn].code,
         frames'[m].base = base, frames'[m].fn = fn, frames'[m].ip = ip,
         \A p \in 1 .. base - 1 : stack'[p] = stack[p],
         \A u \in openUpvalues' : /\ u \in openUpvalues /\ upvalues'[u].slot = upvalues[u].slot
                                  /\ upvalues'[u].slot \in 1 .. Len(stack'),
         \A k \in 1 .. m - 1 : \A n \in Nat :
            /\ PointOf(catchPoints', n, k) <=> PointOf(catchPoints, n, k)
            /\ PointOf(catchPoints, n, k) => catchPoints'[n] = catchPoints[n],
         NEW t, t \in ShapesAt(fn, ip),
         Holds(stack', upvalues', openUpvalues', catchPoints', m, base, t, Len(stack') + 1)
  PROVE  IInv'
  <1>1. CodeInv /\ ValuesInv /\ ShapesInv /\ RunInv /\ code' = code /\ program' = program
    BY DEF IInv, loaded
  <1>2. FramesInv'
    <2>1. \A p \in 1 .. frames[m].base - 1 :
             stack'[p] = stack[p] \/ \E u \in openUpvalues : upvalues[u].slot = p
      OBVIOUS
    <2>2. \A u \in openUpvalues' : upvalues'[u].slot < frames[m].base =>
                u \in openUpvalues /\ upvalues'[u].slot = upvalues[u].slot
      OBVIOUS
    <2>3. frames'[m].base = frames[m].base
      OBVIOUS
    <2>4. Holds(stack', upvalues', openUpvalues', catchPoints', m, frames[m].base, t, Len(stack') + 1)
      OBVIOUS
    <2> QED BY <1>1, <2>1, <2>2, <2>3, <2>4, Lands, SMTT(60)
  <1>3. m \in Nat \ {0} /\ m <= Len(frames) /\ Len(frames) \in Nat
    BY <1>1, FrameFacts
  <1>4. frames' # <<>>
    <2>1. Len(<<>>) = 0
      OBVIOUS
    <2> QED BY <1>3, <2>1
  <1>5. CodeInv'
    BY <1>1 DEF CodeInv, FailPolicy
  <1>6. RunInv'
    BY <1>1, <1>3, <1>4, InterpreterAssumption DEF RunInv
  <1> QED BY <1>2, <1>5, <1>6 DEF IInv, ShapesInv

\* Catch points are of frames, in the order of the frames.
LEMMA PointFacts ==
  ASSUME IInv
  PROVE  /\ catchPoints \in CatchPoints /\ Len(catchPoints) \in Nat
         /\ DOMAIN catchPoints = 1 .. Len(catchPoints)
         /\ \A n \in DOMAIN catchPoints :
               /\ catchPoints[n].frame \in DOMAIN frames /\ catchPoints[n].frame \in Nat
               /\ catchPoints[n].size \in Nat
               /\ catchPoints[n] = [size |-> catchPoints[n].size, frame |-> catchPoints[n].frame,
                                    handler |-> catchPoints[n].handler]
         /\ \A m, n \in DOMAIN catchPoints : m < n => catchPoints[m].frame <= catchPoints[n].frame
  <1>1. catchPoints \in Seq(Points)
    BY DEF IInv, ValuesInv, CatchPoints
  <1>2. PointsInv
    BY DEF IInv, ShapesInv
  <1>3. /\ Len(catchPoints) \in Nat /\ DOMAIN catchPoints = 1 .. Len(catchPoints)
        /\ \A n \in DOMAIN catchPoints : catchPoints[n] \in Points
    BY <1>1
  <1>4. \A p \in Points :
           p.size \in Nat /\ p.frame \in Nat /\ p = [size |-> p.size, frame |-> p.frame, handler |-> p.handler]
    BY DEF Points
  <1> QED BY <1>1, <1>2, <1>3, <1>4 DEF PointsInv, CatchPoints

TrySet == [size : Nat, handler : Nat]

\* The newest catch point is the innermost try expression of the k-th frame.
OnTop(cps, from, k, base, tries) ==
    /\ from \in Nat /\ tries \in Seq(TrySet) /\ cps \in CatchPoints
    /\ from + Len(tries) = Len(cps)
    /\ \A n \in Nat : PointOf(cps, n, k) <=> n > from /\ n <= from + Len(tries)
    /\ \A m \in DOMAIN tries : /\ cps[from + m].handler = tries[m].handler
                               /\ cps[from + m].size = base - 1 + tries[m].size

\* The catch points of the innermost frame that has any come last.
LEMMA TriesOnTop ==
  ASSUME IInv, NEW k \in Nat, \A n \in DOMAIN catchPoints : catchPoints[n].frame <= k,
         NEW base, NEW tries, tries \in Seq(TrySet), TriesStand(catchPoints, k, base, tries)
  PROVE  \E from \in Nat : OnTop(catchPoints, from, k, base, tries)
  <1>1. PICK f \in Nat :
           /\ \A n \in Nat : PointOf(catchPoints, n, k) <=> n > f /\ n <= f + Len(tries)
           /\ \A m \in DOMAIN tries : /\ catchPoints[f + m].handler = tries[m].handler
                                      /\ catchPoints[f + m].size = base - 1 + tries[m].size
    BY DEF TriesStand
  <1>2. /\ Len(catchPoints) \in Nat /\ DOMAIN catchPoints = 1 .. Len(catchPoints)
        /\ \A n \in DOMAIN catchPoints : catchPoints[n].frame \in Nat
        /\ \A m, n \in DOMAIN catchPoints : m < n => catchPoints[m].frame <= catchPoints[n].frame
    BY PointFacts
  <1>3. Len(tries) \in Nat /\ DOMAIN tries = 1 .. Len(tries)
    OBVIOUS
  <1>4. CASE Len(tries) = 0
    <2>1. \A n \in Nat : ~PointOf(catchPoints, n, k)
      BY <1>1, <1>4
    <2>2. \A n \in Nat : ~(n > Len(catchPoints) /\ n <= Len(catchPoints) + Len(tries))
      BY <1>2, <1>4
    <2>3. Len(catchPoints) + Len(tries) = Len(catchPoints) /\ \A m \in DOMAIN tries : FALSE
      BY <1>2, <1>3, <1>4
    <2>4. \A n \in Nat : PointOf(catchPoints, n, k) <=> n > Len(catchPoints) /\ n <= Len(catchPoints) + Len(tries)
      BY <2>1, <2>2
    <2>5. Len(catchPoints) \in Nat /\ catchPoints \in CatchPoints
      BY PointFacts
    <2>6. OnTop(catchPoints, Len(catchPoints), k, base, tries)
      BY <2>3, <2>4, <2>5 DEF OnTop
    <2> QED BY <2>5, <2>6
  <1>5. CASE Len(tries) # 0
    <2> DEFINE e == f + Len(tries)
    <2>1. e \in Nat /\ e > f /\ e <= f + Len(tries)
      BY <1>3, <1>5
    <2>2. e \in DOMAIN catchPoints /\ catchPoints[e].frame = k
      BY <1>1, <2>1 DEF PointOf
    <2>3. ASSUME NEW n \in DOMAIN catchPoints, n > e
          PROVE  FALSE
      <3>1. catchPoints[n].frame = k
        BY <1>2, <2>1, <2>2, <2>3
      <3>2. n \in Nat /\ n <= f + Len(tries)
        BY <1>1, <1>2, <3>1 DEF PointOf
      <3> QED BY <2>1, <2>3, <3>2
    <2>4. e = Len(catchPoints)
      <3> DEFINE N == Len(catchPoints)
      <3>1. N \in Nat /\ DOMAIN catchPoints = 1 .. N
        BY <1>2
      <3> HIDE DEF e, N
      <3>2. e \in 1 .. N /\ (N > e => N \in 1 .. N)
        BY <2>2, <3>1
      <3>3. ~(N > e)
        BY <2>3, <3>1, <3>2
      <3>4. e = N
        BY <3>1, <3>2, <3>3
      <3> QED BY <3>4 DEF N
    <2>5. catchPoints \in CatchPoints
      BY PointFacts
    <2> QED BY <1>1, <2>4, <2>5 DEF OnTop
  <1> QED BY <1>4, <1>5

\* A step that moves values, frames and catch points, with more upvalues or others.
LEMMA ValuesMove ==
  ASSUME ValuesInv, UNCHANGED <<loaded, elsewhere, globals>>, frames' \in Seq(FrameSet),
         stack' \in Seq(Safe), catchPoints' \in CatchPoints,
         upvalues' \in Seq(UpvalueSet), DOMAIN upvalues \subseteq DOMAIN upvalues',
         openUpvalues' = {u \in DOMAIN upvalues' : upvalues'[u].open}, Shared'
  PROVE  ValuesInv'
  <1>1. code' = code /\ objects' = objects /\ globals' = globals /\ others' = others
    BY DEF loaded, elsewhere
  <1>2. /\ Safe \subseteq Safe' /\ FrameSet \subseteq FrameSet' /\ Objects \subseteq Objects'
        /\ UpvalueSet \subseteq UpvalueSet'
    BY <1>1, SafeGrows
  <1>3. /\ frames' \in Seq(FrameSet') /\ stack' \in Seq(Safe') /\ upvalues' \in Seq(UpvalueSet')
    BY <1>2, SeqGrows
  <1>4. objects' \in Seq(Objects')
    <2>1. objects \in Seq(Objects)
      BY DEF ValuesInv
    <2> QED BY <1>1, <1>2, <2>1, SeqGrows
  <1>5. globals' \in [GlobalNames -> Safe'] /\ others' = <<>>
    BY <1>1, <1>2 DEF ValuesInv
  <1> QED BY <1>3, <1>4, <1>5 DEF ValuesInv

\* But for those of the k-th frame the catch points are the same.
Aside(cps2, cps, k) ==
    \A n \in Nat : \A j : j # k =>
        /\ PointOf(cps2, n, j) <=> PointOf(cps, n, j)
        /\ PointOf(cps, n, j) => cps2[n] = cps[n]

PointAdded(cps2, cps, e) ==
    /\ cps2 \in CatchPoints /\ DOMAIN cps2 = 1 .. Len(cps) + 1 /\ cps2[Len(cps) + 1] = e
    /\ \A n \in 1 .. Len(cps) : cps2[n] = cps[n]

PointGone(cps2, cps) ==
    /\ cps2 \in CatchPoints /\ DOMAIN cps2 \subseteq DOMAIN cps
    /\ \A n \in DOMAIN cps2 : cps2[n] = cps[n]

\* A catch point more.
LEMMA PointPushed ==
  ASSUME NEW cps, NEW from, NEW k, NEW base, NEW tries, OnTop(cps, from, k, base, tries),
         NEW e \in Points, NEW try \in TrySet,
         e.frame = k, e.handler = try.handler, e.size = base - 1 + try.size,
         NEW cps2, cps2 = Append(cps, e), NEW tries2, tries2 = Append(tries, try)
  PROVE  TriesStand(cps2, k, base, tries2) /\ PointAdded(cps2, cps, e) /\ Aside(cps2, cps, k)
  <1> DEFINE N == Len(cps)
             L == Len(tries)
  <1>1. /\ cps2 \in CatchPoints /\ N \in Nat /\ DOMAIN cps2 = 1 .. N + 1 /\ DOMAIN cps = 1 .. N
        /\ cps2[N + 1] = e /\ \A n \in 1 .. N : cps2[n] = cps[n]
    BY AppendSeq DEF CatchPoints, OnTop
  <1>2. /\ L \in Nat /\ Len(tries2) = L + 1 /\ DOMAIN tries2 = 1 .. L + 1 /\ DOMAIN tries = 1 .. L
        /\ tries2[L + 1] = try /\ \A n \in 1 .. L : tries2[n] = tries[n]
    BY AppendSeq DEF OnTop
  <1>3. from \in Nat /\ from + L = N
    BY DEF OnTop
  <1> HIDE DEF N, L
  <1>4. from + (L + 1) = N + 1
    BY <1>1, <1>2, <1>3
  <1>5. Aside(cps2, cps, k)
    <2> USE DEF Aside
    <2> TAKE n \in Nat
    <2> TAKE j
    <2>1. n = N + 1 \/ n \in 1 .. N \/ n \notin 1 .. N + 1
      BY <1>1
    <2>2. N + 1 \notin 1 .. N /\ \A i \in 1 .. N : i \in 1 .. N + 1
      BY <1>1
    <2> QED BY <1>1, <2>1, <2>2 DEF PointOf
  <1>6. \A n \in Nat : PointOf(cps2, n, k) <=> n > from /\ n <= from + Len(tries2)
    <2> TAKE n \in Nat
    <2>1. PointOf(cps, n, k) <=> n > from /\ n <= N
      BY <1>3 DEF OnTop, L
    <2>2. CASE n = N + 1
      <3>1. n > from /\ n <= N + 1 /\ n \in 1 .. N + 1
        BY <1>1, <1>2, <1>3, <2>2
      <3> QED BY <1>1, <1>2, <1>4, <2>2, <3>1 DEF PointOf
    <2>3. CASE n # N + 1
      <3>1. (n \in 1 .. N <=> n \in 1 .. N + 1) /\ (n <= N <=> n <= N + 1)
        BY <1>1, <2>3
      <3> QED BY <1>1, <1>2, <1>4, <2>1, <3>1 DEF PointOf
    <2> QED BY <2>2, <2>3
  <1>7. \A m \in DOMAIN tries2 : /\ cps2[from + m].handler = tries2[m].handler
                                 /\ cps2[from + m].size = base - 1 + tries2[m].size
    <2> TAKE m \in DOMAIN tries2
    <2>1. CASE m = L + 1
      <3>1. from + m = N + 1
        BY <1>4, <2>1
      <3> QED BY <1>1, <1>2, <2>1, <3>1
    <2>2. CASE m # L + 1
      <3>1. m \in 1 .. L
        BY <1>2, <2>2
      <3>2. from + m \in 1 .. N
        BY <1>2, <1>3, <3>1
      <3>3. cps[from + m].handler = tries[m].handler /\ cps[from + m].size = base - 1 + tries[m].size
        BY <1>2, <3>1 DEF OnTop
      <3> QED BY <1>1, <1>2, <3>1, <3>2, <3>3
    <2> QED BY <2>1, <2>2
  <1>8. TriesStand(cps2, k, base, tries2)
    BY <1>3, <1>6, <1>7 DEF TriesStand
  <1>9. PointAdded(cps2, cps, e)
    BY <1>1 DEF PointAdded, N
  <1> QED BY <1>5, <1>8, <1>9

\* A catch point less.
LEMMA PointPopped ==
  ASSUME NEW cps, NEW from, NEW k, NEW base, NEW tries, OnTop(cps, from, k, base, tries),
         tries # <<>>, NEW cps2, cps2 = Front(cps), NEW tries2, tries2 = Front(tries)
  PROVE  /\ cps # <<>> /\ Last(cps).frame = k /\ Last(cps).handler = Last(tries).handler
         /\ Last(cps).size = base - 1 + Last(tries).size /\ Last(tries) = tries[Len(tries)]
         /\ Len(tries) \in DOMAIN tries
         /\ TriesStand(cps2, k, base, tries2) /\ PointGone(cps2, cps) /\ Aside(cps2, cps, k)
  <1> DEFINE N == Len(cps)
             L == Len(tries)
  <1>1. /\ L \in Nat \ {0} /\ DOMAIN tries = 1 .. L /\ from \in Nat /\ from + L = N
    BY DEF OnTop
  <1>2. N \in Nat \ {0} /\ DOMAIN cps = 1 .. N /\ cps \in Seq(Points) /\ tries \in Seq(TrySet)
    BY <1>1 DEF OnTop, CatchPoints
  <1>3. /\ cps2 \in Seq(Points) /\ DOMAIN cps2 = 1 .. N - 1 /\ \A n \in 1 .. N - 1 : cps2[n] = cps[n]
    <2>1. cps2 = SubSeq(cps, 1, N - 1) /\ N - 1 \in 0 .. Len(cps)
      BY <1>2 DEF Front
    <2>2. cps \in Seq(Points)
      BY <1>2
    <2> DEFINE n == N - 1
    <2>3. cps2 = SubSeq(cps, 1, n) /\ n \in 0 .. Len(cps)
      BY <2>1
    <2> HIDE DEF n
    <2>4. cps2 \in Seq(Points) /\ DOMAIN cps2 = 1 .. n /\ \A i \in 1 .. n : cps2[i] = cps[i]
      BY <2>2, <2>3, CutSeq
    <2> QED BY <2>4 DEF n
  <1>4. /\ Len(tries2) = L - 1 /\ DOMAIN tries2 = 1 .. L - 1 /\ \A n \in 1 .. L - 1 : tries2[n] = tries[n]
    <2> DEFINE n == L - 1
    <2>1. tries2 = SubSeq(tries, 1, n) /\ n \in 0 .. Len(tries)
      BY <1>1 DEF Front
    <2>2. tries \in Seq(TrySet)
      BY <1>2
    <2> HIDE DEF n
    <2>3. Len(tries2) = n /\ DOMAIN tries2 = 1 .. n /\ \A i \in 1 .. n : tries2[i] = tries[i]
      BY <2>1, <2>2, CutSeq
    <2> QED BY <2>3 DEF n
  <1>5. Last(cps) = cps[N] /\ Last(tries) = tries[L]
    BY DEF Last
  <1> HIDE DEF N, L
  <1>6. from + L = N /\ L \in DOMAIN tries /\ N \in DOMAIN cps
    BY <1>1, <1>2
  <1>7. /\ Last(cps).handler = Last(tries).handler
        /\ Last(cps).size = base - 1 + Last(tries).size
    <2>1. \A m \in DOMAIN tries : /\ cps[from + m].handler = tries[m].handler
                                  /\ cps[from + m].size = base - 1 + tries[m].size
      BY DEF OnTop
    <2> QED BY <1>5, <1>6, <2>1
  <1>8. \A n \in Nat : PointOf(cps, n, k) <=> n > from /\ n <= N
    BY <1>6 DEF OnTop, L
  <1>9. Last(cps).frame = k /\ PointOf(cps, N, k)
    <2>1. N > from /\ N <= N /\ N \in Nat
      BY <1>1, <1>2
    <2>2. PointOf(cps, N, k)
      BY <1>8, <2>1
    <2> QED BY <1>5, <2>2 DEF PointOf
  <1>10. Aside(cps2, cps, k)
    <2> USE DEF Aside
    <2> TAKE n \in Nat
    <2> TAKE j
    <2>1. n = N \/ n \in 1 .. N - 1 \/ n \notin 1 .. N
      BY <1>2
    <2>2. N \notin 1 .. N - 1 /\ \A i \in 1 .. N - 1 : i \in 1 .. N
      BY <1>2
    <2> QED BY <1>2, <1>3, <1>9, <2>1, <2>2 DEF PointOf
  <1>11. \A n \in Nat : PointOf(cps2, n, k) <=> n > from /\ n <= from + Len(tries2)
    <2> TAKE n \in Nat
    <2>1. from + Len(tries2) = N - 1
      BY <1>1, <1>4
    <2>2. n \in 1 .. N - 1 => n \in 1 .. N /\ n <= N - 1
      BY <1>2
    <2>3. n <= N - 1 => n <= N /\ n # N
      BY <1>2
    <2>4. n \in 1 .. N /\ n # N => n \in 1 .. N - 1
      BY <1>2
    <2>5. PointOf(cps2, n, k) => PointOf(cps, n, k) /\ n <= N - 1
      BY <1>2, <1>3, <2>2 DEF PointOf
    <2>6. PointOf(cps, n, k) /\ n <= N - 1 => PointOf(cps2, n, k)
      BY <1>2, <1>3, <2>3, <2>4 DEF PointOf
    <2> QED BY <1>8, <2>1, <2>3, <2>5, <2>6
  <1>12. \A m \in DOMAIN tries2 : /\ cps2[from + m].handler = tries2[m].handler
                                  /\ cps2[from + m].size = base - 1 + tries2[m].size
    <2> TAKE m \in DOMAIN tries2
    <2>1. m \in 1 .. L - 1 /\ m \in DOMAIN tries
      BY <1>1, <1>4
    <2>2. from + m \in 1 .. N - 1
      BY <1>1, <2>1
    <2>3. cps[from + m].handler = tries[m].handler /\ cps[from + m].size = base - 1 + tries[m].size
      BY <2>1 DEF OnTop
    <2> QED BY <1>3, <1>4, <2>1, <2>2, <2>3
  <1>13. TriesStand(cps2, k, base, tries2)
    BY <1>1, <1>11, <1>12 DEF TriesStand
  <1>14. cps # <<>> /\ PointGone(cps2, cps)
    BY <1>2, <1>3 DEF PointGone, CatchPoints
  <1> QED BY <1>5, <1>6, <1>7, <1>9, <1>10, <1>13, <1>14 DEF L

LEMMA SetCatchKeeps == ASSUME IInv, SetCatchPoint PROVE IInv'
  <1>1. /\ outcome = "running" /\ Instruction.op = "SetCatchPoint" /\ ValuesInv /\ Instruction.arg \in Nat
    BY RunsOp DEF SetCatchPoint
  <1>2. PICK s : StandsAs(s)
    BY <1>1, Running
  <1> DEFINE m == Len(frames)
             base == Frame.base
             ip == Frame.ip + 1
             fn == Frame.fn
             handler == Frame.ip + 1 + Instruction.arg
             e == [size |-> Len(stack), frame |-> m, handler |-> handler]
             try == [size |-> s.height, handler |-> handler]
             t == ShapeAfter(code, Frame.ip, s, Instruction)
  <1>3. /\ frames' = Next1 /\ catchPoints' = Append(catchPoints, e)
        /\ UNCHANGED <<loaded, elsewhere, stack, upvalues, openUpvalues, globals, outcome>>
    BY DEF SetCatchPoint
  <1>4. /\ base \in Nat \ {0} /\ s.height \in Nat \ {0} /\ base + s.height = Len(stack) + 1
        /\ Len(stack) \in Nat /\ WellShaped(s)
    BY <1>1, <1>2, Running, StandingFacts
  <1>5. /\ m \in Nat \ {0} /\ m \in DOMAIN frames /\ Frame = frames[m]
        /\ Frame.ip \in Nat /\ DOMAIN frames = 1 .. m
    BY <1>1, Running
  <1>6. s.tries \in Seq(TrySet)
    BY <1>4 DEF WellShaped, AllShapes, TrySet
  <1>7. ip \in DOMAIN Function.code /\ ip \in Nat /\ t \in ShapesAt(fn, ip)
    BY <1>1, <1>2, Falling
  <1>8. /\ t.height = s.height /\ t.known = s.known /\ t.captured = s.captured
        /\ t.tries = Append(s.tries, try)
    <2>1. Rest(s, Instruction) = s
      <3>1. Taken(Instruction) = 0
        BY <1>1 DEF Taken, CallOps
      <3>2. Rest(s, Instruction) = Cut(s, s.height)
        BY <1>1, <1>4, <3>1 DEF Rest
      <3> QED BY <1>4, <3>2, CutWhole
    <2>2. t = Shape(s.height, Append(s.tries, try), s.known, s.captured)
      BY <1>1, <2>1 DEF ShapeAfter, Leaving, Throwing, CallOps
    <2> HIDE DEF t, try
    <2> QED BY <2>2 DEF Shape
  <1>9. handler \in Nat
    BY <1>1, <1>5
  <1> HIDE DEF t, handler, ip
  <1>10. e \in Points /\ e.frame = m /\ e.size = Len(stack) /\ e.handler = handler
    BY <1>4, <1>5, <1>9 DEF Points
  <1>11. try \in TrySet /\ try.size = s.height /\ try.handler = handler
    BY <1>4, <1>9 DEF TrySet
  <1> HIDE DEF e, try, base, m, fn
  <1>12. base - 1 + s.height = Len(stack)
    BY <1>4
  <1>13. PICK from \in Nat : OnTop(catchPoints, from, m, base, s.tries)
    <2>1. TriesStand(catchPoints, m, base, s.tries)
      BY <1>2 DEF StandsAs, Holds, m, base
    <2>2. /\ \A n \in DOMAIN catchPoints : catchPoints[n].frame \in 1 .. m
          /\ catchPoints \in CatchPoints
      BY <1>5, PointFacts
    <2>3. \A n \in DOMAIN catchPoints : catchPoints[n].frame <= m
      BY <1>5, <2>2
    <2> QED BY <1>5, <1>6, <2>1, <2>3, TriesOnTop
  <1>14. /\ TriesStand(catchPoints', m, base, t.tries) /\ PointAdded(catchPoints', catchPoints, e)
         /\ Aside(catchPoints', catchPoints, m)
    <2>1. e.frame = m /\ e.handler = try.handler /\ e.size = base - 1 + try.size
      BY <1>10, <1>11, <1>12
    <2> QED BY <1>3, <1>8, <1>10, <1>11, <1>13, <2>1, PointPushed
  <1>15. Holds(stack', upvalues', openUpvalues', catchPoints', m, base, t, Len(stack') + 1)
    <2>1. /\ base + s.height = Len(stack) + 1 /\ \A p \in s.known : IsA(stack[base + p[1]], p[2])
          /\ \A u \in openUpvalues : base <= upvalues[u].slot /\ upvalues[u].slot < Len(stack) + 1 =>
                upvalues[u].slot - base \in s.captured
      BY <1>2 DEF StandsAs, Holds, base
    <2> QED BY <1>3, <1>8, <1>14, <2>1 DEF Holds
  <1>16. /\ frames' \in Seq(FrameSet) /\ Len(frames') = m /\ \A j \in 1 .. m - 1 : frames'[j] = frames[j]
         /\ frames'[m].base = base /\ frames'[m].fn = fn /\ frames'[m].ip = ip
    <2>1. frames' = At(frames, ip)
      BY <1>3 DEF Next1, ip
    <2>2. /\ At(frames, ip) \in Seq(FrameSet) /\ Len(At(frames, ip)) = m
          /\ \A j \in 1 .. m - 1 : At(frames, ip)[j] = frames[j]
          /\ At(frames, ip)[m] = [Frame EXCEPT !.ip = ip]
      BY <1>1, <1>7, AtFrames DEF m
    <2>3. /\ [Frame EXCEPT !.ip = ip].fn = fn /\ [Frame EXCEPT !.ip = ip].base = base
          /\ [Frame EXCEPT !.ip = ip].ip = ip
      BY <1>1, <1>7, AtFrames DEF fn, base
    <2> QED BY <2>1, <2>2, <2>3
  <1>17. ValuesInv'
    <2>1. /\ stack' \in Seq(Safe) /\ upvalues' \in Seq(UpvalueSet) /\ DOMAIN upvalues \subseteq DOMAIN upvalues'
          /\ openUpvalues' = {u \in DOMAIN upvalues' : upvalues'[u].open}
          /\ UNCHANGED <<loaded, elsewhere, globals>>
      BY <1>1, <1>3 DEF ValuesInv
    <2>2. Shared'
      BY <1>1, <1>3 DEF ValuesInv, Shared
    <2> QED BY <1>1, <1>14, <1>16, <2>1, <2>2, ValuesMove DEF PointAdded
  <1>18. PointsInv'
    <2> DEFINE N == Len(catchPoints)
    <2>1. DOMAIN frames' = 1 .. m
      BY <1>16
    <2>2. /\ N \in Nat /\ \A n \in 1 .. N : catchPoints[n].frame \in 1 .. m
          /\ \A i, n \in 1 .. N : i < n => catchPoints[i].frame <= catchPoints[n].frame
      BY <1>5, PointFacts
    <2>3. /\ DOMAIN catchPoints' = 1 .. N + 1 /\ catchPoints'[N + 1].frame = m
          /\ \A n \in 1 .. N : catchPoints'[n].frame = catchPoints[n].frame
      BY <1>10, <1>14 DEF PointAdded
    <2> HIDE DEF N
    <2>4. \A n \in 1 .. N + 1 : catchPoints'[n].frame \in 1 .. m
      <3>1. \A n \in 1 .. N + 1 : n = N + 1 \/ n \in 1 .. N
        BY <2>2
      <3> QED BY <1>5, <2>2, <2>3, <3>1
    <2>5. \A i, n \in 1 .. N + 1 : i < n => catchPoints'[i].frame <= catchPoints'[n].frame
      <3> TAKE i, n \in 1 .. N + 1
      <3>1. CASE n = N + 1
        <4>1. catchPoints'[i].frame \in 1 .. m /\ catchPoints'[n].frame = m
          BY <2>3, <2>4, <3>1
        <4> QED BY <1>5, <4>1
      <3>2. CASE n # N + 1
        <4>1. n \in 1 .. N /\ (i < n => i \in 1 .. N)
          BY <2>2, <3>2
        <4> QED BY <2>2, <2>3, <4>1
      <3> QED BY <3>1, <3>2
    <2> QED BY <2>1, <2>3, <2>4, <2>5 DEF PointsInv
  <1>19. \A k \in 1 .. m - 1 : \A n \in Nat :
            /\ PointOf(catchPoints', n, k) <=> PointOf(catchPoints, n, k)
            /\ PointOf(catchPoints, n, k) => catchPoints'[n] = catchPoints[n]
    <2> TAKE k \in 1 .. m - 1
    <2>1. k # m
      BY <1>5
    <2> QED BY <1>14, <2>1 DEF Aside
  <1>20. \A u \in openUpvalues' : /\ u \in openUpvalues /\ upvalues'[u].slot = upvalues[u].slot
                                  /\ upvalues'[u].slot \in 1 .. Len(stack')
    BY <1>1, <1>3, OpenOnStack
  <1>21. fn = frames[m].fn /\ base = frames[m].base /\ ip \in DOMAIN code[fn].code
    BY <1>5, <1>7 DEF Function, fn, base
  <1>22. UNCHANGED loaded /\ outcome' = "running" /\ \A p \in 1 .. base - 1 : stack'[p] = stack[p]
    BY <1>1, <1>3
  <1> QED BY <1>1, <1>5, <1>7, <1>15, <1>16, <1>17, <1>18, <1>19, <1>20, <1>21, <1>22, Resumes, SMTT(60)

\* Catch points taken off the end leave the others in order.
LEMMA PointsStay ==
  ASSUME IInv, PointGone(catchPoints', catchPoints),
         NEW m \in Nat, Len(frames') = m, NEW S, frames' \in Seq(S),
         \A n \in DOMAIN catchPoints : catchPoints[n].frame <= m
  PROVE  PointsInv'
  <1>1. DOMAIN frames' = 1 .. m
    OBVIOUS
  <1>2. \A n \in DOMAIN catchPoints : catchPoints[n].frame \in 1 .. m
    <2>1. \A k \in DOMAIN frames : k \in Nat /\ k # 0
      <3>1. frames \in Seq(FrameSet)
        BY DEF IInv, ValuesInv
      <3> QED BY <3>1
    <2>2. \A n \in DOMAIN catchPoints : catchPoints[n].frame \in DOMAIN frames
      BY PointFacts
    <2>3. \A x \in Nat : x # 0 /\ x <= m => x \in 1 .. m
      OBVIOUS
    <2> QED BY <2>1, <2>2, <2>3
  <1>3. \A i, n \in DOMAIN catchPoints : i < n => catchPoints[i].frame <= catchPoints[n].frame
    BY PointFacts
  <1> QED BY <1>1, <1>2, <1>3 DEF PointsInv, PointGone

LEMMA ClearCatchKeeps == ASSUME IInv, ClearCatchPoint PROVE IInv'
  <1>1. /\ outcome = "running" /\ Instruction.op = "ClearCatchPoint" /\ ValuesInv
    BY RunsOp DEF ClearCatchPoint
  <1>2. PICK s : StandsAs(s)
    BY <1>1, Running
  <1> DEFINE m == Len(frames)
             base == Frame.base
             ip == Frame.ip + 1
             fn == Frame.fn
             t == ShapeAfter(code, Frame.ip, s, Instruction)
  <1>3. /\ frames' = Next1 /\ catchPoints' = Popped(catchPoints)
        /\ UNCHANGED <<loaded, elsewhere, stack, upvalues, openUpvalues, globals, outcome>>
    BY DEF ClearCatchPoint
  <1>4. /\ base \in Nat \ {0} /\ s.height \in Nat \ {0} /\ base + s.height = Len(stack) + 1
        /\ Len(stack) \in Nat /\ WellShaped(s) /\ s.tries # <<>>
    <2>1. Allowed(code, Function, Frame.ip, s)
      BY <1>1, <1>2, StandingFacts
    <2>2. s.tries # <<>>
      BY <1>1, <2>1 DEF Allowed, Instruction
    <2> QED BY <1>1, <1>2, <2>2, Running, StandingFacts
  <1>5. /\ m \in Nat \ {0} /\ m \in DOMAIN frames /\ Frame = frames[m]
        /\ Frame.ip \in Nat /\ DOMAIN frames = 1 .. m
    BY <1>1, Running
  <1>6. s.tries \in Seq(TrySet)
    BY <1>4 DEF WellShaped, AllShapes, TrySet
  <1>7. ip \in DOMAIN Function.code /\ ip \in Nat /\ t \in ShapesAt(fn, ip)
    BY <1>1, <1>2, Falling
  <1>8. /\ t.height = s.height /\ t.known = s.known /\ t.captured = s.captured
        /\ t.tries = Front(s.tries)
    <2>1. Rest(s, Instruction) = s
      <3>1. Taken(Instruction) = 0
        BY <1>1 DEF Taken, CallOps
      <3>2. Rest(s, Instruction) = Cut(s, s.height)
        BY <1>1, <1>4, <3>1 DEF Rest
      <3> QED BY <1>4, <3>2, CutWhole
    <2>2. t = Shape(s.height, Front(s.tries), s.known, s.captured)
      BY <1>1, <2>1 DEF ShapeAfter, Leaving, Throwing, CallOps
    <2> HIDE DEF t
    <2> QED BY <2>2 DEF Shape
  <1> HIDE DEF t, ip, base, m, fn
  <1>9. \A n \in DOMAIN catchPoints : catchPoints[n].frame <= m
    <2>1. \A n \in DOMAIN catchPoints : catchPoints[n].frame \in 1 .. m
      BY <1>5, PointFacts
    <2> QED BY <1>5, <2>1
  <1>10. PICK from \in Nat : OnTop(catchPoints, from, m, base, s.tries)
    <2>1. TriesStand(catchPoints, m, base, s.tries)
      BY <1>2 DEF StandsAs, Holds, m, base
    <2> QED BY <1>5, <1>6, <1>9, <2>1, TriesOnTop
  <1>11. /\ catchPoints # <<>> /\ TriesStand(Front(catchPoints), m, base, t.tries)
         /\ PointGone(Front(catchPoints), catchPoints) /\ Aside(Front(catchPoints), catchPoints, m)
    BY <1>4, <1>8, <1>10, PointPopped
  <1>12. catchPoints' = Front(catchPoints)
    BY <1>3, <1>11 DEF Popped
  <1>13. /\ TriesStand(catchPoints', m, base, t.tries) /\ PointGone(catchPoints', catchPoints)
         /\ Aside(catchPoints', catchPoints, m)
    BY <1>11, <1>12
  <1>14. Holds(stack', upvalues', openUpvalues', catchPoints', m, base, t, Len(stack') + 1)
    <2>1. /\ base + s.height = Len(stack) + 1 /\ \A p \in s.known : IsA(stack[base + p[1]], p[2])
          /\ \A u \in openUpvalues : base <= upvalues[u].slot /\ upvalues[u].slot < Len(stack) + 1 =>
                upvalues[u].slot - base \in s.captured
      BY <1>2 DEF StandsAs, Holds, base
    <2> QED BY <1>3, <1>8, <1>13, <2>1 DEF Holds
  <1>15. /\ frames' \in Seq(FrameSet) /\ Len(frames') = m /\ \A j \in 1 .. m - 1 : frames'[j] = frames[j]
         /\ frames'[m].base = base /\ frames'[m].fn = fn /\ frames'[m].ip = ip
    <2>1. frames' = At(frames, ip)
      BY <1>3 DEF Next1, ip
    <2>2. /\ At(frames, ip) \in Seq(FrameSet) /\ Len(At(frames, ip)) = m
          /\ \A j \in 1 .. m - 1 : At(frames, ip)[j] = frames[j]
          /\ At(frames, ip)[m] = [Frame EXCEPT !.ip = ip]
      BY <1>1, <1>7, AtFrames DEF m
    <2>3. /\ [Frame EXCEPT !.ip = ip].fn = fn /\ [Frame EXCEPT !.ip = ip].base = base
          /\ [Frame EXCEPT !.ip = ip].ip = ip
      BY <1>1, <1>7, AtFrames DEF fn, base
    <2> QED BY <2>1, <2>2, <2>3
  <1>16. ValuesInv'
    <2>1. /\ stack' \in Seq(Safe) /\ upvalues' \in Seq(UpvalueSet) /\ DOMAIN upvalues \subseteq DOMAIN upvalues'
          /\ openUpvalues' = {u \in DOMAIN upvalues' : upvalues'[u].open}
          /\ UNCHANGED <<loaded, elsewhere, globals>>
      BY <1>1, <1>3 DEF ValuesInv
    <2>2. Shared'
      BY <1>1, <1>3 DEF ValuesInv, Shared
    <2> QED BY <1>1, <1>13, <1>15, <2>1, <2>2, ValuesMove DEF PointGone
  <1>17. PointsInv'
    BY <1>5, <1>9, <1>13, <1>15, PointsStay
  <1>18. \A k \in 1 .. m - 1 : \A n \in Nat :
            /\ PointOf(catchPoints', n, k) <=> PointOf(catchPoints, n, k)
            /\ PointOf(catchPoints, n, k) => catchPoints'[n] = catchPoints[n]
    <2> TAKE k \in 1 .. m - 1
    <2>1. k # m
      BY <1>5
    <2> QED BY <1>13, <2>1 DEF Aside
  <1>19. \A u \in openUpvalues' : /\ u \in openUpvalues /\ upvalues'[u].slot = upvalues[u].slot
                                  /\ upvalues'[u].slot \in 1 .. Len(stack')
    BY <1>1, <1>3, OpenOnStack
  <1>20. fn = frames[m].fn /\ base = frames[m].base /\ ip \in DOMAIN code[fn].code
    BY <1>5, <1>7 DEF Function, fn, base
  <1>21. UNCHANGED loaded /\ outcome' = "running" /\ \A p \in 1 .. base - 1 : stack'[p] = stack[p]
    BY <1>1, <1>3
  <1> QED BY <1>1, <1>5, <1>7, <1>14, <1>15, <1>16, <1>17, <1>18, <1>19, <1>20, <1>21, Resumes, SMTT(60)

\* The slot above those of the k-th frame, when the instruction that runs has
\* taken its own.
EndOf(k) == IF k = Len(frames) THEN Len(stack) - Taken(Instruction) + 1 ELSE frames[k + 1].base

\* In the k-th frame the error comes from instruction i, in shape s.
Thrower(k, i, s) ==
    /\ i \in DOMAIN code[frames[k].fn].code /\ IpOf(k) = i + 1
    /\ code[frames[k].fn].code[i].op \in Throwing /\ s \in ShapesAt(frames[k].fn, i)
    /\ Holds(stack, upvalues, openUpvalues, catchPoints, k, frames[k].base,
             Rest(s, code[frames[k].fn].code[i]), EndOf(k))

\* The frame that throws, and every one a throw may pass through, stands at an
\* instruction that can throw, in the shape it leaves when it has taken its own.
LEMMA Throws ==
  ASSUME IInv, outcome = "running", Instruction.op \in Throwing, NEW k \in DOMAIN frames
  PROVE  \E i, s : Thrower(k, i, s)
  <1>1. CASE k = Len(frames)
    <2>1. PICK s : StandsAs(s)
      BY Running
    <2> DEFINE h == s.height - Taken(Instruction)
    <2>2. Instruction.op # "CloseUpvalue"
      BY DEF Throwing, CallOps
    <2>3. Len(stack) - Taken(Instruction) = Frame.base + h - 1 /\ h \in Nat \ {0} /\ Frame.base \in Nat
      BY <2>1, <2>2, Rests, Running
    <2>4. Holds(stack, upvalues, openUpvalues, catchPoints, Len(frames), Frame.base,
                Rest(s, Instruction), Frame.base + h)
      BY <2>1, <2>2, Remains
    <2>5. EndOf(k) = Frame.base + h
      BY <1>1, <2>3 DEF EndOf
    <2>6. Frame = frames[k] /\ IpOf(k) = Frame.ip + 1
      BY <1>1, Running DEF IpOf
    <2>7. Instruction = code[frames[k].fn].code[Frame.ip] /\ Frame.ip \in DOMAIN code[frames[k].fn].code
          /\ s \in ShapesAt(frames[k].fn, Frame.ip)
      BY <2>1, <2>6 DEF Instruction, Function, StandsAs
    <2>8. Thrower(k, Frame.ip, s)
      BY <1>1, <2>4, <2>5, <2>6, <2>7 DEF Thrower
    <2> QED BY <2>8
  <1>2. CASE k # Len(frames)
    <2>1. k \in 1 .. Len(frames) - 1 /\ Len(frames) \in Nat /\ k \in Nat
      BY <1>2, Running
    <2>2. PICK r \in Waits(frames[k]) :
             Holds(stack, upvalues, openUpvalues, catchPoints, k, frames[k].base, r, frames[k + 1].base)
      BY <2>1 DEF IInv, ShapesInv, FramesInv
    <2> DEFINE at == frames[k].ip - 1
    <2>3. PICK s \in ShapesAt(frames[k].fn, at) :
             /\ at \in DOMAIN code[frames[k].fn].code /\ code[frames[k].fn].code[at].op \in CallOps
             /\ r = Rest(s, code[frames[k].fn].code[at])
      BY <2>2 DEF Waits, ShapesAt
    <2>4. IpOf(k) = at + 1
      <3>1. frames[k].ip \in Nat
        BY FrameFacts DEF IInv
      <3> QED BY <1>2, <3>1 DEF IpOf
    <2>5. EndOf(k) = frames[k + 1].base
      BY <1>2 DEF EndOf
    <2>6. Thrower(k, at, s)
      BY <2>2, <2>3, <2>4, <2>5 DEF Thrower, Throwing
    <2> QED BY <2>6
  <1> QED BY <1>1, <1>2

\* What an error leaves of the k-th frame, and where it may be caught there.
LEMMA ThrowerFacts ==
  ASSUME IInv, outcome = "running", Instruction.op \in Throwing, NEW k \in DOMAIN frames,
         NEW i, NEW s, Thrower(k, i, s),
         NEW fc, fc = code[frames[k].fn], NEW r, r = Rest(s, fc.code[i])
  PROVE  /\ WellShaped(r) /\ r.height \in Nat \ {0} /\ i \in Nat
         /\ frames[k].base \in Nat \ {0} /\ frames[k].base + r.height = EndOf(k)
         /\ EndOf(k) \in Nat \ {0} /\ Len(stack) - Taken(Instruction) \in Nat
         /\ Taken(Instruction) \in 0 .. Len(stack) /\ EndOf(k) <= Len(stack) - Taken(Instruction) + 1
         /\ \A q \in Caught(fc, i, r) :
               /\ q[1] \in DOMAIN fc.code /\ q[1] \in Nat /\ Push(q[2], {}) \in ShapesAt(frames[k].fn, q[1])
               /\ WellShaped(q[2]) /\ q[2].height <= r.height
  <1>1. frames[k].fn \in DOMAIN code /\ frames[k].base \in Nat \ {0} /\ CodeInv /\ k \in 1 .. Len(frames)
        /\ Len(frames) \in Nat
    BY FrameFacts DEF IInv
  <1>2. i \in DOMAIN fc.code /\ fc.code[i].op \in Throwing /\ s \in ShapesAt(frames[k].fn, i)
        /\ frames[k].base + r.height = EndOf(k)
    BY DEF Thrower, Holds
  <1>3. /\ i \in Nat /\ WellShaped(r) /\ Allowed(code, fc, i, s)
        /\ \A q \in Flow(code, Log, fc, i, s) :
              q[1] \in DOMAIN fc.code /\ q[2] \in ShapesAt(frames[k].fn, q[1])
        /\ \A n \in DOMAIN fc.code : n \in Nat
    BY <1>1, <1>2, CodeFacts
  <1>4. r.height \in Nat \ {0}
    BY <1>3 DEF WellShaped, AllShapes
  <1>5. EndOf(k) \in Nat \ {0}
    BY <1>1, <1>2, <1>4
  <1>6. Taken(Instruction) \in 0 .. Len(stack) /\ Len(stack) - Taken(Instruction) \in Nat
        /\ Frame.base <= Len(stack) - Taken(Instruction) /\ Frame.base \in Nat
    <2>1. PICK s0 : StandsAs(s0)
      BY Running
    <2>2. Instruction.op # "CloseUpvalue"
      BY DEF Throwing, CallOps
    <2> DEFINE h == s0.height - Taken(Instruction)
    <2>3. /\ Taken(Instruction) \in 0 .. Len(stack) /\ Len(stack) - Taken(Instruction) = Frame.base + h - 1
          /\ h \in Nat \ {0}
      BY <2>1, <2>2, Rests
    <2>4. Frame.base \in Nat /\ Len(stack) \in Nat
      BY <2>1, Running, StandingFacts
    <2> QED BY <2>3, <2>4
  <1>7. EndOf(k) <= Len(stack) - Taken(Instruction) + 1
    <2>1. CASE k = Len(frames)
      BY <1>6, <2>1 DEF EndOf
    <2>2. CASE k # Len(frames)
      <3>1. k + 1 \in 1 .. Len(frames) /\ DOMAIN frames = 1 .. Len(frames) /\ Frame = frames[Len(frames)]
        BY <1>1, <2>2, Running
      <3>2. \A a, b \in DOMAIN frames : a < b => frames[a].base < frames[b].base
        BY DEF IInv, ShapesInv, FramesInv
      <3>3. frames[k + 1].base \in Nat
        BY <3>1, FrameFacts DEF IInv
      <3>4. frames[k + 1].base <= Frame.base
        <4>1. k + 1 = Len(frames) \/ k + 1 < Len(frames)
          BY <3>1
        <4>2. Len(frames) \in DOMAIN frames /\ k + 1 \in DOMAIN frames
          BY <1>1, <3>1
        <4> QED BY <1>6, <3>1, <3>2, <3>3, <4>1, <4>2
      <3>5. EndOf(k) = frames[k + 1].base
        BY <2>2 DEF EndOf
      <3> QED BY <1>6, <3>3, <3>4, <3>5
    <2> QED BY <2>1, <2>2
  <1>8. ASSUME NEW q \in Caught(fc, i, r)
        PROVE  /\ q[1] \in DOMAIN fc.code /\ q[1] \in Nat /\ Push(q[2], {}) \in ShapesAt(frames[k].fn, q[1])
               /\ WellShaped(q[2]) /\ q[2].height <= r.height
    <2>1. q \in Thrown(fc, i, s, fc.code[i])
      BY <1>2 DEF Thrown
    <2>2. WellShaped(q[2]) /\ q[2].height <= r.height
      BY <1>3, <2>1 DEF Allowed
    <2> DEFINE p == <<q[1], Push(q[2], {})>>
    <2>3. p \in Flow(code, Log, fc, i, s)
      BY <2>1 DEF Flow
    <2>4. p[1] = q[1] /\ p[2] = Push(q[2], {})
      OBVIOUS
    <2> HIDE DEF p
    <2> QED BY <1>3, <2>2, <2>3, <2>4
  <1> QED BY <1>1, <1>2, <1>3, <1>4, <1>5, <1>6, <1>7, <1>8

\* The m-th frame is the innermost again, and upvalues above it are closed.
LEMMA Unwinds ==
  ASSUME IInv, outcome = "running", Instruction.op \in Throwing, NEW m \in DOMAIN frames,
         NEW st, st \in Seq(Safe), NEW ip \in Nat, UnwindTo(m, ip, st)
  PROVE  /\ upvalues' \in Seq(UpvalueSet) /\ DOMAIN upvalues' = DOMAIN upvalues
         /\ openUpvalues' = {u \in DOMAIN upvalues' : upvalues'[u].open} /\ Shared'
         /\ \A u \in openUpvalues' : /\ u \in openUpvalues /\ upvalues'[u] = upvalues[u]
                                     /\ upvalues[u].slot < EndOf(m)
         /\ frames' \in Seq(FrameSet) /\ Len(frames') = m /\ \A j \in 1 .. m - 1 : frames'[j] = frames[j]
         /\ frames'[m].base = frames[m].base /\ frames'[m].fn = frames[m].fn /\ frames'[m].ip = ip
  <1>1. /\ frames \in Seq(FrameSet) /\ m \in 1 .. Len(frames) /\ Len(frames) \in Nat /\ m \in Nat \ {0}
        /\ ValuesInv
    BY Running DEF IInv
  <1>2. /\ frames' \in Seq(FrameSet) /\ Len(frames') = m /\ \A j \in 1 .. m - 1 : frames'[j] = frames[j]
        /\ frames'[m].base = frames[m].base /\ frames'[m].fn = frames[m].fn /\ frames'[m].ip = ip
    <2> DEFINE cut == SubSeq(frames, 1, m)
               f == [frames[m] EXCEPT !.ip = ip]
    <2>1. cut \in Seq(FrameSet) /\ Len(cut) = m /\ \A j \in 1 .. m : cut[j] = frames[j]
      <3>1. m \in 0 .. Len(frames)
        BY <1>1
      <3> QED BY <1>1, <3>1, CutSeq
    <2>2. frames[m] \in FrameSet
      BY <1>1
    <2>3. f \in FrameSet /\ f.base = frames[m].base /\ f.fn = frames[m].fn /\ f.ip = ip
      BY <2>2 DEF FrameSet
    <2> HIDE DEF cut
    <2>4. frames' = [cut EXCEPT ![m] = f]
      <3>1. cut[m] = frames[m]
        BY <1>1, <2>1
      <3>2. frames' = At(cut, ip)
        BY DEF UnwindTo, cut
      <3> QED BY <2>1, <3>1, <3>2 DEF At
    <2> HIDE DEF f
    <2>5. m \in 1 .. Len(cut)
      BY <1>1, <2>1
    <2>6. /\ frames' \in Seq(FrameSet) /\ Len(frames') = m
          /\ \A j \in 1 .. m : frames'[j] = IF j = m THEN f ELSE cut[j]
      BY <2>1, <2>3, <2>4, <2>5, ExceptSeq
    <2>7. \A j \in 1 .. m - 1 : j \in 1 .. m /\ j # m
      BY <1>1
    <2>8. m \in 1 .. m
      BY <1>1
    <2> QED BY <2>1, <2>3, <2>6, <2>7, <2>8
  <1>3. CASE m = Len(frames)
    <2>1. upvalues' = upvalues /\ openUpvalues' = openUpvalues
      BY <1>3 DEF UnwindTo
    <2>2. ASSUME NEW u \in openUpvalues
          PROVE  upvalues[u].slot < EndOf(m)
      <3>1. PICK s : StandsAs(s)
        BY Running
      <3>2. Instruction.op # "CloseUpvalue"
        BY DEF Throwing, CallOps
      <3> DEFINE h == s.height - Taken(Instruction)
                 len == Len(stack) - Taken(Instruction)
      <3>3. /\ len = Frame.base + h - 1 /\ h \in Nat \ {0}
            /\ upvalues[u].slot \in 1 .. Frame.base + h - 1 /\ Frame.base \in Nat
        BY <3>1, <3>2, Rests, Running
      <3>4. EndOf(m) = len + 1
        BY <1>3 DEF EndOf
      <3> HIDE DEF h, len
      <3> QED BY <3>3, <3>4
    <2>3. upvalues \in Seq(UpvalueSet) /\ openUpvalues = {u \in DOMAIN upvalues : upvalues[u].open} /\ Shared
      BY <1>1 DEF ValuesInv
    <2>4. Shared'
      BY <2>1, <2>3 DEF Shared
    <2> QED BY <1>2, <2>1, <2>2, <2>3, <2>4
  <1>4. CASE m # Len(frames)
    <2>1. CloseUpvalues(st, frames[m + 1].base) /\ EndOf(m) = frames[m + 1].base
      BY <1>4 DEF UnwindTo, EndOf
    <2>2. \A k : Get(st, k) \in Safe
      BY ConstantsSafe DEF Get
    <2>3. /\ upvalues' \in Seq(UpvalueSet) /\ DOMAIN upvalues' = DOMAIN upvalues
          /\ openUpvalues' = {u \in DOMAIN upvalues' : upvalues'[u].open}
          /\ \A u \in openUpvalues' : /\ u \in openUpvalues /\ u \notin Closing(EndOf(m))
                                      /\ upvalues'[u] = upvalues[u]
          /\ Shared'
      BY <1>1, <2>1, <2>2, Closes
    <2>4. ASSUME NEW u \in openUpvalues'
          PROVE  upvalues[u].slot < EndOf(m)
      <3>1. u \in openUpvalues /\ ~(upvalues[u].slot >= EndOf(m))
        BY <2>3 DEF Closing
      <3>2. upvalues[u].slot \in Nat
        BY <3>1, OpenOnStack
      <3>3. m + 1 \in DOMAIN frames
        BY <1>1, <1>4, Running
      <3>4. EndOf(m) \in Nat
        BY <2>1, <3>3, FrameFacts DEF IInv
      <3> QED BY <3>1, <3>2, <3>4
    <2> QED BY <1>2, <2>3, <2>4
  <1> QED BY <1>3, <1>4

\* An error that is caught in the m-th frame, at q.
LEMMA CaughtKeeps ==
  ASSUME IInv, outcome = "running", Instruction.op \in Throwing, UNCHANGED <<loaded, elsewhere, globals, outcome>>,
         NEW m \in DOMAIN frames, NEW i, NEW s, Thrower(m, i, s),
         NEW fc, fc = code[frames[m].fn], NEW r, r = Rest(s, fc.code[i]),
         NEW q \in Caught(fc, i, r),
         q[2] = Shape(q[2].height, q[2].tries, {p \in r.known : p[1] < q[2].height}, r.captured),
         NEW base, base = frames[m].base,
         NEW st, st = Drop(Taken(Instruction)), UnwindTo(m, q[1], st),
         NEW v \in Safe, stack' = Append(Truncate(st, base - 1 + q[2].height), v),
         TriesStand(catchPoints', m, base, q[2].tries),
         PointGone(catchPoints', catchPoints), Aside(catchPoints', catchPoints, m),
         \A n \in DOMAIN catchPoints : catchPoints[n].frame <= m
  PROVE  IInv'
  <1> DEFINE h == q[2].height
             end == base + h
             len == Len(stack) - Taken(Instruction)
             t == Push(q[2], {})
  <1>1. /\ WellShaped(r) /\ base \in Nat \ {0} /\ base + r.height = EndOf(m) /\ r.height \in Nat \ {0}
        /\ EndOf(m) \in Nat \ {0} /\ len \in Nat /\ Taken(Instruction) \in 0 .. Len(stack)
        /\ EndOf(m) <= len + 1
        /\ q[1] \in DOMAIN fc.code /\ q[1] \in Nat /\ t \in ShapesAt(frames[m].fn, q[1])
        /\ WellShaped(q[2]) /\ h <= r.height
    BY ThrowerFacts
  <1>2. /\ h \in Nat \ {0} /\ \A slot \in r.captured : slot \in 1 .. h - 1
        /\ q[2].known = {p \in r.known : p[1] < h} /\ q[2].captured = r.captured
    <2>1. q[2].known = {p \in r.known : p[1] < h} /\ q[2].captured = r.captured
      BY DEF Shape
    <2> QED BY <1>1, <2>1 DEF WellShaped, AllShapes
  <1> HIDE DEF h, len, t
  <1>a. /\ base \in Nat \ {0} /\ h \in Nat \ {0} /\ len \in Nat /\ r.height \in Nat /\ h <= r.height
        /\ base + r.height = EndOf(m) /\ EndOf(m) <= len + 1 /\ EndOf(m) \in Nat
    BY <1>1, <1>2
  <1>3. end - 1 \in 0 .. len /\ end \in Nat \ {0} /\ end - 1 = base - 1 + h
    BY ONLY <1>a
  <1>4. /\ ValuesInv /\ st \in Seq(Safe) /\ Len(st) = len
        /\ \A p \in 1 .. len : st[p] = stack[p]
    BY <1>1, DropSafe DEF IInv, len
  <1>5. /\ upvalues' \in Seq(UpvalueSet) /\ DOMAIN upvalues' = DOMAIN upvalues
        /\ openUpvalues' = {u \in DOMAIN upvalues' : upvalues'[u].open} /\ Shared'
        /\ \A u \in openUpvalues' : /\ u \in openUpvalues /\ upvalues'[u] = upvalues[u]
                                    /\ upvalues[u].slot < EndOf(m)
        /\ frames' \in Seq(FrameSet) /\ Len(frames') = m /\ \A j \in 1 .. m - 1 : frames'[j] = frames[j]
        /\ frames'[m].base = base /\ frames'[m].fn = frames[m].fn /\ frames'[m].ip = q[1]
    <2>1. st \in Seq(Safe) /\ q[1] \in Nat
      BY <1>1, <1>4
    <2> QED BY <2>1, Unwinds
  <1>6. /\ stack' \in Seq(Safe) /\ Len(stack') = end /\ stack'[end] = v
        /\ \A p \in 1 .. end - 1 : stack'[p] = stack[p]
    <2> DEFINE n == end - 1
               cut == SubSeq(st, 1, n)
    <2>1. n \in 0 .. Len(st)
      BY <1>3, <1>4
    <2> HIDE DEF n, end
    <2>2. cut \in Seq(Safe) /\ Len(cut) = n /\ \A p \in 1 .. n : cut[p] = st[p]
      BY <1>4, <2>1, CutSeq
    <2>3. Truncate(st, n) = cut
      <3>1. n <= Len(st) /\ n \in Int /\ Len(st) \in Int
        BY <1>4, <2>1
      <3>2. (IF n < Len(st) THEN n ELSE Len(st)) = n
        BY <3>1
      <3> QED BY <3>2 DEF Truncate
    <2>4. stack' = Append(cut, v) /\ v \in Safe
      BY <1>3, <2>3 DEF n, h
    <2> HIDE DEF cut
    <2>5. /\ stack' \in Seq(Safe) /\ Len(stack') = n + 1 /\ stack'[n + 1] = v
          /\ \A p \in 1 .. n : stack'[p] = cut[p]
      BY ONLY <2>2, <2>4, AppendSeq
    <2>6. n + 1 = end
      BY <1>3 DEF n
    <2>7. \A p \in 1 .. n : p \in 1 .. len
      BY <1>4, <2>1
    <2> QED BY <1>4, <2>2, <2>5, <2>6, <2>7 DEF n
  <1>7. \A u \in openUpvalues' : /\ upvalues'[u].slot \in 1 .. end - 1 /\ upvalues'[u].slot \in Nat
                                 /\ upvalues'[u].slot # end /\ u \in openUpvalues
                                 /\ upvalues'[u].slot = upvalues[u].slot
                                 /\ base <= upvalues[u].slot => upvalues[u].slot - base \in r.captured
    <2> TAKE u \in openUpvalues'
    <2> DEFINE k == upvalues[u].slot
    <2>1. u \in openUpvalues /\ upvalues'[u].slot = k /\ k < EndOf(m)
      BY <1>5
    <2>2. k \in 1 .. Len(stack) /\ k \in Nat
      BY <2>1, OpenOnStack
    <2>3. base <= k => k - base \in r.captured
      BY <2>1 DEF Thrower, Holds
    <2> HIDE DEF k
    <2>4. base <= k => k - base \in 1 .. h - 1
      BY <1>2, <2>3
    <2>5. k \in 1 .. end - 1 /\ k # end
      <3>1. CASE base <= k
        BY <1>a, <2>2, <2>4, <3>1
      <3>2. CASE ~(base <= k)
        BY <1>a, <2>2, <3>2
      <3> QED BY <3>1, <3>2
    <2> QED BY <2>1, <2>2, <2>3, <2>5 DEF k
  <1>8. Holds(stack', upvalues', openUpvalues', catchPoints', m, base, q[2], end)
    <2>1. ASSUME NEW p \in q[2].known
          PROVE  IsA(stack'[base + p[1]], p[2])
      <3>1. p \in r.known /\ p[1] \in Nat /\ p[1] < h
        BY <1>1, <1>2 DEF WellShaped, AllShapes
      <3>2. IsA(stack[base + p[1]], p[2])
        BY <3>1 DEF Thrower, Holds
      <3>3. base + p[1] \in 1 .. end - 1
        BY ONLY <1>a, <3>1
      <3> QED BY <1>6, <3>2, <3>3
    <2>2. ASSUME NEW u \in openUpvalues', base <= upvalues'[u].slot
          PROVE  upvalues'[u].slot - base \in q[2].captured
      BY <1>2, <1>7, <2>2
    <2> QED BY <2>1, <2>2 DEF Holds, h
  <1>9. Holds(stack', upvalues', openUpvalues', catchPoints', m, base, t, Len(stack') + 1)
    <2>1. \A u \in openUpvalues' : upvalues'[u].slot \in Nat /\ upvalues'[u].slot # end
      BY <1>7
    <2>2. \A kind \in {} : IsA(stack'[end], kind)
      OBVIOUS
    <2>3. {} \in SUBSET ValueKinds
      OBVIOUS
    <2>4. \A p \in 1 .. end - 1 : stack'[p] = stack'[p]
      OBVIOUS
    <2> HIDE DEF end
    <2>5. Holds(stack', upvalues', openUpvalues', catchPoints', m, base, t, end + 1)
      BY <1>1, <1>8, <2>1, <2>2, <2>3, <2>4, PushHolds DEF t
    <2> QED BY <1>6, <2>5
  <1>10. ValuesInv'
    <2>1. catchPoints' \in CatchPoints /\ DOMAIN upvalues \subseteq DOMAIN upvalues'
      BY <1>5 DEF PointGone
    <2>2. UNCHANGED <<loaded, elsewhere, globals>>
      OBVIOUS
    <2>3. ValuesInv /\ stack' \in Seq(Safe)
      BY ONLY <1>4, <1>6
    <2>4. openUpvalues' = {u \in DOMAIN upvalues' : upvalues'[u].open}
      BY ONLY <1>5
    <2>5. frames' \in Seq(FrameSet) /\ upvalues' \in Seq(UpvalueSet) /\ Shared'
      BY ONLY <1>5
    <2> QED BY ONLY <2>1, <2>2, <2>3, <2>4, <2>5, ValuesMove
  <1>11. PointsInv'
    <2>1. m \in Nat
      BY FrameFacts DEF IInv
    <2> QED BY <1>5, <2>1, PointsStay
  <1>12. \A k \in 1 .. m - 1 : \A n \in Nat :
            /\ PointOf(catchPoints', n, k) <=> PointOf(catchPoints, n, k)
            /\ PointOf(catchPoints, n, k) => catchPoints'[n] = catchPoints[n]
    <2> TAKE k \in 1 .. m - 1
    <2>1. k # m
      <3>1. m \in Nat
        BY FrameFacts DEF IInv
      <3> QED BY <3>1
    <2> QED BY <2>1 DEF Aside
  <1>13. \A u \in openUpvalues' : /\ u \in openUpvalues /\ upvalues'[u].slot = upvalues[u].slot
                                  /\ upvalues'[u].slot \in 1 .. Len(stack')
    <2>1. \A x \in 1 .. end - 1 : x \in 1 .. end
      BY <1>3
    <2> QED BY <1>6, <1>7, <2>1
  <1>14. \A p \in 1 .. base - 1 : stack'[p] = stack[p]
    <2>1. \A p \in 1 .. base - 1 : p \in 1 .. end - 1
      BY <1>a
    <2> QED BY <1>6, <2>1
  <1> DEFINE fn == frames[m].fn
             ip == q[1]
  <1>15. fn = frames[m].fn /\ ip \in DOMAIN code[fn].code /\ t \in ShapesAt(fn, ip)
         /\ frames'[m].fn = fn /\ frames'[m].ip = ip /\ Len(frames') = m
         /\ \A j \in 1 .. m - 1 : frames'[j] = frames[j]
    BY <1>1, <1>5
  <1>16. UNCHANGED loaded /\ outcome' = "running" /\ frames'[m].base = base
    BY <1>5
  <1> HIDE DEF fn, ip, end
  <1>17. IInv /\ outcome = "running" /\ m \in DOMAIN frames /\ base = frames[m].base
    OBVIOUS
  <1> QED BY ONLY <1>17, <1>9, <1>10, <1>11, <1>12, <1>13, <1>14, <1>15, <1>16, Resumes, SMTT(60)

\* A nonempty set of numbers up to some number has a greatest member.
LEMMA MaxMember ==
  ASSUME NEW n \in Nat, NEW P \in SUBSET (1 .. n), P # {}
  PROVE  Max(P) \in P /\ \A j \in P : j <= Max(P)
  <1> DEFINE Q == {n - k : k \in P}
  <1>1. Q \in SUBSET Nat /\ Q # {}
    <2>1. \A k \in P : n - k \in Nat
      OBVIOUS
    <2>2. \E k : k \in P
      OBVIOUS
    <2> QED BY <2>1, <2>2
  <1>2. PICK i \in Q : \A j \in Q : i <= j
    BY <1>1, LeastNatural
  <1>3. PICK k \in P : i = n - k
    BY <1>2
  <1>4. \A j \in P : k >= j
    <2> TAKE j \in P
    <2>1. n - j \in Q
      OBVIOUS
    <2>2. n - k <= n - j
      BY <1>2, <1>3, <2>1
    <2>3. j \in Nat /\ k \in Nat
      OBVIOUS
    <2> HIDE DEF Q
    <2> QED BY <2>2, <2>3
  <1>5. Max(P) \in P /\ \A j \in P : Max(P) >= j
    BY <1>3, <1>4 DEF Max
  <1>6. \A j \in P : j \in Nat
    OBVIOUS
  <1> QED BY <1>5, <1>6

\* A throw unwinds to a catch point or to an entry of a table, in a shape the
\* handler expects, or ends the fiber.
LEMMA ThrowKeeps ==
  ASSUME IInv, outcome = "running", Instruction.op \in Throwing, NEW v \in Safe,
         Throw(v, Drop(Taken(Instruction)))
  PROVE  IInv'
  <1> DEFINE st == Drop(Taken(Instruction))
  <1>0. /\ DOMAIN frames = 1 .. Len(frames) /\ Len(frames) \in Nat /\ ValuesInv
        /\ \A k \in DOMAIN frames : k \in Nat /\ frames[k].base \in Nat \ {0}
    BY Running, FrameFacts DEF IInv
  <1>p. /\ catchPoints \in CatchPoints /\ Len(catchPoints) \in Nat /\ DOMAIN catchPoints = 1 .. Len(catchPoints)
        /\ \A n \in DOMAIN catchPoints : catchPoints[n].frame \in DOMAIN frames
        /\ \A m, n \in DOMAIN catchPoints : m < n => catchPoints[m].frame <= catchPoints[n].frame
    BY PointFacts
  <1>1. CASE catchPoints # <<>>
    <2> DEFINE cp == Last(catchPoints)
               m == cp.frame
               N == Len(catchPoints)
    <2>1. /\ UnwindTo(m, cp.handler, st) /\ stack' = Append(Truncate(st, cp.size), None)
          /\ catchPoints' = Front(catchPoints) /\ UNCHANGED <<loaded, elsewhere, globals, outcome>>
      BY <1>1 DEF Throw
    <2>2. N \in 1 .. N /\ cp = catchPoints[N] /\ m \in DOMAIN frames /\ m \in Nat
      <3>1. N # 0
        BY <1>1, <1>p DEF CatchPoints
      <3>2. cp = catchPoints[N]
        BY DEF Last
      <3> QED BY <1>0, <1>p, <3>1, <3>2
    <2>3. \A n \in DOMAIN catchPoints : catchPoints[n].frame <= m
      <3> TAKE n \in DOMAIN catchPoints
      <3>1. n = N \/ n < N
        BY <1>p
      <3>2. n < N => catchPoints[n].frame <= catchPoints[N].frame
        BY <1>p, <2>2
      <3> QED BY <2>2, <3>1, <3>2
    <2>4. PICK i, s : Thrower(m, i, s)
      BY <2>2, Throws
    <2> DEFINE fc == code[frames[m].fn]
               r == Rest(s, fc.code[i])
               base == frames[m].base
               q == ByTry(r)
    <2>5. WellShaped(r) /\ base \in Nat \ {0}
      BY <2>2, <2>4, ThrowerFacts
    <2>6. r.tries \in Seq(TrySet) /\ TriesStand(catchPoints, m, base, r.tries)
      <3>1. r.tries \in Seq(TrySet)
        BY <2>5 DEF WellShaped, AllShapes, TrySet
      <3>2. TriesStand(catchPoints, m, base, r.tries)
        BY <2>4 DEF Thrower, Holds
      <3> QED BY <3>1, <3>2
    <2> HIDE DEF r, fc, m, cp, base
    <2>7. PICK from \in Nat : OnTop(catchPoints, from, m, base, r.tries)
      BY <2>2, <2>3, <2>6, TriesOnTop
    <2>8. r.tries # <<>>
      <3> SUFFICES ASSUME Len(r.tries) = 0
                   PROVE  FALSE
        OBVIOUS
      <3>1. PointOf(catchPoints, N, m)
        BY <1>p, <2>2 DEF PointOf, m
      <3>2. N > from /\ N <= from + Len(r.tries)
        BY <1>p, <2>7, <3>1 DEF OnTop
      <3> QED BY <1>p, <3>2
    <2>9. /\ cp.handler = Last(r.tries).handler /\ cp.size = base - 1 + Last(r.tries).size
          /\ TriesStand(catchPoints', m, base, Front(r.tries)) /\ PointGone(catchPoints', catchPoints)
          /\ Aside(catchPoints', catchPoints, m)
      BY <2>1, <2>7, <2>8, PointPopped DEF cp
    <2>10. /\ q[1] = cp.handler /\ q[2].tries = Front(r.tries) /\ q[2].height = Last(r.tries).size
           /\ q[2] = Shape(q[2].height, q[2].tries, {p \in r.known : p[1] < q[2].height}, r.captured)
      <3> DEFINE try == Last(r.tries)
      <3>1. q = <<try.handler, Shape(try.size, Front(r.tries), {p \in r.known : p[1] < try.size}, r.captured)>>
        BY DEF ByTry, Cut, Shape
      <3> HIDE DEF q
      <3> QED BY <2>9, <3>1 DEF Shape
    <2>11. q \in Caught(fc, i, r)
      BY <2>8 DEF Caught
    <2> HIDE DEF q, st
    <2>12. UnwindTo(m, q[1], st) /\ stack' = Append(Truncate(st, base - 1 + q[2].height), None)
           /\ TriesStand(catchPoints', m, base, q[2].tries)
      BY <2>1, <2>9, <2>10
    <2>13. None \in Safe
      BY ConstantsSafe
    <2>14. fc = code[frames[m].fn] /\ r = Rest(s, fc.code[i]) /\ base = frames[m].base
           /\ st = Drop(Taken(Instruction)) /\ m \in DOMAIN frames
      BY <2>2 DEF fc, r, base, st
    <2>15. UNCHANGED <<loaded, elsewhere, globals, outcome>>
      BY <2>1
    <2>16. IInv /\ outcome = "running" /\ Instruction.op \in Throwing
      OBVIOUS
    <2> QED BY ONLY <2>3, <2>4, <2>9, <2>10, <2>11, <2>12, <2>13, <2>14, <2>15, <2>16, CaughtKeeps
  <1>2. CASE catchPoints = <<>> /\ Handling # {}
    <2> DEFINE h == Handler
               m == Max(Handling)
    <2>1. /\ UnwindTo(h.frame, h.entry.handler, st)
          /\ stack' = Append(Truncate(st, frames[h.frame].base - 1 + h.entry.depth), v)
          /\ UNCHANGED <<loaded, elsewhere, catchPoints, globals, outcome>>
      BY <1>2 DEF Throw
    <2>2. m \in Handling /\ m \in DOMAIN frames
      <3>1. Handling \in SUBSET (1 .. Len(frames))
        BY <1>0 DEF Handling
      <3>2. m \in Handling
        BY <1>0, <1>2, <3>1, MaxMember
      <3> QED BY <3>2 DEF Handling
    <2>3. PICK i, s : Thrower(m, i, s)
      BY <2>2, Throws
    <2> DEFINE fc == code[frames[m].fn]
               r == Rest(s, fc.code[i])
               base == frames[m].base
               entry == FirstEntry(fc.table, i + 1)
               q == ByEntry(entry, r)
    <2>4. Entries(m, IpOf(m)) = Covering(fc.table, i + 1)
      <3>1. IpOf(m) = i + 1
        BY <2>3 DEF Thrower
      <3> QED BY <3>1 DEF Entries, Covering
    <2>5. h.frame = m /\ h.entry = entry
      BY <2>4 DEF Handler, FirstEntry
    <2>6. Covering(fc.table, i + 1) # {}
      BY <2>2, <2>4 DEF Handling
    <2>7. r.tries = <<>> /\ TriesStand(catchPoints, m, base, r.tries)
      <3>1. TriesStand(catchPoints, m, base, r.tries)
        BY <2>3 DEF Thrower, Holds
      <3>2. WellShaped(r)
        BY <2>2, <2>3, ThrowerFacts
      <3>3. r.tries \in Seq(TrySet)
        BY <3>2 DEF WellShaped, AllShapes, TrySet
      <3> HIDE DEF r
      <3>4. PICK from \in Nat : \A n \in Nat : PointOf(catchPoints, n, m) <=> n > from /\ n <= from + Len(r.tries)
        BY <3>1 DEF TriesStand
      <3>5. ~PointOf(catchPoints, from + 1, m)
        BY <1>2 DEF PointOf
      <3>6. Len(r.tries) \in Nat /\ (Len(r.tries) = 0 => r.tries = <<>>)
        BY <3>3
      <3>7. from + 1 \in Nat /\ from + 1 > from
        OBVIOUS
      <3>8. ~(from + 1 <= from + Len(r.tries))
        BY <3>4, <3>5, <3>7
      <3>9. Len(r.tries) = 0
        BY <3>6, <3>8
      <3> QED BY <3>1, <3>6, <3>9
    <2> HIDE DEF r, fc, base, m, h
    <2>8. /\ q[1] = entry.handler /\ q[2].tries = r.tries /\ q[2].height = entry.depth
          /\ q[2] = Shape(q[2].height, q[2].tries, {p \in r.known : p[1] < q[2].height}, r.captured)
      <3>1. q = <<entry.handler, Shape(entry.depth, r.tries, {p \in r.known : p[1] < entry.depth}, r.captured)>>
        BY DEF ByEntry, Cut
      <3> HIDE DEF q, entry
      <3> QED BY <3>1 DEF Shape
    <2>9. q \in Caught(fc, i, r)
      BY <2>6, <2>7 DEF Caught
    <2>10. catchPoints' = catchPoints
      BY <2>1
    <2>11. PointGone(catchPoints', catchPoints) /\ Aside(catchPoints', catchPoints, m)
      BY <1>p, <2>10 DEF PointGone, Aside
    <2>12. \A n \in DOMAIN catchPoints : catchPoints[n].frame <= m
      BY <1>2
    <2> HIDE DEF q, st, entry
    <2>13. UnwindTo(m, q[1], st) /\ stack' = Append(Truncate(st, base - 1 + q[2].height), v)
           /\ TriesStand(catchPoints', m, base, q[2].tries)
      BY <2>1, <2>5, <2>7, <2>8, <2>10 DEF base
    <2>14. fc = code[frames[m].fn] /\ r = Rest(s, fc.code[i]) /\ base = frames[m].base
           /\ st = Drop(Taken(Instruction)) /\ m \in DOMAIN frames /\ v \in Safe
      BY <2>2 DEF fc, r, base, st
    <2>15. UNCHANGED <<loaded, elsewhere, globals, outcome>>
      BY <2>1
    <2>16. IInv /\ outcome = "running" /\ Instruction.op \in Throwing
      OBVIOUS
    <2> QED BY ONLY <2>3, <2>8, <2>9, <2>11, <2>12, <2>13, <2>14, <2>15, <2>16, CaughtKeeps
  <1>3. CASE catchPoints = <<>> /\ Handling = {} /\ FailPolicy = "log"
    <2>1. Steps(Append(st, None))
      BY <1>3 DEF Throw
    <2>2. Instruction.op \in Leaving \ {"GetLocal", "GetIterator"}
      BY DEF Leaving, Throwing, CallOps
    <2>3. None \in Safe /\ Log
      BY <1>3, ConstantsSafe DEF Log
    <2> QED BY <2>1, <2>2, <2>3, StepsLeaving
  <1>4. CASE catchPoints = <<>> /\ Handling = {} /\ FailPolicy # "log"
    BY <1>4, DyingKeeps DEF Throw
  <1> QED BY <1>1, <1>2, <1>3, <1>4

LEMMA FailKeeps == ASSUME IInv, Fail PROVE IInv'
  <1>1. outcome = "running" /\ Instruction.op = "Fail" /\ ValuesInv /\ Popped(stack) = Drop(1)
    BY RunsOp DEF Fail
  <1>2. Taken(Instruction) = 1
    BY <1>1 DEF Taken, CallOps
  <1>3. Throw(Top, Drop(Taken(Instruction))) /\ Top \in Safe
    BY <1>1, <1>2, StackSafe DEF Fail
  <1> QED BY <1>1, <1>3, ThrowKeeps DEF Throwing

-----------------------------------------------------------------------------
(* Calls.                                                                  *)

\* One value, n times.
LEMMA Repeated ==
  ASSUME NEW S, NEW e \in S, NEW n \in Nat
  PROVE  [k \in 1 .. n |-> e] \in Seq(S) /\ Len([k \in 1 .. n |-> e]) = n
  OBVIOUS

\* More elements at the end.
LEMMA PadSeq ==
  ASSUME NEW S, NEW s \in Seq(S), NEW n \in Nat, NEW more, more \in Seq(S), Len(more) = n
  PROVE  /\ s \o more \in Seq(S) /\ Len(s \o more) = Len(s) + n
         /\ \A k \in 1 .. Len(s) : (s \o more)[k] = s[k]
  OBVIOUS

\* The step is into the function of callee, with s below its missing arguments.
Enters(callee, s) ==
    \E missing \in Nat :
        /\ missing = code[callee.fn].arity - Instruction.arg /\ Len(frames) < MaxFrames
        /\ stack' = s \o [k \in 1 .. missing |-> None]
        /\ frames' = Append(Next1, [fn |-> callee.fn, ip |-> 1, up |-> callee.up,
                                    base |-> Len(s) + missing - code[callee.fn].arity])
        /\ UNCHANGED <<loaded, others, upvalues, openUpvalues, catchPoints, globals, outcome>>

\* A call of a function fails, or enters it.
LEMMA CallSplits ==
  ASSUME IInv, NEW callee \in Closures, NEW s, NEW objs, CallClosure(callee, s, objs)
  PROVE  Dies("error") \/ (Enters(callee, s) /\ objects' = objs)
  <1> DEFINE fc == code[callee.fn]
             missing == fc.arity - Instruction.arg
  <1>1. CASE Len(frames) >= MaxFrames \/ missing \notin 0 .. fc.defaults
    BY <1>1 DEF CallClosure
  <1>2. CASE ~(Len(frames) >= MaxFrames \/ missing \notin 0 .. fc.defaults)
    <2>1. callee.fn \in DOMAIN code /\ CodeInv
      BY DEF Closures, Safe, IInv
    <2>2. fc.defaults \in Nat
      BY <2>1, CodeFacts DEF WellFormed
    <2>3. missing \in Nat
      BY <1>2, <2>2
    <2>4. Len(frames) \in Nat /\ MaxFrames \in Nat
      BY InterpreterAssumption DEF IInv, ValuesInv
    <2>5. Len(frames) < MaxFrames
      BY <1>2, <2>4
    <2>6. /\ stack' = s \o [k \in 1 .. missing |-> None]
          /\ frames' = Append(Next1, [fn |-> callee.fn, ip |-> 1, up |-> callee.up,
                                      base |-> Len(s) + missing - code[callee.fn].arity])
          /\ objects' = objs
          /\ UNCHANGED <<loaded, others, upvalues, openUpvalues, catchPoints, globals, outcome>>
      BY <1>2 DEF CallClosure
    <2> QED BY <2>3, <2>5, <2>6 DEF Enters
  <1> QED BY <1>1, <1>2

\* What a call leaves: the frame that waits, and the slot of the callee above it.
LEMMA CallFacts ==
  ASSUME IInv, outcome = "running", Instruction.op \in CallOps
  PROVE  /\ CalleeAt \in Nat /\ CalleeAt \in DOMAIN stack /\ DOMAIN stack = 1 .. Len(stack)
         /\ Len(stack) \in Nat /\ Frame.base < CalleeAt /\ Instruction.arg \in Nat
         /\ Callee \in Safe /\ Taken(Instruction) = Instruction.arg + 1
         /\ CalleeAt = Len(stack) - Instruction.arg
         /\ \A u \in openUpvalues : upvalues[u].slot \in 1 .. CalleeAt - 1 /\ upvalues[u].slot \in Nat
         /\ \E s : /\ StandsAs(s) /\ WellShaped(Rest(s, Instruction))
                   /\ Holds(stack, upvalues, openUpvalues, catchPoints, Len(frames), Frame.base,
                            Rest(s, Instruction), CalleeAt)
  <1>1. PICK s : StandsAs(s)
    BY Running
  <1> DEFINE h == s.height - Taken(Instruction)
  <1>2. Instruction.op # "CloseUpvalue" /\ Taken(Instruction) = Instruction.arg + 1
    BY DEF CallOps, Taken
  <1>3. /\ Taken(Instruction) \in 0 .. Len(stack) /\ Len(stack) - Taken(Instruction) = Frame.base + h - 1
        /\ h \in Nat \ {0}
        /\ \A u \in openUpvalues : upvalues[u].slot \in 1 .. Frame.base + h - 1 /\ upvalues[u].slot \in Nat
    BY <1>1, <1>2, Rests
  <1>4. /\ Frame.base \in Nat \ {0} /\ Instruction.arg \in Nat /\ Len(stack) \in Nat
        /\ DOMAIN stack = 1 .. Len(stack) /\ \A k \in DOMAIN stack : stack[k] \in Safe
    BY <1>1, Running, StandingFacts, StackSafe DEF IInv
  <1>5. Holds(stack, upvalues, openUpvalues, catchPoints, Len(frames), Frame.base,
              Rest(s, Instruction), Frame.base + h) /\ WellShaped(Rest(s, Instruction))
    BY <1>1, <1>2, Remains, StandingFacts
  <1> DEFINE len == Len(stack)
             base == Frame.base
             arg == Instruction.arg
  <1>6. base + h = len - arg /\ len - arg \in 1 .. len /\ base < len - arg /\ len - arg \in Nat
        /\ base + h - 1 = len - arg - 1
    <2>1. len - (arg + 1) = base + h - 1 /\ h \in Nat \ {0} /\ base \in Nat \ {0} /\ arg \in Nat /\ len \in Nat
      BY <1>2, <1>3, <1>4
    <2> HIDE DEF h, len, base, arg
    <2> QED BY ONLY <2>1
  <1>7. CalleeAt = len - arg
    BY DEF CalleeAt
  <1> HIDE DEF h, len, base, arg
  <1> QED BY <1>1, <1>2, <1>3, <1>4, <1>5, <1>6, <1>7 DEF len, base, arg, Callee

\* The new frame stands in the shape the function starts with, the one below in
\* the shape that waits for a result.
LEMMA EntersKeeps ==
  ASSUME IInv, outcome = "running", Instruction.op \in CallOps, NEW callee \in Closures,
         NEW s, s \in Seq(Safe'), Len(s) = Len(stack),
         \A p \in 1 .. CalleeAt - 1 : s[p] = stack[p], IsObject(s[CalleeAt]),
         Enters(callee, s),
         objects' \in Seq(Objects'), DOMAIN objects \subseteq DOMAIN objects',
         \A k \in DOMAIN objects : objects'[k].is = objects[k].is
  PROVE  IInv'
  <1> DEFINE fc == code[callee.fn]
             m == Len(frames)
             base == CalleeAt
             f == [fn |-> callee.fn, ip |-> 1, up |-> callee.up, base |-> base]
             e == Entry(fc)
  <1>1. PICK missing \in Nat :
           /\ missing = fc.arity - Instruction.arg /\ m < MaxFrames
           /\ stack' = s \o [k \in 1 .. missing |-> None]
           /\ frames' = Append(Next1, [fn |-> callee.fn, ip |-> 1, up |-> callee.up,
                                       base |-> Len(s) + missing - fc.arity])
           /\ UNCHANGED <<loaded, others, upvalues, openUpvalues, catchPoints, globals, outcome>>
    BY DEF Enters
  <1>2. /\ base \in Nat /\ Len(stack) \in Nat /\ Frame.base < base /\ Instruction.arg \in Nat
        /\ base = Len(stack) - Instruction.arg /\ base \in 1 .. Len(stack)
        /\ \A u \in openUpvalues : upvalues[u].slot \in 1 .. base - 1 /\ upvalues[u].slot \in Nat
    BY CallFacts
  <1>3. /\ callee.fn \in DOMAIN code /\ callee.up \in UpvaluesOf(callee.fn) /\ CodeInv /\ ValuesInv
        /\ callee.fn \in Nat /\ fc.arity \in Nat
    <2>1. callee.fn \in DOMAIN code /\ callee.up \in UpvaluesOf(callee.fn)
      BY DEF Closures, Safe
    <2>2. CodeInv /\ ValuesInv
      BY DEF IInv
    <2>3. fc.arity \in Nat /\ callee.fn \in Nat
      BY <2>1, <2>2, CodeFacts DEF WellFormed
    <2> QED BY <2>1, <2>2, <2>3
  <1>4. /\ m \in Nat \ {0} /\ m \in DOMAIN frames /\ DOMAIN frames = 1 .. m /\ Frame = frames[m]
        /\ Frame.ip \in Nat /\ Frame.base \in Nat \ {0} /\ frames \in Seq(FrameSet)
    BY Running
  <1>5. code' = code /\ program' = program
    BY <1>1 DEF loaded
  <1>6. /\ Safe \subseteq Safe' /\ FrameSet \subseteq FrameSet' /\ UpvalueSet \subseteq UpvalueSet'
    BY <1>1, <1>5, SafeGrows
  <1> HIDE DEF m, base, e
  <1>7. frames' = Append(At(frames, Frame.ip + 1), f) /\ f \in FrameSet
    <2>1. Len(s) + missing - fc.arity = base
      <3>1. missing = fc.arity - Instruction.arg /\ Len(s) = Len(stack)
        BY <1>1
      <3> QED BY ONLY <1>2, <1>3, <3>1
    <2>2. frames' = Append(At(frames, Frame.ip + 1), f)
      BY <1>1, <2>1 DEF Next1
    <2>3. base \in Nat \ {0}
      BY <1>2
    <2>4. callee.up \in Seq(Nat)
      BY <1>3 DEF UpvaluesOf
    <2> QED BY <1>3, <2>2, <2>3, <2>4 DEF FrameSet
  <1>8. /\ frames' \in Seq(FrameSet) /\ Len(frames') = m + 1 /\ DOMAIN frames' = 1 .. m + 1
        /\ frames'[m + 1] = f /\ \A j \in 1 .. m - 1 : frames'[j] = frames[j]
        /\ frames'[m] = [Frame EXCEPT !.ip = Frame.ip + 1]
        /\ frames'[m].fn = Frame.fn /\ frames'[m].base = Frame.base /\ frames'[m].ip = Frame.ip + 1
    <2> DEFINE fs == At(frames, Frame.ip + 1)
    <2>1. Frame.ip + 1 \in Nat
      BY <1>4
    <2>2. /\ fs \in Seq(FrameSet) /\ Len(fs) = m /\ \A j \in 1 .. m - 1 : fs[j] = frames[j]
          /\ fs[m] = [Frame EXCEPT !.ip = Frame.ip + 1]
      BY <2>1, AtFrames DEF m
    <2>3. [Frame EXCEPT !.ip = Frame.ip + 1].fn = Frame.fn
          /\ [Frame EXCEPT !.ip = Frame.ip + 1].base = Frame.base
          /\ [Frame EXCEPT !.ip = Frame.ip + 1].ip = Frame.ip + 1
      BY <2>1, AtFrames
    <2> HIDE DEF fs, f
    <2>4. /\ frames' \in Seq(FrameSet) /\ Len(frames') = m + 1 /\ DOMAIN frames' = 1 .. m + 1
          /\ frames'[m + 1] = f /\ \A j \in 1 .. m : frames'[j] = fs[j]
      BY <1>7, <2>2, AppendSeq DEF fs
    <2>5. m \in 1 .. m /\ \A j \in 1 .. m - 1 : j \in 1 .. m
      BY <1>4
    <2> QED BY <2>2, <2>3, <2>4, <2>5
  <1>9. /\ stack' \in Seq(Safe') /\ Len(stack') = Len(stack) + missing
        /\ \A k \in 1 .. Len(stack) : stack'[k] = s[k]
    <2>1. None \in Safe'
      BY <1>6, ConstantsSafe
    <2>2. /\ s \in Seq(Safe') /\ missing \in Nat /\ Len(s) = Len(stack)
          /\ stack' = s \o [k \in 1 .. missing |-> None]
      BY <1>1
    <2> DEFINE more == [k \in 1 .. missing |-> None]
               S == Safe'
    <2>3. stack' = s \o more
      BY <2>2
    <2>4. None \in S /\ s \in Seq(S)
      BY <2>1, <2>2
    <2> HIDE DEF S
    <2>6. more \in Seq(S) /\ Len(more) = missing
      BY ONLY <2>2, <2>4, Repeated DEF more
    <2> HIDE DEF more
    <2>5. /\ stack' \in Seq(S) /\ Len(stack') = Len(s) + missing
          /\ \A k \in 1 .. Len(s) : stack'[k] = s[k]
      BY ONLY <2>2, <2>3, <2>4, <2>6, PadSeq
    <2> QED BY <2>2, <2>5 DEF S
  <1> HIDE DEF f
  <1>10. \A p \in 1 .. base - 1 : stack'[p] = stack[p]
    <2>1. \A p \in 1 .. base - 1 : p \in 1 .. Len(stack)
      BY ONLY <1>2
    <2>2. \A p \in 1 .. base - 1 : s[p] = stack[p]
      BY DEF base
    <2> QED BY ONLY <1>9, <2>1, <2>2
  <1>11. CodeInv' /\ Shared' /\ PointsInv' /\ RunInv'
    <2>1. CodeInv'
      BY <1>3, <1>5 DEF CodeInv, FailPolicy
    <2>2. Shared'
      BY <1>1, <1>3 DEF ValuesInv, Shared
    <2>3. PointsInv'
      <3>1. catchPoints' = catchPoints /\ DOMAIN frames \subseteq DOMAIN frames'
        BY <1>1, <1>4, <1>8
      <3>2. PointsInv
        BY DEF IInv, ShapesInv
      <3> QED BY <3>1, <3>2 DEF PointsInv
    <2>4. RunInv'
      <3>1. outcome' = "running" /\ m < MaxFrames
        BY <1>1
      <3>2. Len(frames') <= MaxFrames /\ frames' # <<>>
        BY <1>4, <1>8, <3>1, InterpreterAssumption
      <3> QED BY <3>1, <3>2 DEF RunInv
    <2> QED BY <2>1, <2>2, <2>3, <2>4
  <1>12. ValuesInv'
    <2>1. /\ catchPoints' \in CatchPoints /\ upvalues' \in Seq(UpvalueSet) /\ others' = <<>>
          /\ openUpvalues' = {u \in DOMAIN upvalues' : upvalues'[u].open}
          /\ globals' \in [GlobalNames -> Safe]
      BY <1>1, <1>3 DEF ValuesInv
    <2>2. upvalues' \in Seq(UpvalueSet') /\ frames' \in Seq(FrameSet')
      BY <1>6, <1>8, <2>1, SeqGrows
    <2>3. globals' \in [GlobalNames -> Safe']
      BY <1>6, <2>1
    <2>4. CatchPoints' = CatchPoints
      BY DEF CatchPoints, Points
    <2> QED BY <1>9, <1>11, <2>1, <2>2, <2>3, <2>4 DEF ValuesInv
  <1>13. /\ f.fn = callee.fn /\ f.ip = 1 /\ f.base = base
    BY DEF f
  <1>14. /\ e \in ShapesAt(callee.fn, 1) /\ 1 \in DOMAIN code[callee.fn].code
         /\ e.height = fc.arity + 1 /\ e.tries = <<>> /\ e.known = {<<0, "object">>} /\ e.captured = {}
    BY <1>3, CodeFacts DEF e, Entry, Shape
  <1>15. Holds(stack', upvalues', openUpvalues', catchPoints', m + 1, base, e, Len(stack') + 1)
    <2>1. base + (fc.arity + 1) = Len(stack') + 1
      <3> DEFINE arg == Instruction.arg
                 arity == fc.arity
                 len == Len(stack)
      <3>1. missing = arity - arg /\ Len(stack') = len + missing /\ missing \in Nat
        BY <1>1, <1>9
      <3>2. base = len - arg /\ base \in Nat /\ len \in Nat /\ arg \in Nat /\ arity \in Nat
        BY <1>2, <1>3
      <3> HIDE DEF arg, arity, len
      <3>3. base + (arity + 1) = Len(stack') + 1
        BY ONLY <3>1, <3>2
      <3> QED BY <3>3 DEF arity
    <2>2. IsA(stack'[base + 0], "object")
      <3>1. stack'[base] = s[base] /\ base + 0 = base
        BY ONLY <1>2, <1>9
      <3> QED BY <3>1 DEF IsA, base
    <2>3. \A u \in openUpvalues' : ~(base <= upvalues'[u].slot)
      <3>1. openUpvalues' = openUpvalues /\ upvalues' = upvalues
        BY <1>1
      <3> QED BY ONLY <1>2, <3>1
    <2>4. TriesStand(catchPoints', m + 1, base, <<>>)
      <3>1. catchPoints' = catchPoints
        BY <1>1
      <3>2. \A n \in Nat : ~PointOf(catchPoints, n, m + 1)
        <4>1. \A n \in DOMAIN catchPoints : catchPoints[n].frame \in 1 .. m
          BY <1>4, PointFacts
        <4> QED BY <1>4, <4>1 DEF PointOf
      <3>3. Len(<<>>) = 0 /\ DOMAIN <<>> = {}
        OBVIOUS
      <3>4. \A n \in Nat : PointOf(catchPoints', n, m + 1) <=> n > 0 /\ n <= 0 + Len(<<>>)
        BY ONLY <3>1, <3>2, <3>3
      <3> QED BY ONLY <3>3, <3>4 DEF TriesStand
    <2> QED BY <1>14, <2>1, <2>2, <2>3, <2>4 DEF Holds
  <1>16. FramesInv'
    <2>1. ASSUME NEW j \in DOMAIN frames', NEW k \in DOMAIN frames', j < k
          PROVE  frames'[j].base < frames'[k].base
      <3>1. \A a \in 1 .. m : frames'[a].base = frames[a].base
        <4>1. \A a \in 1 .. m : a \in 1 .. m - 1 \/ a = m
          BY <1>4
        <4> QED BY <1>4, <1>8, <4>1
      <3>2. \A a, b \in 1 .. m : a < b => frames[a].base < frames[b].base
        BY <1>4 DEF IInv, ShapesInv, FramesInv
      <3>3. \A a \in 1 .. m : frames[a].base < base
        <4>1. frames[m].base < base
          BY <1>2, <1>4
        <4>2. \A a \in 1 .. m : frames[a].base \in Nat
          BY <1>3, <1>4, FrameFacts
        <4>3. \A a \in 1 .. m : a < m \/ a = m
          BY <1>4
        <4> QED BY ONLY <1>2, <1>4, <3>2, <4>1, <4>2, <4>3
      <3>4. j \in 1 .. m /\ (k \in 1 .. m \/ k = m + 1)
        BY <1>4, <1>8, <2>1
      <3> QED BY <1>8, <1>13, <2>1, <3>1, <3>2, <3>3, <3>4
    <2>2. \E t \in Stands(Frame)' :
            Holds(stack', upvalues', openUpvalues', catchPoints', Len(frames'), Frame'.base, t, Len(stack') + 1)
      <3>1. Frame' = f /\ Len(frames') = m + 1
        BY <1>8 DEF Frame, Last
      <3>2. e \in Stands(Frame)'
        BY <1>5, <1>13, <1>14, <3>1 DEF Stands, ShapesAt
      <3> QED BY <1>13, <1>15, <3>1, <3>2
    <2>3. ASSUME NEW k \in 1 .. m
          PROVE  \E r \in Waits(frames[k])' :
                   Holds(stack', upvalues', openUpvalues', catchPoints', k, frames'[k].base, r,
                         frames'[k + 1].base)
      <3> DEFINE end == frames'[k + 1].base
      <3>1. k \in DOMAIN frames /\ k \in Nat /\ frames[k].base \in Nat \ {0} /\ frames[k].fn \in DOMAIN code
            /\ frames'[k].base = frames[k].base /\ frames'[k].fn = frames[k].fn
        <4>1. k \in 1 .. m - 1 \/ k = m
          BY <1>4
        <4>2. k \in DOMAIN frames /\ k \in Nat
          BY <1>4
        <4> QED BY <1>3, <1>4, <1>8, <4>1, <4>2, FrameFacts
      <3>2. PICK r : /\ WellShaped(r) /\ r \in Waits(frames[k])'
                     /\ Holds(stack, upvalues, openUpvalues, catchPoints, k, frames[k].base, r, end)
        <4>1. CASE k = m
          <5>1. PICK t : /\ StandsAs(t) /\ WellShaped(Rest(t, Instruction))
                         /\ Holds(stack, upvalues, openUpvalues, catchPoints, m, Frame.base,
                                  Rest(t, Instruction), base)
            BY CallFacts DEF m, base
          <5>2. end = base
            BY <1>8, <1>13, <4>1
          <5>3. Rest(t, Instruction) \in Waits(frames[k])'
            <6>1. frames'[k].ip - 1 = Frame.ip /\ frames'[k].fn = Frame.fn
              <7>1. frames'[m].ip = Frame.ip + 1 /\ frames'[m].fn = Frame.fn
                BY <1>8
              <7>2. Frame.ip \in Nat
                BY <1>4
              <7>3. frames'[k] = frames'[m]
                BY ONLY <4>1
              <7> QED BY ONLY <7>1, <7>2, <7>3
            <6>2. /\ Frame.ip \in DOMAIN code[Frame.fn].code /\ t \in ShapesAt(Frame.fn, Frame.ip)
                  /\ Instruction = code[Frame.fn].code[Frame.ip]
              BY <5>1 DEF StandsAs, Function, Instruction
            <6> QED BY <1>5, <6>1, <6>2 DEF Waits, ShapesAt
          <5> QED BY <1>4, <4>1, <5>1, <5>2, <5>3
        <4>2. CASE k \in 1 .. m - 1
          <5>1. frames'[k] = frames[k] /\ k + 1 \in 1 .. m
            BY <1>4, <1>8, <4>2
          <5>2. end = frames[k + 1].base
            <6>1. k + 1 \in 1 .. m - 1 \/ k + 1 = m
              BY <1>4, <5>1
            <6> QED BY <1>4, <1>8, <6>1
          <5>3. PICK r \in Waits(frames[k]) :
                   Holds(stack, upvalues, openUpvalues, catchPoints, k, frames[k].base, r, frames[k + 1].base)
            BY <4>2 DEF IInv, ShapesInv, FramesInv, m
          <5>4. WellShaped(r)
            BY <1>3, <3>1, <5>3, ShapesWell
          <5>5. r \in Waits(frames[k])'
            BY <1>5, <5>1, <5>3 DEF Waits
          <5> QED BY <5>2, <5>3, <5>4, <5>5
        <4> QED BY <1>4, <4>1, <4>2
      <3>3. end <= base /\ end \in Nat
        <4>1. CASE k = m
          BY <1>2, <1>8, <1>13, <4>1
        <4>2. CASE k + 1 \in 1 .. m
          <5>1. /\ frames'[k + 1].base = frames[k + 1].base /\ frames[k + 1].base \in Nat
                /\ frames[k + 1].base <= frames[m].base
            <6>1. k + 1 \in 1 .. m - 1 \/ k + 1 = m
              BY <1>4, <4>2
            <6>2. \A j, n \in DOMAIN frames : j < n => frames[j].base < frames[n].base
              BY DEF IInv, ShapesInv, FramesInv
            <6>3. k + 1 \in DOMAIN frames /\ m \in DOMAIN frames
              BY <1>4, <4>2
            <6>4. frames[k + 1].base \in Nat /\ frames[m].base \in Nat
              BY <1>3, <6>3, FrameFacts
            <6>5. frames'[k + 1].base = frames[k + 1].base
              BY <1>4, <1>8, <6>1
            <6>6. frames[k + 1].base <= frames[m].base
              <7>1. k + 1 < m \/ k + 1 = m
                BY <1>4, <4>2
              <7>2. k + 1 < m => frames[k + 1].base < frames[m].base
                BY ONLY <6>2, <6>3
              <7> QED BY ONLY <6>4, <7>1, <7>2
            <6> QED BY <6>4, <6>5, <6>6
          <5> QED BY <1>2, <1>4, <5>1
        <4> QED BY <1>4, <4>1, <4>2
      <3> HIDE DEF end
      <3>4. Holds(stack', upvalues', openUpvalues', catchPoints', k, frames[k].base, r, end)
        <4>1. \A p \in Nat : frames[k].base <= p /\ p < end =>
                 stack'[p] = stack[p] \/ \E u \in openUpvalues : upvalues[u].slot = p
          BY ONLY <1>2, <1>10, <3>1, <3>3
        <4>2. upvalues' = upvalues /\ openUpvalues' = openUpvalues /\ catchPoints' = catchPoints
          BY <1>1
        <4>3. frames[k].base \in Nat
          BY <3>1
        <4> QED BY ONLY <3>2, <4>1, <4>2, <4>3, KeepsShape
      <3> QED BY <3>1, <3>2, <3>4 DEF end
    <2>4. \A u \in openUpvalues' : upvalues'[u].slot \in 1 .. Len(stack')
      <3>1. openUpvalues' = openUpvalues /\ upvalues' = upvalues /\ Len(stack') = Len(stack) + missing
        BY <1>1, <1>9
      <3> QED BY ONLY <1>2, <3>1
    <2>5. Len(frames') - 1 = m
      BY <1>4, <1>8
    <2> QED BY <2>1, <2>2, <2>3, <2>4, <2>5 DEF FramesInv
  <1> QED BY <1>11, <1>12, <1>16 DEF IInv, ShapesInv

\* A call of a closure, whether it fails or enters.
LEMMA ClosureRuns ==
  ASSUME IInv, outcome = "running", Instruction.op \in CallOps, NEW callee \in Closures, NEW s, NEW objs,
         CallClosure(callee, s, objs), Len(s) = Len(stack),
         \A p \in 1 .. CalleeAt - 1 : s[p] = stack[p], IsObject(s[CalleeAt]),
         UNCHANGED <<loaded, upvalues>> /\ objects' = objs =>
            /\ s \in Seq(Safe') /\ objects' \in Seq(Objects') /\ DOMAIN objects \subseteq DOMAIN objects'
            /\ \A k \in DOMAIN objects : objects'[k].is = objects[k].is
  PROVE  IInv'
  <1>1. CASE Dies("error")
    BY <1>1, DyingKeeps
  <1>2. CASE Enters(callee, s) /\ objects' = objs
    <2>1. UNCHANGED <<loaded, upvalues>>
      BY <1>2 DEF Enters
    <2>2. /\ s \in Seq(Safe') /\ objects' \in Seq(Objects') /\ DOMAIN objects \subseteq DOMAIN objects'
          /\ \A k \in DOMAIN objects : objects'[k].is = objects[k].is
      BY <1>2, <2>1
    <2> QED BY <1>2, <2>2, EntersKeeps
  <1> QED BY <1>1, <1>2, CallSplits

\* A call of a closure, with v in the slot of the callee.
LEMMA ClosureCalled ==
  ASSUME IInv, outcome = "running", Instruction.op \in CallOps, NEW callee \in Closures,
         NEW v \in Safe, IsObject(v), CallClosure(callee, [stack EXCEPT ![CalleeAt] = v], objects)
  PROVE  IInv'
  <1> DEFINE s == [stack EXCEPT ![CalleeAt] = v]
  <1>1. CalleeAt \in DOMAIN stack /\ CalleeAt \in Nat /\ stack \in Seq(Safe) /\ objects \in Seq(Objects)
    BY CallFacts DEF IInv, ValuesInv
  <1>2. s \in Seq(Safe) /\ Len(s) = Len(stack) /\ s[CalleeAt] = v
        /\ \A p \in 1 .. CalleeAt - 1 : s[p] = stack[p]
    <2>1. \A p \in 1 .. CalleeAt - 1 : p \in DOMAIN stack /\ p # CalleeAt
      BY <1>1
    <2> QED BY <1>1, <2>1
  <1>3. ASSUME UNCHANGED <<loaded, upvalues>> /\ objects' = objects
        PROVE  /\ s \in Seq(Safe') /\ objects' \in Seq(Objects')
               /\ DOMAIN objects \subseteq DOMAIN objects'
               /\ \A k \in DOMAIN objects : objects'[k].is = objects[k].is
    <2>1. Safe \subseteq Safe' /\ Objects \subseteq Objects'
      BY <1>3, SafeGrows DEF loaded
    <2>2. s \in Seq(Safe') /\ objects \in Seq(Objects')
      BY <1>1, <1>2, <2>1, SeqGrows
    <2> QED BY <1>3, <2>2
  <1>4. CallClosure(callee, s, objects)
    OBVIOUS
  <1> HIDE DEF s
  <1> QED BY <1>2, <1>3, <1>4, ClosureRuns

\* A call of a native.
LEMMA NativeKeeps ==
  ASSUME IInv, outcome = "running", Instruction.op \in CallOps, NEW results, results \subseteq Safe,
         RunNative(results)
  PROVE  IInv'
  <1>1. Truncate(stack, CalleeAt - 1) = Drop(Taken(Instruction))
    <2>1. CalleeAt = Len(stack) - Instruction.arg /\ Taken(Instruction) = Instruction.arg + 1
          /\ Len(stack) \in Nat /\ Instruction.arg \in Nat
      BY CallFacts, StackSafe DEF IInv
    <2>2. CalleeAt - 1 = Len(stack) - Taken(Instruction)
      BY ONLY <2>1
    <2> QED BY <2>2 DEF Drop
  <1>2. PICK result \in results :
           IF result = Undefined THEN Throw(Error, Drop(Taken(Instruction)))
           ELSE Steps(Append(Drop(Taken(Instruction)), result))
    BY <1>1 DEF RunNative
  <1>3. Error \in Safe /\ result \in Safe
    BY ConstantsSafe
  <1>4. CASE result = Undefined
    BY <1>2, <1>3, <1>4, ThrowKeeps DEF Throwing
  <1>5. CASE result # Undefined
    <2>1. Instruction.op \in Leaving \ {"GetLocal", "GetIterator"} /\ Instruction.op # "Fail"
      BY DEF Leaving, Throwing, CallOps
    <2> QED BY <1>2, <1>3, <1>5, <2>1, StepsLeaving
  <1> QED BY <1>4, <1>5

\* Natives return plain values.
LEMMA ResultsSafe ==
  ASSUME NEW native \in Natives
  PROVE  Results(native) \subseteq Safe
  <1>1. native \in {"cond", "pick", "risky"}
    BY DEF Natives
  <1>2. {"a", "b", "c"} \subseteq Names
    BY DEF Names
  <1> QED BY <1>1, <1>2, ConstantsSafe DEF Results, Subjects

-----------------------------------------------------------------------------
(* Classes and their instances.                                            *)

\* The heap grows, and what was there is of the kind it was of.
Grown == /\ objects' \in Seq(Objects') /\ DOMAIN objects \subseteq DOMAIN objects'
         /\ \A k \in DOMAIN objects : objects'[k].is = objects[k].is

\* An object more.
LEMMA ObjectAdded ==
  ASSUME ValuesInv, UNCHANGED <<loaded, upvalues>>, NEW o \in Objects, objects' = Append(objects, o)
  PROVE  /\ Grown /\ Safe \subseteq Safe'
         /\ \A of \in Names : o.is \in References => Reference(o.is, of) \in Safe'
  <1>1. /\ objects \in Seq(Objects) /\ objects' \in Seq(Objects) /\ Len(objects) \in Nat
        /\ DOMAIN objects = 1 .. Len(objects) /\ DOMAIN objects' = 1 .. Len(objects) + 1
        /\ \A k \in 1 .. Len(objects) : objects'[k] = objects[k]
        /\ objects'[Len(objects) + 1] = o
    BY AppendSeq DEF ValuesInv
  <1>2. DOMAIN objects \subseteq DOMAIN objects' /\ \A k \in DOMAIN objects : objects'[k].is = objects[k].is
    BY <1>1
  <1>3. code' = code /\ DOMAIN upvalues' = DOMAIN upvalues
    BY DEF loaded
  <1>4. Safe \subseteq Safe' /\ Objects \subseteq Objects'
    BY <1>2, <1>3, SafeGrows
  <1>5. objects' \in Seq(Objects')
    BY <1>1, <1>4, SeqGrows
  <1>7. Names' = Names
    BY <1>3 DEF Names
  <1>6. ASSUME NEW of \in Names, o.is \in References
        PROVE  Reference(o.is, of) \in Safe'
    <2>1. Len(objects) + 1 \in Nat /\ Len(objects) + 1 \in DOMAIN objects'
      BY <1>1
    <2>2. Reference(o.is, of) \in Vals' /\ Reference(o.is, of).is \notin {"native", "closure"}
      <3> QED BY <1>6, <1>7, <2>1 DEF Vals, Reference, Tags, References
    <2>3. Reference(o.is, of).is = o.is /\ Reference(o.is, of).fn = Len(objects) + 1
      BY DEF Reference
    <2> QED BY <1>1, <2>1, <2>2, <2>3 DEF Safe
  <1> QED BY <1>2, <1>4, <1>5, <1>6 DEF Grown

\* An object that changes keeps its kind.
LEMMA ObjectChanged ==
  ASSUME ValuesInv, UNCHANGED <<loaded, upvalues>>, NEW k, NEW o, objects' = [objects EXCEPT ![k] = o],
         k \in DOMAIN objects => o \in Objects /\ o.is = objects[k].is
  PROVE  Grown /\ Safe \subseteq Safe'
  <1>1. objects \in Seq(Objects)
    BY DEF ValuesInv
  <1>2. /\ objects' \in Seq(Objects) /\ DOMAIN objects' = DOMAIN objects
        /\ \A j \in DOMAIN objects : objects'[j].is = objects[j].is
    <2>1. CASE k \in DOMAIN objects
      <3>1. o \in Objects /\ o.is = objects[k].is
        BY <2>1
      <3>2. objects' = [objects EXCEPT ![k] = o]
        OBVIOUS
      <3> QED BY ONLY <1>1, <2>1, <3>1, <3>2
    <2>2. CASE k \notin DOMAIN objects
      <3>1. objects' = objects
        BY <1>1, <2>2
      <3> QED BY <1>1, <3>1
    <2> QED BY <2>1, <2>2
  <1>3. code' = code /\ DOMAIN upvalues' = DOMAIN upvalues
    BY DEF loaded
  <1>4. Safe \subseteq Safe' /\ Objects \subseteq Objects'
    BY <1>2, <1>3, SafeGrows
  <1>5. objects' \in Seq(Objects')
    BY <1>2, <1>4, SeqGrows
  <1> QED BY <1>2, <1>4, <1>5 DEF Grown

\* What a step that allocates leaves alone.
LEMMA HeapChanges ==
  ASSUME IInv, outcome = "running", NEW newStack, NEW objs, Allocates(newStack, objs),
         newStack \in Seq(Safe'), Grown
  PROVE  /\ ValuesInv' /\ Kept /\ UNCHANGED <<loaded, catchPoints>> /\ frames' = Next1
         /\ outcome' \in {"running", "suspended"} /\ stack' = newStack
  <1>1. /\ UNCHANGED <<loaded, others, upvalues, openUpvalues, catchPoints, globals, outcome>>
        /\ stack' = newStack /\ frames' = Next1
    BY DEF Allocates
  <1>2. frames' \in Seq(FrameSet)
    <2>1. Frame.ip + 1 \in Nat
      BY Running
    <2> QED BY <1>1, <2>1, AtFrames DEF Next1
  <1>3. code' = code /\ DOMAIN upvalues' = DOMAIN upvalues
    BY <1>1 DEF loaded
  <1>4. Safe \subseteq Safe' /\ FrameSet \subseteq FrameSet' /\ UpvalueSet \subseteq UpvalueSet'
    BY <1>3, SafeGrows DEF Grown
  <1>5. /\ catchPoints' \in CatchPoints /\ upvalues' \in Seq(UpvalueSet) /\ others' = <<>> /\ Shared'
        /\ openUpvalues' = {u \in DOMAIN upvalues' : upvalues'[u].open}
        /\ globals' \in [GlobalNames -> Safe]
    BY <1>1 DEF IInv, ValuesInv, Shared
  <1>6. upvalues' \in Seq(UpvalueSet') /\ frames' \in Seq(FrameSet')
    BY <1>2, <1>4, <1>5, SeqGrows
  <1>7. globals' \in [GlobalNames -> Safe']
    BY <1>4, <1>5
  <1>8. CatchPoints' = CatchPoints
    BY DEF CatchPoints, Points
  <1>9. ValuesInv'
    BY <1>1, <1>5, <1>6, <1>7, <1>8 DEF ValuesInv, Grown
  <1> QED BY <1>1, <1>9 DEF Kept

\* A step that allocates and leaves a value.
LEMMA AllocatesLeaving ==
  ASSUME IInv, outcome = "running", Instruction.op \in Leaving \ {"GetLocal", "GetIterator", "Fail"},
         NEW n, n = Taken(Instruction), NEW v, NEW objs, Allocates(Append(Drop(n), v), objs),
         v \in Safe', Grown, Safe \subseteq Safe'
  PROVE  IInv'
  <1>1. PICK s : StandsAs(s)
    BY Running
  <1>2. KindsLeft(s, Instruction) = {}
    BY DEF KindsLeft
  <1>3. Append(Drop(n), v) \in Seq(Safe')
    <2>1. Taken(Instruction) \in 0 .. Len(stack)
      <3>1. Instruction.op # "CloseUpvalue"
        BY DEF Leaving, Throwing, CallOps
      <3> QED BY <1>1, <3>1, Rests
    <2>2. Drop(n) \in Seq(Safe')
      BY <2>1, DropSafe, SeqGrows DEF IInv
    <2> QED BY <2>2, AppendSeq
  <1>4. /\ ValuesInv' /\ Kept /\ UNCHANGED <<loaded, catchPoints>> /\ frames' = Next1
        /\ outcome' \in {"running", "suspended"} /\ stack' = Append(Drop(n), v)
    BY <1>3, HeapChanges
  <1> QED BY <1>1, <1>2, <1>4, Leaves

\* A step that changes an object and drops the top of the stack.
LEMMA AllocatesPopping ==
  ASSUME IInv, outcome = "running",
         Instruction.op \in {"Method", "Inherit"}, NEW objs, Allocates(Drop(1), objs),
         Grown, Safe \subseteq Safe'
  PROVE  IInv'
  <1>1. PICK s : StandsAs(s)
    BY Running
  <1>2. Taken(Instruction) = 1
    BY DEF Taken, CallOps
  <1>3. Drop(1) \in Seq(Safe')
    <2>1. Taken(Instruction) \in 0 .. Len(stack)
      BY <1>1, Rests
    <2> QED BY <1>2, <2>1, DropSafe, SeqGrows DEF IInv
  <1>4. /\ ValuesInv' /\ Kept /\ UNCHANGED <<loaded, catchPoints>> /\ frames' = Next1
        /\ outcome' \in {"running", "suspended"} /\ stack' = Drop(1)
    BY <1>3, HeapChanges
  <1>5. Instruction.op \notin Leaving \cup {"Jump", "Loop", "Return", "CloseUpvalue", "SetCatchPoint",
                                            "ClearCatchPoint", "SetLocal", "Closure"}
    BY DEF Leaving, Throwing, CallOps
  <1> QED BY <1>1, <1>2, <1>4, <1>5, Pops

\* Methods or fields of two objects together.
LEMMA MembersJoin ==
  ASSUME NEW S, NEW m \in Members(S), NEW n \in Members(S)
  PROVE  Joined(m, n) \in Members(S)
  <1>1. PICK M \in SUBSET Names : m \in [M -> S]
    BY DEF Members
  <1>2. PICK N \in SUBSET Names : n \in [N -> S]
    BY DEF Members
  <1>3. M \cup N \in SUBSET Names /\ Joined(m, n) \in [M \cup N -> S]
    BY <1>1, <1>2 DEF Joined
  <1> QED BY <1>3 DEF Members

\* One field or method more.
LEMMA MembersWith ==
  ASSUME NEW S, NEW m \in Members(S), NEW name \in Names, NEW v \in S
  PROVE  With(m, name, v) \in Members(S)
  <1>1. PICK M \in SUBSET Names : m \in [M -> S]
    BY DEF Members
  <1>2. M \cup {name} \in SUBSET Names /\ With(m, name, v) \in [M \cup {name} -> S]
    BY <1>1 DEF With
  <1> QED BY <1>2 DEF Members

\* An object with no members.
LEMMA MembersNone ==
  ASSUME NEW S
  PROVE  NoMembers \in Members(S)
  <1>1. {} \in SUBSET Names /\ NoMembers \in [{} -> S]
    BY DEF NoMembers
  <1> QED BY <1>1 DEF Members

\* What is known of an object of the heap.
LEMMA ObjectFacts ==
  ASSUME ValuesInv, NEW k \in DOMAIN objects, NEW o, o = objects[k]
  PROVE  /\ o \in Objects /\ o.fields \in Members(Safe) /\ o.methods \in Members(Closures)
         /\ o.is \in References /\ o.name \in Names /\ o.class \in Nat /\ o.superclass \in Nat
         /\ o.superclass # 0 => o.superclass \in DOMAIN objects
         /\ o.is = "instance" => o.class \in DOMAIN objects
         /\ o.is = "bound" =>
               /\ o.fields["receiver"] \in Safe /\ IsObject(o.fields["receiver"])
               /\ o.fields["method"] \in Closures
         /\ o = [is |-> o.is, name |-> o.name, class |-> o.class, superclass |-> o.superclass,
                 fields |-> o.fields, methods |-> o.methods]
         /\ \A name \in DOMAIN o.fields : o.fields[name] \in Safe
         /\ \A name \in DOMAIN o.methods : o.methods[name] \in Closures
  <1>1. o \in Objects
    <2>1. objects \in Seq(Objects)
      BY DEF ValuesInv
    <2> QED BY <2>1
  <1>2. /\ o.fields \in Members(Safe) /\ o.methods \in Members(Closures)
        /\ o.is \in References /\ o.name \in Names /\ o.class \in Nat /\ o.superclass \in Nat
        /\ o.superclass # 0 => o.superclass \in DOMAIN objects
        /\ o.is = "instance" => o.class \in DOMAIN objects
        /\ o.is = "bound" =>
              /\ {"receiver", "method"} \subseteq DOMAIN o.fields
              /\ IsObject(o.fields["receiver"]) /\ o.fields["method"] \in Closures
        /\ o = [is |-> o.is, name |-> o.name, class |-> o.class, superclass |-> o.superclass,
                fields |-> o.fields, methods |-> o.methods]
    BY <1>1 DEF Objects
  <1>3. /\ \A name \in DOMAIN o.fields : o.fields[name] \in Safe
        /\ \A name \in DOMAIN o.methods : o.methods[name] \in Closures
    BY <1>2 DEF Members
  <1> QED BY <1>1, <1>2, <1>3

\* Functions, classes, instances and bound methods are objects.
LEMMA ObjectKinds ==
  ASSUME NEW v, v.is \in {"closure", "class", "instance", "bound"}
  PROVE  IsObject(v)
  <1>1. /\ None.is = "none" /\ \A b : Bool(b).is = "bool"
        /\ Value("const", "d").is = "const" /\ Value("const", "n").is = "const"
    BY DEF None, Bool, Value
  <1>2. v # None /\ (\A b : v # Bool(b)) /\ v # Value("const", "d") /\ v # Value("const", "n")
    BY <1>1
  <1> QED BY <1>2 DEF IsObject, NoObject, Number

\* What a value refers to.
LEMMA Referred ==
  ASSUME ValuesInv, NEW v \in Safe, v.is \in References
  PROVE  /\ v.fn \in DOMAIN objects /\ v.fn \in Nat /\ ObjectOf(v) = objects[v.fn]
         /\ ObjectOf(v).is = v.is /\ IsObject(v) /\ v.of \in Names
  <1>1. v.fn \in DOMAIN objects /\ v.fn \in Nat /\ ObjectOf(v) = objects[v.fn] /\ ObjectOf(v).is = v.is
        /\ v.of \in Names
    BY DEF Safe, Vals, ObjectOf
  <1>2. IsObject(v)
    BY ObjectKinds DEF References
  <1> QED BY <1>1, <1>2

LEMMA ClassKeeps == ASSUME IInv, MakeClass PROVE IInv'
  <1> DEFINE o == [is |-> "class", name |-> Instruction.name, class |-> 0,
                   superclass |-> 0, fields |-> NoMembers, methods |-> NoMembers]
             v == Reference("class", Instruction.name)
  <1>1. /\ outcome = "running" /\ Instruction.op = "Class" /\ ValuesInv /\ Instruction.name \in Names
        /\ Drop(0) = stack
    BY RunsOp DEF MakeClass
  <1>2. o \in Objects /\ o.is = "class"
    BY <1>1, MembersNone DEF Objects, References
  <1>3. Taken(Instruction) = 0 /\ Instruction.op \in Leaving \ {"GetLocal", "GetIterator", "Fail"}
    BY <1>1 DEF Taken, CallOps, Leaving, Throwing
  <1>4. Allocates(Append(Drop(0), v), Append(objects, o))
    BY <1>1 DEF MakeClass
  <1>5. objects' = Append(objects, o) /\ UNCHANGED <<loaded, upvalues>>
    BY <1>4 DEF Allocates
  <1> HIDE DEF o
  <1>6. Grown /\ Safe \subseteq Safe' /\ v \in Safe'
    BY <1>1, <1>2, <1>5, ObjectAdded DEF References
  <1> HIDE DEF v
  <1> QED BY <1>1, <1>3, <1>4, <1>6, AllocatesLeaving

LEMMA MethodKeeps == ASSUME IInv, DefineMethod PROVE IInv'
  <1> DEFINE k == Below(1).fn
             objs == [objects EXCEPT ![k].methods = With(@, Instruction.name, Top)]
             o == [objects[k] EXCEPT !.methods = With(objects[k].methods, Instruction.name, Top)]
  <1>1. /\ outcome = "running" /\ Instruction.op = "Method" /\ ValuesInv /\ Instruction.name \in Names
        /\ Popped(stack) = Drop(1)
    BY RunsOp DEF DefineMethod
  <1>2. Below(1) \in Safe /\ Top \in Safe
    BY <1>1, StackSafe DEF Below
  <1>3. Top \in Closures
    <2>1. PICK s : StandsAs(s)
      BY <1>1, Running
    <2>2. <<s.height - 1, "closure">> \in s.known
      BY <1>1, <2>1, StandingFacts DEF Allowed, Instruction
    <2>3. Top.is = "closure"
      BY <1>1, <2>1, <2>2, TopKnown DEF IsA
    <2> QED BY <1>2, <2>3 DEF Closures
  <1>4. Allocates(Drop(1), objs)
    BY <1>1 DEF DefineMethod
  <1>5. objects' = objs /\ objs = [objects EXCEPT ![k] = o] /\ UNCHANGED <<loaded, upvalues>>
    BY <1>4 DEF Allocates
  <1>6. ASSUME k \in DOMAIN objects
        PROVE  o \in Objects /\ o.is = objects[k].is
    <2> DEFINE p == objects[k]
               m == With(p.methods, Instruction.name, Top)
    <2>1. p \in Objects /\ p.methods \in Members(Closures)
      BY <1>1, <1>6, ObjectFacts
    <2>2. m \in Members(Closures)
      BY <1>1, <1>3, <2>1, MembersWith
    <2> HIDE DEF m, p, k
    <2>3. [p EXCEPT !.methods = m] \in Objects /\ [p EXCEPT !.methods = m].is = p.is
      BY <2>1, <2>2 DEF Objects
    <2> QED BY <2>3 DEF m, p
  <1> HIDE DEF objs, o, k
  <1>7. Grown /\ Safe \subseteq Safe'
    BY <1>1, <1>5, <1>6, ObjectChanged
  <1> QED BY <1>1, <1>4, <1>7, AllocatesPopping

LEMMA InheritKeeps == ASSUME IInv, Inherit PROVE IInv'
  <1> DEFINE k == Below(1).fn
             up == ObjectOf(Top).methods
             objs == [objects EXCEPT ![k].superclass = Top.fn, ![k].methods = Joined(@, up)]
             o == [objects[k] EXCEPT !.superclass = Top.fn, !.methods = Joined(objects[k].methods, up)]
  <1>1. /\ outcome = "running" /\ Instruction.op = "Inherit" /\ ValuesInv
        /\ Popped(stack) = Drop(1)
    BY RunsOp DEF Inherit
  <1>2. Top \in Safe /\ objects \in Seq(Objects)
    BY <1>1, StackSafe DEF ValuesInv
  <1>3. CASE Top.is = "class"
    <2>1. Allocates(Drop(1), objs)
      BY <1>1, <1>3 DEF Inherit
    <2>2. objects' = objs /\ UNCHANGED <<loaded, upvalues>>
      BY <2>1 DEF Allocates
    <2>3. objs = [objects EXCEPT ![k] = o]
      <3>1. CASE k \in DOMAIN objects
        BY <1>2, <3>1
      <3>2. CASE k \notin DOMAIN objects
        BY <1>2, <3>2
      <3> QED BY <3>1, <3>2
    <2>4. /\ Top.fn \in DOMAIN objects /\ Top.fn \in Nat /\ up \in Members(Closures)
      BY <1>1, <1>2, <1>3, Referred, ObjectFacts DEF References
    <2>5. ASSUME k \in DOMAIN objects
          PROVE  o \in Objects /\ o.is = objects[k].is
      <3> DEFINE p == objects[k]
                 m == Joined(p.methods, up)
                 fn == Top.fn
      <3>1. p \in Objects /\ p.methods \in Members(Closures)
        BY <1>1, <2>5, ObjectFacts
      <3>2. m \in Members(Closures) /\ fn \in Nat /\ fn \in DOMAIN objects
        BY <2>4, <3>1, MembersJoin
      <3> HIDE DEF m, p, k, fn, up
      <3>3. /\ [p EXCEPT !.superclass = fn, !.methods = m] \in Objects
            /\ [p EXCEPT !.superclass = fn, !.methods = m].is = p.is
        BY <3>1, <3>2 DEF Objects
      <3> QED BY <3>3 DEF m, p, fn
    <2> HIDE DEF objs, o, k, up
    <2>6. Grown /\ Safe \subseteq Safe'
      BY <1>1, <2>2, <2>3, <2>5, ObjectChanged
    <2> QED BY <1>1, <2>1, <2>6, AllocatesPopping
  <1>4. CASE Top.is # "class" /\ IsObject(Top)
    BY <1>1, <1>4, DyingKeeps DEF Inherit
  <1>5. CASE Top.is # "class" /\ ~IsObject(Top)
    <2>1. Steps(Drop(1))
      BY <1>1, <1>5 DEF Inherit
    <2>2. Taken(Instruction) = 1
      BY <1>1 DEF Taken, CallOps
    <2>3. Instruction.op \notin Leaving \cup {"Jump", "Loop", "Return", "CloseUpvalue", "SetCatchPoint",
                                              "ClearCatchPoint", "SetLocal", "Closure"}
      BY <1>1 DEF Leaving, Throwing, CallOps
    <2> QED BY <1>1, <2>1, <2>2, <2>3, StepsPopping
  <1> QED BY <1>3, <1>4, <1>5

\* A method that is read from an instance.
LEMMA BindingKeeps ==
  ASSUME IInv, outcome = "running", Instruction.op \in {"GetProperty", "SafeNav"},
         NEW receiver \in Safe, receiver.is = "instance", NEW method \in Closures, NEW name \in Names,
         Allocates(Append(Drop(1), Reference("bound", name)),
                   Append(objects, [is |-> "bound", name |-> name, class |-> 0, superclass |-> 0,
                       fields |-> With(With(NoMembers, "receiver", receiver), "method", method),
                       methods |-> NoMembers]))
  PROVE  IInv'
  <1> DEFINE one == With(NoMembers, "receiver", receiver)
             two == With(one, "method", method)
             o == [is |-> "bound", name |-> name, class |-> 0, superclass |-> 0, fields |-> two,
                   methods |-> NoMembers]
             v == Reference("bound", name)
  <1>1. Taken(Instruction) = 1 /\ Instruction.op \in Leaving \ {"GetLocal", "GetIterator", "Fail"}
    BY DEF Taken, CallOps, Leaving, Throwing
  <1>2. o \in Objects /\ o.is = "bound"
    <2>1. "receiver" \in Names /\ "method" \in Names /\ method \in Safe
      BY DEF Names, Closures
    <2>2. one["receiver"] = receiver /\ "receiver" \in DOMAIN one
      BY DEF With, NoMembers
    <2>3. /\ two["method"] = method /\ two["receiver"] = receiver
          /\ {"receiver", "method"} \subseteq DOMAIN two
      <3> HIDE DEF one
      <3> QED BY <2>2 DEF With
    <2>5. two \in Members(Safe)
      <3>1. NoMembers \in Members(Safe)
        BY MembersNone
      <3>2. one \in Members(Safe)
        BY <2>1, <3>1, MembersWith
      <3> HIDE DEF one
      <3> QED BY <2>1, <3>2, MembersWith
    <2> HIDE DEF one, two
    <2>4. NoMembers \in Members(Closures) /\ IsObject(receiver)
      BY MembersNone, ObjectKinds
    <2> QED BY <2>3, <2>4, <2>5 DEF Objects, References
  <1>3. Allocates(Append(Drop(1), v), Append(objects, o))
    OBVIOUS
  <1>4. objects' = Append(objects, o) /\ UNCHANGED <<loaded, upvalues>> /\ ValuesInv
    BY <1>3 DEF Allocates, IInv
  <1> HIDE DEF o
  <1>5. Grown /\ Safe \subseteq Safe' /\ v \in Safe'
    BY <1>2, <1>4, ObjectAdded DEF References
  <1> HIDE DEF v
  <1> QED BY <1>1, <1>3, <1>5, AllocatesLeaving

\* Reading a property: a field, or a method, bound to the instance it is read from.
LEMMA ReadKeeps ==
  ASSUME IInv, outcome = "running", Instruction.op \in {"GetProperty", "SafeNav"},
         NEW receiver, receiver = Top, ReadProperty(receiver, Instruction.name), Popped(stack) = Drop(1),
         Instruction.name \in Names
  PROVE  IInv'
  <1> DEFINE name == Instruction.name
             o == ObjectOf(receiver)
  <1>1. ValuesInv /\ receiver \in Safe
    BY StackSafe DEF IInv
  <1>2. Taken(Instruction) = 1 /\ Instruction.op \in Leaving \ {"GetLocal", "GetIterator"}
        /\ Instruction.op # "Fail"
    BY DEF Taken, CallOps, Leaving, Throwing
  <1>3. ASSUME NEW v \in Safe, Steps(Append(Drop(1), v))
        PROVE  IInv'
    BY <1>2, <1>3, StepsLeaving
  <1>4. receiver.is \in HasMembers =>
           /\ receiver.fn \in DOMAIN objects /\ o = objects[receiver.fn] /\ o.is = receiver.is
           /\ \A n \in DOMAIN o.fields : o.fields[n] \in Safe
           /\ \A n \in DOMAIN o.methods : o.methods[n] \in Closures
           /\ receiver.is = "instance" => o.class \in DOMAIN objects
    BY <1>1, Referred, ObjectFacts DEF HasMembers, References
  <1>5. CASE /\ receiver.is \in HasMembers /\ name \in DOMAIN o.fields
             /\ Steps(Append(Popped(stack), o.fields[name]))
    BY <1>3, <1>4, <1>5
  <1>6. CASE /\ receiver.is = "instance" /\ name \notin DOMAIN o.fields
             /\ LET methods == objects[o.class].methods
                IN  IF name \notin DOMAIN methods THEN Dies("error")
                    ELSE Allocates(Append(Popped(stack), Reference("bound", name)),
                             Append(objects, [is |-> "bound", name |-> name, class |-> 0, superclass |-> 0,
                                 fields |-> With(With(NoMembers, "receiver", receiver), "method", methods[name]),
                                 methods |-> NoMembers]))
    <2> DEFINE methods == objects[o.class].methods
    <2>1. \A n \in DOMAIN methods : methods[n] \in Closures
      <3>1. o.class \in DOMAIN objects
        BY <1>4, <1>6 DEF HasMembers
      <3> QED BY <1>1, <3>1, ObjectFacts
    <2>2. CASE name \notin DOMAIN methods
      BY <1>6, <2>2, DyingKeeps
    <2>3. CASE name \in DOMAIN methods
      <3> DEFINE method == methods[name]
      <3>1. method \in Closures
        BY <2>1, <2>3
      <3>2. Allocates(Append(Drop(1), Reference("bound", name)),
                      Append(objects, [is |-> "bound", name |-> name, class |-> 0, superclass |-> 0,
                          fields |-> With(With(NoMembers, "receiver", receiver), "method", method),
                          methods |-> NoMembers]))
        BY <1>6, <2>3
      <3> HIDE DEF method
      <3> QED BY <1>1, <1>6, <3>1, <3>2, BindingKeeps
    <2> QED BY <2>2, <2>3
  <1>7. CASE /\ receiver.is = "class" /\ name \notin DOMAIN o.fields
             /\ IF name \in DOMAIN o.methods
                THEN Steps(Append(Popped(stack), o.methods[name])) ELSE Dies("error")
    <2>1. CASE name \in DOMAIN o.methods
      <3>1. o.methods[name] \in Safe
        BY <1>4, <1>7, <2>1 DEF HasMembers, Closures
      <3>2. Steps(Append(Drop(1), o.methods[name]))
        BY <1>7, <2>1
      <3> QED BY <1>3, <3>1, <3>2
    <2>2. CASE name \notin DOMAIN o.methods
      BY <1>7, <2>2, DyingKeeps
    <2> QED BY <2>1, <2>2
  <1>8. CASE /\ receiver.is \notin HasMembers
             /\ IF receiver \in Iterable THEN Steps(Append(Popped(stack), Value("const", "n")))
                ELSE Dies("error")
    <2>1. Value("const", "n") \in Safe
      <3>1. "n" \in Names
        BY DEF Names
      <3> QED BY <3>1, ConstantsSafe
    <2> QED BY <1>3, <1>8, <2>1, DyingKeeps
  <1> QED BY <1>5, <1>6, <1>7, <1>8 DEF ReadProperty

LEMMA PropertyKeeps == ASSUME IInv, GetProperty \/ SafeNav PROVE IInv'
  <1>1. CASE GetProperty
    BY <1>1, RunsOp, ReadKeeps DEF GetProperty
  <1>2. CASE SafeNav
    <2>1. /\ outcome = "running" /\ Instruction.op = "SafeNav" /\ Instruction.name \in Names
          /\ Popped(stack) = Drop(1) /\ Append(Drop(1), Top) = stack /\ ValuesInv
      BY <1>2, RunsOp DEF SafeNav
    <2>2. CASE Top = None
      <3>1. Steps(Append(Drop(1), Top)) /\ Top \in Safe
        BY <1>2, <2>1, <2>2, StackSafe DEF SafeNav
      <3>2. Taken(Instruction) = 1 /\ Instruction.op \in Leaving \ {"GetLocal", "GetIterator"}
            /\ Instruction.op # "Fail"
        BY <2>1 DEF Taken, CallOps, Leaving, Throwing
      <3> QED BY <2>1, <3>1, <3>2, StepsLeaving
    <2>3. CASE Top # None
      BY <1>2, <2>1, <2>3, ReadKeeps DEF SafeNav
    <2> QED BY <2>2, <2>3
  <1> QED BY <1>1, <1>2

LEMMA SetPropertyKeeps == ASSUME IInv, SetProperty PROVE IInv'
  <1> DEFINE k == Below(1).fn
             objs == [objects EXCEPT ![k].fields = With(@, Instruction.name, Top)]
             o == [objects[k] EXCEPT !.fields = With(objects[k].fields, Instruction.name, Top)]
  <1>1. /\ outcome = "running" /\ Instruction.op = "SetProperty" /\ ValuesInv /\ Instruction.name \in Names
    BY RunsOp DEF SetProperty
  <1>2. Below(1) \in Safe /\ Top \in Safe
    BY <1>1, StackSafe DEF Below
  <1>3. CASE Below(1).is \notin HasMembers
    BY <1>1, <1>3, DyingKeeps DEF SetProperty
  <1>4. CASE Below(1).is \in HasMembers
    <2>1. Allocates(Append(Drop(2), Top), objs)
      BY <1>4 DEF SetProperty
    <2>2. objects' = objs /\ objs = [objects EXCEPT ![k] = o] /\ UNCHANGED <<loaded, upvalues>>
      BY <2>1 DEF Allocates
    <2>3. k \in DOMAIN objects /\ objects[k].is \in HasMembers
      BY <1>1, <1>2, <1>4, Referred DEF HasMembers, References
    <2>4. o \in Objects /\ o.is = objects[k].is
      <3> DEFINE p == objects[k]
                 m == With(p.fields, Instruction.name, Top)
      <3>1. p \in Objects /\ p.fields \in Members(Safe) /\ p.is \in {"class", "instance"}
        BY <1>1, <2>3, ObjectFacts DEF HasMembers
      <3>2. m \in Members(Safe)
        BY <1>1, <1>2, <3>1, MembersWith
      <3> HIDE DEF m, p, k
      <3>3. [p EXCEPT !.fields = m] \in Objects /\ [p EXCEPT !.fields = m].is = p.is
        BY <3>1, <3>2 DEF Objects
      <3> QED BY <3>3 DEF m, p
    <2> HIDE DEF objs, o, k
    <2>5. Grown /\ Safe \subseteq Safe'
      BY <1>1, <2>2, <2>4, ObjectChanged
    <2>6. Taken(Instruction) = 2 /\ Instruction.op \in Leaving \ {"GetLocal", "GetIterator", "Fail"}
      BY <1>1 DEF Taken, CallOps, Leaving, Throwing
    <2>7. Top \in Safe'
      BY <1>2, <2>5
    <2> QED BY <1>1, <2>1, <2>5, <2>6, <2>7, AllocatesLeaving
  <1> QED BY <1>3, <1>4

-----------------------------------------------------------------------------
(* What is called.                                                         *)

\* Replacing the top of the stack is popping it and pushing another.
LEMMA TopSet ==
  ASSUME ValuesInv, stack # <<>>, NEW v
  PROVE  [stack EXCEPT ![Len(stack)] = v] = Append(Drop(1), v)
  <1> DEFINE S == Safe \cup {v}
             a == [stack EXCEPT ![Len(stack)] = v]
             d == Drop(1)
             b == Append(d, v)
  <1>1. stack \in Seq(S) /\ Len(stack) \in Nat \ {0}
    <2>1. stack \in Seq(Safe) /\ Len(stack) \in Nat /\ Len(stack) # 0
      BY StackSafe DEF ValuesInv
    <2> QED BY <2>1, SeqGrows
  <1>2. d \in Seq(S) /\ Len(d) = Len(stack) - 1 /\ \A k \in 1 .. Len(stack) - 1 : d[k] = stack[k]
    <2>1. 1 \in 0 .. Len(stack)
      BY <1>1
    <2>2. d \in Seq(Safe) /\ Len(d) = Len(stack) - 1 /\ \A k \in 1 .. Len(stack) - 1 : d[k] = stack[k]
      BY <2>1, DropSafe
    <2> HIDE DEF d
    <2> QED BY <2>2, SeqGrows
  <1>3. v \in S
    OBVIOUS
  <1> HIDE DEF S, d
  <1>4. /\ a \in Seq(S) /\ Len(a) = Len(stack) /\ a[Len(stack)] = v
        /\ \A k \in 1 .. Len(stack) - 1 : a[k] = stack[k]
    BY ONLY <1>1, <1>3
  <1>5. /\ b \in Seq(S) /\ Len(b) = Len(stack) /\ b[Len(stack)] = v
        /\ \A k \in 1 .. Len(stack) - 1 : b[k] = stack[k]
    <2>1. /\ b \in Seq(S) /\ Len(b) = Len(d) + 1 /\ b[Len(d) + 1] = v /\ \A k \in 1 .. Len(d) : b[k] = d[k]
      BY ONLY <1>2, <1>3, AppendSeq
    <2>2. Len(d) + 1 = Len(stack)
      BY <1>1, <1>2
    <2> QED BY <1>2, <2>1, <2>2
  <1> HIDE DEF a, b
  <1>6. \A k \in 1 .. Len(stack) : a[k] = b[k]
    BY ONLY <1>1, <1>4, <1>5
  <1>7. a = b
    BY ONLY <1>1, <1>4, <1>5, <1>6
  <1> QED BY <1>7 DEF a, b, d

\* A class that is called: its instance takes the place of the callee, and its
\* init runs if it has one.
LEMMA ConstructKeeps ==
  ASSUME IInv, outcome = "running", Instruction.op \in CallOps, NEW class \in Safe, class.is = "class",
         Construct(class)
  PROVE  IInv'
  <1> DEFINE c == ObjectOf(class)
             v == Reference("instance", class.of)
             o == [c EXCEPT !.is = "instance", !.class = class.fn, !.superclass = 0, !.methods = NoMembers]
             s == [stack EXCEPT ![CalleeAt] = v]
             objs == Append(objects, o)
  <1>1. /\ ValuesInv /\ class.fn \in DOMAIN objects /\ class.fn \in Nat /\ c = objects[class.fn]
        /\ class.of \in Names
    BY Referred DEF References, IInv
  <1>2. /\ c \in Objects /\ c.methods \in Members(Closures)
        /\ \A name \in DOMAIN c.methods : c.methods[name] \in Closures
    BY <1>1, ObjectFacts
  <1>3. o \in Objects /\ o.is = "instance"
    <2> DEFINE fn == class.fn
    <2>1. fn \in Nat /\ fn \in DOMAIN objects /\ NoMembers \in Members(Closures)
      BY <1>1, MembersNone
    <2> HIDE DEF fn, c
    <2>2. /\ [c EXCEPT !.is = "instance", !.class = fn, !.superclass = 0, !.methods = NoMembers] \in Objects
          /\ [c EXCEPT !.is = "instance", !.class = fn, !.superclass = 0, !.methods = NoMembers].is = "instance"
      BY <1>2, <2>1 DEF Objects, References
    <2> QED BY <2>2 DEF fn
  <1>4. CalleeAt \in DOMAIN stack /\ CalleeAt \in Nat /\ stack \in Seq(Safe) /\ stack # <<>>
        /\ DOMAIN stack = 1 .. Len(stack) /\ CalleeAt = Len(stack) - Instruction.arg
        /\ Len(stack) \in Nat
    BY CallFacts, StackSafe DEF IInv, ValuesInv
  <1>5. ASSUME UNCHANGED <<loaded, upvalues>>, objects' = objs
        PROVE  Grown /\ Safe \subseteq Safe' /\ v \in Safe' /\ s \in Seq(Safe')
    <2>1. Grown /\ Safe \subseteq Safe' /\ v \in Safe'
      <3> HIDE DEF o
      <3> QED BY <1>1, <1>3, <1>5, ObjectAdded DEF References
    <2>2. stack \in Seq(Safe')
      BY <1>4, <2>1, SeqGrows
    <2> HIDE DEF v
    <2>3. s \in Seq(Safe')
      BY <1>4, <2>1, <2>2
    <2> QED BY <2>1, <2>3
  <1>6. Len(s) = Len(stack) /\ s[CalleeAt] = v /\ \A p \in 1 .. CalleeAt - 1 : s[p] = stack[p]
    <2>1. \A p \in 1 .. CalleeAt - 1 : p \in DOMAIN stack /\ p # CalleeAt
      BY <1>4
    <2> HIDE DEF v
    <2> QED BY <1>4, <2>1
  <1>7. IsObject(s[CalleeAt])
    <2>1. v.is = "instance"
      BY DEF Reference
    <2> HIDE DEF v, s
    <2> QED BY <1>6, <2>1, ObjectKinds
  <1>8. CASE "init" \in DOMAIN c.methods
    <2> DEFINE init == c.methods["init"]
    <2>1. init \in Closures
      BY <1>2, <1>8
    <2>2. CallClosure(init, s, objs)
      BY <1>8 DEF Construct
    <2> HIDE DEF init, s, objs
    <2> QED BY <1>5, <1>6, <1>7, <2>1, <2>2, ClosureRuns DEF Grown
  <1>9. CASE "init" \notin DOMAIN c.methods /\ Instruction.arg # 0
    BY <1>9, DyingKeeps DEF Construct
  <1>10. CASE "init" \notin DOMAIN c.methods /\ Instruction.arg = 0
    <2>1. Allocates(s, objs)
      BY <1>10 DEF Construct
    <2>2. CalleeAt = Len(stack)
      BY <1>4, <1>10
    <2>3. s = Append(Drop(1), v)
      BY <1>1, <1>4, <2>2, TopSet
    <2>4. objects' = objs /\ UNCHANGED <<loaded, upvalues>>
      BY <2>1 DEF Allocates
    <2>5. Taken(Instruction) = 1 /\ Instruction.op \in Leaving \ {"GetLocal", "GetIterator", "Fail"}
      BY <1>10 DEF Taken, CallOps, Leaving, Throwing
    <2> HIDE DEF s, objs, v
    <2> QED BY <1>5, <2>1, <2>3, <2>4, <2>5, AllocatesLeaving
  <1> QED BY <1>8, <1>9, <1>10

\* All that can be called: a function, a class, a bound method, a native.
LEMMA ValueCalled ==
  ASSUME IInv, outcome = "running", Instruction.op \in CallOps, NEW callee \in Safe, CallValue(callee)
  PROVE  IInv'
  <1>1. ValuesInv
    BY DEF IInv
  <1>2. CASE callee.is = "closure" /\ CallClosure(callee, [stack EXCEPT ![CalleeAt] = callee], objects)
    BY <1>2, ClosureCalled, ObjectKinds DEF Closures
  <1>3. CASE callee.is = "native" /\ RunNative(Results(callee.of))
    <2>1. Results(callee.of) \subseteq Safe
      BY <1>3, ResultsSafe DEF Safe
    <2> QED BY <1>3, <2>1, NativeKeeps
  <1>4. CASE callee.is = "class" /\ Construct(callee)
    BY <1>4, ConstructKeeps
  <1>5. CASE /\ callee.is = "bound"
             /\ CallClosure(ObjectOf(callee).fields["method"],
                      [stack EXCEPT ![CalleeAt] = ObjectOf(callee).fields["receiver"]], objects)
    <2> DEFINE method == ObjectOf(callee).fields["method"]
               receiver == ObjectOf(callee).fields["receiver"]
    <2>1. method \in Closures /\ receiver \in Safe /\ IsObject(receiver)
      BY <1>1, <1>5, Referred, ObjectFacts DEF References
    <2>2. CallClosure(method, [stack EXCEPT ![CalleeAt] = receiver], objects)
      BY <1>5
    <2> HIDE DEF method, receiver
    <2> QED BY <2>1, <2>2, ClosureCalled
  <1>6. CASE callee.is \notin {"closure", "native", "class", "bound"} /\ Dies("error")
    BY <1>6, DyingKeeps
  <1> QED BY <1>2, <1>3, <1>4, <1>5, <1>6 DEF CallValue

LEMMA CallKeeps == ASSUME IInv, Call PROVE IInv'
  <1>1. outcome = "running" /\ Instruction.op \in CallOps
    BY RunsOp DEF Call, CallOps
  <1>2. Callee \in Safe
    BY <1>1, CallFacts
  <1> QED BY <1>1, <1>2, ValueCalled DEF Call

\* A method found in a class.
LEMMA MethodCalled ==
  ASSUME IInv, outcome = "running", Instruction.op \in CallOps, NEW method \in Closures,
         IsObject(Callee), CallClosure(method, stack, objects)
  PROVE  IInv'
  <1>1. /\ CalleeAt \in DOMAIN stack /\ stack \in Seq(Safe) /\ Callee \in Safe /\ Callee = stack[CalleeAt]
    BY CallFacts DEF IInv, ValuesInv, Callee
  <1>2. [stack EXCEPT ![CalleeAt] = Callee] = stack
    BY <1>1
  <1> QED BY <1>1, <1>2, ClosureCalled

LEMMA InvokeKeeps == ASSUME IInv, Invoke PROVE IInv'
  <1> DEFINE receiver == Callee
             name == Instruction.name
             o == ObjectOf(receiver)
             methods == IF receiver.is = "class" THEN o.methods ELSE objects[o.class].methods
  <1>1. outcome = "running" /\ Instruction.op \in CallOps /\ ValuesInv
    BY RunsOp DEF Invoke, CallOps
  <1>2. receiver \in Safe
    BY <1>1, CallFacts
  <1>3. receiver.is \in HasMembers =>
           /\ IsObject(receiver)
           /\ \A n \in DOMAIN o.fields : o.fields[n] \in Safe
           /\ \A n \in DOMAIN methods : methods[n] \in Closures
    <2> SUFFICES ASSUME receiver.is \in HasMembers
                 PROVE  /\ IsObject(receiver)
                        /\ \A n \in DOMAIN o.fields : o.fields[n] \in Safe
                        /\ \A n \in DOMAIN methods : methods[n] \in Closures
      OBVIOUS
    <2>1. /\ IsObject(receiver) /\ receiver.fn \in DOMAIN objects /\ o = objects[receiver.fn]
          /\ o.is = receiver.is
      BY <1>1, <1>2, Referred DEF HasMembers, References
    <2>2. /\ \A n \in DOMAIN o.fields : o.fields[n] \in Safe
          /\ \A n \in DOMAIN o.methods : o.methods[n] \in Closures
          /\ o.is = "instance" => o.class \in DOMAIN objects
      BY <1>1, <2>1, ObjectFacts
    <2>3. CASE receiver.is = "class"
      BY <2>1, <2>2, <2>3
    <2>4. CASE receiver.is = "instance"
      <3>1. \A n \in DOMAIN objects[o.class].methods : objects[o.class].methods[n] \in Closures
        BY <1>1, <2>1, <2>2, <2>4, ObjectFacts
      <3> QED BY <2>1, <2>2, <2>4, <3>1
    <2> QED BY <2>3, <2>4 DEF HasMembers
  <1>4. CASE receiver \in Iterable /\ RunNative({Value("const", "n"), Undefined})
    <2>1. {Value("const", "n"), Undefined} \subseteq Safe
      <3>1. "n" \in Names
        BY DEF Names
      <3> QED BY <3>1, ConstantsSafe
    <2> QED BY <1>1, <1>4, <2>1, NativeKeeps
  <1>5. CASE receiver.is = "instance" /\ name \in DOMAIN o.fields /\ CallValue(o.fields[name])
    <2> DEFINE v == o.fields[name]
    <2>1. v \in Safe /\ CallValue(v)
      BY <1>3, <1>5 DEF HasMembers
    <2> HIDE DEF v
    <2> QED BY <1>1, <2>1, ValueCalled
  <1>6. CASE /\ receiver.is \in HasMembers
             /\ IF name \in DOMAIN methods THEN CallClosure(methods[name], stack, objects) ELSE Dies("error")
    <2>1. CASE name \in DOMAIN methods
      <3> DEFINE m == methods[name]
      <3>1. m \in Closures /\ CallClosure(m, stack, objects) /\ IsObject(Callee)
        BY <1>3, <1>6, <2>1
      <3> HIDE DEF m
      <3> QED BY <1>1, <3>1, MethodCalled
    <2>2. CASE name \notin DOMAIN methods
      BY <1>1, <1>6, <2>2, DyingKeeps
    <2> QED BY <2>1, <2>2
  <1>7. CASE Dies("error")
    BY <1>1, <1>7, DyingKeeps
  <1> QED BY <1>4, <1>5, <1>6, <1>7 DEF Invoke

LEMMA SuperInvokeKeeps == ASSUME IInv, SuperInvoke PROVE IInv'
  <1> DEFINE up == SuperclassOf(Callee)
             methods == objects[up].methods
             name == Instruction.name
  <1>1. outcome = "running" /\ Instruction.op = "SuperInvoke" /\ Instruction.op \in CallOps /\ ValuesInv
    BY RunsOp DEF SuperInvoke, CallOps
  <1>2. Callee \in Safe
    BY <1>1, CallFacts
  <1>3. IsObject(Callee)
    <2>1. PICK s : StandsAs(s)
      BY <1>1, Running
    <2>2. <<s.height - 1 - Instruction.arg, "object">> \in s.known
      BY <1>1, <2>1, StandingFacts DEF Allowed, Instruction
    <2>3. IsA(stack[Frame.base + (s.height - 1 - Instruction.arg)], "object")
      BY <2>1, <2>2 DEF StandsAs, Holds
    <2>4. Frame.base + (s.height - 1 - Instruction.arg) = CalleeAt
      <3> DEFINE base == Frame.base
                 height == s.height
                 len == Len(stack)
                 arg == Instruction.arg
      <3>1. base \in Nat /\ height \in Nat /\ len \in Nat /\ arg \in Nat /\ base + height = len + 1
            /\ CalleeAt = len - arg
        BY <1>1, <2>1, StandingFacts, CallFacts, Running
      <3> HIDE DEF base, height, len, arg
      <3>2. base + (height - 1 - arg) = CalleeAt
        BY ONLY <3>1
      <3> QED BY <3>2 DEF base, height, arg
    <2> QED BY <2>3, <2>4 DEF IsA, Callee
  <1>4. CASE Callee.is # "instance" \/ up = 0
    BY <1>1, <1>3, <1>4, DyingKeeps DEF SuperInvoke
  <1>5. CASE Callee.is = "instance" /\ up # 0
    <2>1. up \in DOMAIN objects
      <3> DEFINE o == ObjectOf(Callee)
      <3>1. /\ Callee.fn \in DOMAIN objects /\ o = objects[Callee.fn] /\ o.is = "instance"
        BY <1>1, <1>2, <1>5, Referred DEF References
      <3>2. o.class \in DOMAIN objects
        BY <1>1, <3>1, ObjectFacts
      <3> QED BY <1>1, <1>5, <3>2, ObjectFacts DEF SuperclassOf
    <2>2. \A n \in DOMAIN methods : methods[n] \in Closures
      BY <1>1, <2>1, ObjectFacts
    <2>3. CASE name \in DOMAIN methods
      <3> DEFINE m == methods[name]
      <3>1. m \in Closures
        BY <2>2, <2>3
      <3>2. CallClosure(m, stack, objects)
        BY <1>3, <1>5, <2>3 DEF SuperInvoke
      <3> HIDE DEF m
      <3> QED BY <1>1, <1>3, <3>1, <3>2, MethodCalled
    <2>4. CASE name \notin DOMAIN methods
      <3>1. Dies("error")
        BY <1>3, <1>5, <2>4 DEF SuperInvoke
      <3> QED BY <1>1, <3>1, DyingKeeps
    <2> QED BY <2>3, <2>4
  <1> QED BY <1>4, <1>5

-----------------------------------------------------------------------------
(* Returns.                                                                *)

\* What a return leaves below the frame that ends.
LEMMA ReturnFacts ==
  ASSUME IInv, Return, NEW m, m = Len(frames), NEW base, base = Frame.base
  PROVE  /\ outcome = "running" /\ UNCHANGED <<loaded, elsewhere, catchPoints, globals>>
         /\ upvalues' \in Seq(UpvalueSet) /\ DOMAIN upvalues' = DOMAIN upvalues
         /\ openUpvalues' = {u \in DOMAIN upvalues' : upvalues'[u].open} /\ Shared'
         /\ \A u \in openUpvalues' : /\ u \in openUpvalues /\ upvalues'[u].slot = upvalues[u].slot
                                     /\ upvalues'[u].slot \in 1 .. base - 1
         /\ frames' \in Seq(FrameSet) /\ Len(frames') = m - 1 /\ \A j \in 1 .. m - 1 : frames'[j] = frames[j]
         /\ \A n \in DOMAIN catchPoints : catchPoints[n].frame \in 1 .. m - 1
  <1>1. /\ outcome = "running" /\ Instruction.op = "Return" /\ ValuesInv /\ stack # <<>>
        /\ Popped(stack) = Drop(1)
    BY RunsOp DEF Return
  <1>2. /\ m \in Nat \ {0} /\ m \in DOMAIN frames /\ DOMAIN frames = 1 .. m /\ frames \in Seq(FrameSet)
        /\ base \in Nat \ {0}
    BY <1>1, Running
  <1>3. PICK s : StandsAs(s)
    BY <1>1, Running
  <1>4. /\ CloseUpvalues(Popped(stack), base) /\ frames' = Front(frames)
        /\ UNCHANGED <<loaded, elsewhere, catchPoints, globals>>
    BY DEF Return
  <1>5. \A k : Get(Popped(stack), k) \in Safe
    <2>1. 1 \in 0 .. Len(stack)
      BY <1>1, StackSafe
    <2>2. Drop(1) \in Seq(Safe)
      BY <1>1, <2>1, DropSafe
    <2> QED BY <1>1, <2>2, ConstantsSafe DEF Get
  <1>6. /\ upvalues' \in Seq(UpvalueSet) /\ DOMAIN upvalues' = DOMAIN upvalues
        /\ openUpvalues' = {u \in DOMAIN upvalues' : upvalues'[u].open}
        /\ Shared'
        /\ \A u \in openUpvalues' : /\ u \in openUpvalues /\ u \notin Closing(base)
                                    /\ upvalues'[u] = upvalues[u]
    BY <1>1, <1>4, <1>5, Closes
  <1>7. ASSUME NEW u \in openUpvalues'
        PROVE  /\ u \in openUpvalues /\ upvalues'[u].slot = upvalues[u].slot
               /\ upvalues'[u].slot \in 1 .. base - 1
    <2>1. u \in openUpvalues /\ u \notin Closing(base) /\ upvalues'[u].slot = upvalues[u].slot
      BY <1>6
    <2>2. ~(upvalues[u].slot >= base)
      BY <2>1 DEF Closing
    <2>3. upvalues[u].slot \in Nat \ {0}
      <3>1. upvalues[u].slot \in 1 .. Len(stack) /\ Len(stack) \in Nat
        BY <1>1, <2>1, OpenOnStack, StackSafe
      <3> QED BY <3>1
    <2> QED BY <1>2, <2>1, <2>2, <2>3
  <1>8. frames' \in Seq(FrameSet) /\ Len(frames') = m - 1 /\ \A j \in 1 .. m - 1 : frames'[j] = frames[j]
    <2>1. frames' = SubSeq(frames, 1, m - 1)
      BY <1>4 DEF Front
    <2>2. m - 1 \in 0 .. Len(frames)
      BY <1>2
    <2> QED BY <1>2, <2>1, <2>2, CutSeq
  <1>9. ASSUME NEW n \in DOMAIN catchPoints
        PROVE  catchPoints[n].frame \in 1 .. m - 1
    <2>1. s.tries = <<>>
      BY <1>1, <1>3, StandingFacts DEF Allowed, Instruction
    <2>2. TriesStand(catchPoints, m, base, <<>>)
      BY <1>3, <2>1 DEF StandsAs, Holds
    <2>3. PICK from \in Nat : \A k \in Nat : PointOf(catchPoints, k, m) <=> k > from /\ k <= from + Len(<<>>)
      BY <2>2 DEF TriesStand
    <2>4. n \in Nat /\ catchPoints[n].frame \in 1 .. m
      BY <1>2, PointFacts
    <2>5. ~PointOf(catchPoints, n, m)
      <3>1. Len(<<>>) = 0
        OBVIOUS
      <3> QED BY ONLY <2>3, <2>4, <3>1
    <2>6. catchPoints[n].frame # m
      BY <2>5 DEF PointOf
    <2> QED BY <1>2, <2>4, <2>6
  <1> QED BY <1>1, <1>4, <1>6, <1>7, <1>8, <1>9

\* The shape of a frame that a call returns to.
LEMMA WaitingFlows ==
  ASSUME IInv, NEW k \in DOMAIN frames, NEW f, f = frames[k], NEW r, r \in Waits(f)
  PROVE  f.ip \in DOMAIN code[f.fn].code /\ Push(r, {}) \in ShapesAt(f.fn, f.ip) /\ WellShaped(r)
  <1> DEFINE at == f.ip - 1
             fc == code[f.fn]
             ins == fc.code[at]
  <1>1. f.fn \in DOMAIN code /\ f.ip \in Nat /\ CodeInv
    BY FrameFacts DEF IInv
  <1>2. PICK s : /\ s \in ShapesAt(f.fn, at) /\ at \in DOMAIN fc.code /\ ins.op \in CallOps
                 /\ r = Rest(s, ins)
    BY DEF Waits, ShapesAt
  <1>3. /\ WellShaped(r)
        /\ \A q \in Flow(code, Log, fc, at, s) : q[1] \in DOMAIN fc.code /\ q[2] \in ShapesAt(f.fn, q[1])
    BY <1>1, <1>2, CodeFacts
  <1>4. <<at + 1, ShapeAfter(code, at, s, ins)>> \in Flow(code, Log, fc, at, s)
    BY <1>2 DEF Flow, Falls, CallOps
  <1>5. ShapeAfter(code, at, s, ins) = Push(r, {})
    <2>1. KindsLeft(s, ins) = {}
      BY <1>2 DEF KindsLeft, CallOps
    <2> QED BY <1>2, <2>1 DEF ShapeAfter, Leaving, Throwing, CallOps
  <1>6. at + 1 = f.ip
    BY <1>1
  <1> HIDE DEF at, fc, ins
  <1>7. f.ip \in DOMAIN fc.code /\ Push(r, {}) \in ShapesAt(f.fn, f.ip)
    <2>1. <<f.ip, Push(r, {})>> \in Flow(code, Log, fc, at, s)
      BY <1>4, <1>5, <1>6
    <2> QED BY <1>3, <2>1
  <1> QED BY <1>3, <1>7 DEF fc

LEMMA ReturnKeeps == ASSUME IInv, Return PROVE IInv'
  <1> DEFINE m == Len(frames)
             base == Frame.base
             below == Truncate(stack, base - 1)
  <1>0. m = Len(frames) /\ base = Frame.base
    OBVIOUS
  <1>1. /\ outcome = "running" /\ UNCHANGED <<loaded, elsewhere, catchPoints, globals>>
        /\ upvalues' \in Seq(UpvalueSet) /\ DOMAIN upvalues' = DOMAIN upvalues
        /\ openUpvalues' = {u \in DOMAIN upvalues' : upvalues'[u].open} /\ Shared'
        /\ \A u \in openUpvalues' : /\ u \in openUpvalues /\ upvalues'[u].slot = upvalues[u].slot
                                    /\ upvalues'[u].slot \in 1 .. base - 1
    BY ReturnFacts
  <1>2. /\ frames' \in Seq(FrameSet) /\ Len(frames') = m - 1 /\ \A j \in 1 .. m - 1 : frames'[j] = frames[j]
    BY ReturnFacts
  <1>3. \A n \in DOMAIN catchPoints : catchPoints[n].frame \in 1 .. m - 1
    BY ReturnFacts
  <1>4. /\ m \in Nat \ {0} /\ DOMAIN frames = 1 .. m /\ frames \in Seq(FrameSet) /\ base \in Nat \ {0}
        /\ ValuesInv /\ CodeInv /\ base = frames[m].base
    BY <1>1, Running DEF IInv
  <1>5. /\ below \in Seq(Safe) /\ Len(below) = base - 1 /\ \A p \in 1 .. base - 1 : below[p] = stack[p]
        /\ Top \in Safe
    <2>1. PICK s : StandsAs(s)
      BY <1>1, Running
    <2>2. base + s.height = Len(stack) + 1 /\ s.height \in Nat \ {0} /\ Len(stack) \in Nat
      BY <1>1, <2>1, StandingFacts
    <2>3. base - 1 \in 0 .. Len(stack)
      <3> HIDE DEF base
      <3> QED BY ONLY <1>4, <2>2
    <2> QED BY <1>4, <2>3, DropSafe, StackSafe
  <1> HIDE DEF below, m, base
  <1>6. IF m = 1 THEN outcome' = "finished" /\ stack' = below
        ELSE outcome' = outcome /\ stack' = Append(below, Top)
    BY DEF Return, below, m, base
  <1>7. PointsInv'
    <2>1. \A n \in DOMAIN catchPoints : catchPoints[n].frame \in DOMAIN frames'
      BY <1>2, <1>3
    <2> QED BY <1>1, <2>1 DEF IInv, ShapesInv, PointsInv
  <1>8. stack' \in Seq(Safe)
    BY <1>5, <1>6, AppendSeq
  <1>9. ValuesInv'
    <2>1. catchPoints' \in CatchPoints
      BY <1>1, <1>4 DEF ValuesInv
    <2> QED BY <1>1, <1>2, <1>4, <1>8, <2>1, ValuesMove
  <1>10. CASE m = 1
    <2>1. frames' = <<>> /\ outcome' = "finished" /\ stack' = below
      BY <1>2, <1>6, <1>10
    <2>2. CodeInv'
      BY <1>1, <1>4 DEF CodeInv, FailPolicy, loaded
    <2>3. RunInv'
      BY <2>1, InterpreterAssumption DEF RunInv
    <2>4. FramesInv'
      <3>1. \A u \in openUpvalues' : upvalues'[u].slot \in 1 .. Len(stack')
        BY <1>1, <1>5, <2>1
      <3>2. Len(frames') = 0 /\ DOMAIN frames' = {}
        BY <2>1
      <3> QED BY <2>1, <3>1, <3>2 DEF FramesInv
    <2> QED BY <1>7, <1>9, <2>2, <2>3, <2>4 DEF IInv, ShapesInv
  <1>11. CASE m # 1
    <2> DEFINE j == m - 1
               f == frames[j]
               low == f.base
    <2>1. /\ j \in Nat \ {0} /\ j \in DOMAIN frames /\ j \in 1 .. m - 1 /\ j + 1 = m /\ Len(frames') = j
          /\ frames'[j] = f
      BY <1>2, <1>4, <1>11
    <2>2. PICK r \in Waits(f) :
             Holds(stack, upvalues, openUpvalues, catchPoints, j, low, r, frames[j + 1].base)
      BY <2>1 DEF IInv, ShapesInv, FramesInv, m
    <2>3. f.ip \in DOMAIN code[f.fn].code /\ Push(r, {}) \in ShapesAt(f.fn, f.ip) /\ WellShaped(r)
      BY <2>1, <2>2, WaitingFlows
    <2>4. low \in Nat \ {0} /\ low < base
      <3>1. frames[j].base < frames[m].base
        BY <1>4, <2>1 DEF IInv, ShapesInv, FramesInv
      <3> QED BY <1>4, <2>1, <3>1, FrameFacts
    <2>5. stack' = Append(below, Top) /\ outcome' = "running"
      BY <1>1, <1>6, <1>11
    <2>6. /\ Len(stack') = base /\ \A p \in 1 .. base - 1 : stack'[p] = stack[p]
      BY <1>4, <1>5, <2>5, AppendSeq
    <2>7. Holds(stack, upvalues, openUpvalues, catchPoints, j, low, r, base)
      BY <1>4, <2>1, <2>2
    <2> HIDE DEF j, f, low
    <2>8. Holds(stack', upvalues', openUpvalues', catchPoints, j, low, r, base)
      <3>1. \A p \in Nat : low <= p /\ p < base => stack'[p] = stack[p]
        BY ONLY <1>4, <2>4, <2>6
      <3>2. low \in Nat
        BY <2>4
      <3>3. \A u \in openUpvalues' : u \in openUpvalues /\ upvalues'[u].slot = upvalues[u].slot
        BY <1>1
      <3> QED BY ONLY <2>3, <2>7, <3>1, <3>2, <3>3, KeepsShape
    <2>9. Holds(stack', upvalues', openUpvalues', catchPoints', j, low, Push(r, {}), Len(stack') + 1)
      <3>1. \A u \in openUpvalues' : upvalues'[u].slot \in Nat /\ upvalues'[u].slot # base
        BY ONLY <1>1, <1>4
      <3>2. catchPoints' = catchPoints
        BY <1>1
      <3>3. {} \in SUBSET ValueKinds /\ \A kind \in {} : IsA(stack'[base], kind)
        OBVIOUS
      <3>4. \A p \in 1 .. base - 1 : stack'[p] = stack'[p]
        OBVIOUS
      <3>5. Holds(stack', upvalues', openUpvalues', catchPoints, j, low, Push(r, {}), base + 1)
        BY ONLY <2>3, <2>4, <2>8, <3>1, <3>3, <3>4, PushHolds
      <3> QED BY <2>6, <3>2, <3>5
    <2> DEFINE fn == f.fn
               ip == f.ip
               t == Push(r, {})
    <2>10. /\ \A p \in 1 .. low - 1 : stack'[p] = stack[p]
           /\ \A u \in openUpvalues' : /\ u \in openUpvalues /\ upvalues'[u].slot = upvalues[u].slot
                                       /\ upvalues'[u].slot \in 1 .. Len(stack')
      BY <1>1, <1>4, <2>4, <2>6
    <2>11. /\ \A k \in 1 .. j - 1 : frames'[k] = frames[k]
           /\ fn = frames[j].fn /\ low = frames[j].base /\ frames'[j].base = low
           /\ frames'[j].fn = fn /\ frames'[j].ip = ip
      BY <1>2, <1>4, <2>1 DEF f, low
    <2>12. \A k \in 1 .. j - 1 : \A n \in Nat :
              /\ PointOf(catchPoints', n, k) <=> PointOf(catchPoints, n, k)
              /\ PointOf(catchPoints, n, k) => catchPoints'[n] = catchPoints[n]
      BY <1>1
    <2>13. t \in ShapesAt(fn, ip) /\ ip \in DOMAIN code[fn].code
           /\ Holds(stack', upvalues', openUpvalues', catchPoints', j, low, t, Len(stack') + 1)
      BY <2>3, <2>9
    <2>14. UNCHANGED loaded
      BY <1>1
    <2> HIDE DEF fn, ip, t
    <2> QED BY <1>1, <1>7, <1>9, <2>1, <2>5, <2>10, <2>11, <2>12, <2>13, <2>14, Resumes
  <1> QED BY <1>10, <1>11

-----------------------------------------------------------------------------
(* The invariant.                                                          *)

\* The programs that are verified start in a shape of their top level.
LEMMA InitHolds ==
  ASSUME Init, program \in Trusted
  PROVE  IInv
  <1> DEFINE fn == Len(code)
             fc == code[fn]
             f == [fn |-> fn, ip |-> 1, base |-> 1, up |-> <<>>]
             v == Closure(fn, <<>>)
             e == Entry(fc)
  <1>1. /\ code = CodeOf(program) /\ stack = <<v>> /\ frames = <<f>> /\ upvalues = <<>> /\ openUpvalues = {}
        /\ catchPoints = <<>> /\ others = <<>> /\ objects = <<>> /\ outcome = "running"
        /\ globals = [n \in GlobalNames |-> IF n \in Natives THEN Value("native", n) ELSE Undefined]
    BY DEF Init
  <1>2. CodeInv
    BY <1>1 DEF Trusted, CodeInv, FailPolicy
  <1>3. /\ fn \in DOMAIN code /\ fc.arity = 0 /\ fc.upvalues = <<>>
    BY <1>2 DEF CodeInv, Verified
  <1>4. /\ fn \in Nat /\ 1 \in DOMAIN fc.code /\ e \in ShapesAt(fn, 1) /\ fc.name \in Names
    <2>1. fc.name \in Names
      BY <1>3 DEF Names
    <2> QED BY <1>2, <1>3, <2>1, CodeFacts
  <1> HIDE DEF fn
  <1>5. v \in Safe /\ v.is = "closure"
    <2>1. <<>> \in UpvaluesOf(fn)
      BY <1>3 DEF UpvaluesOf
    <2>2. v = [is |-> "closure", of |-> fc.name, fn |-> fn, up |-> <<>>]
      BY DEF Closure
    <2>3. v \in Vals
      <3> DEFINE name == fc.name
      <3>1. name \in Names /\ fn \in Nat /\ <<>> \in Seq(Nat)
        BY <1>4
      <3> HIDE DEF name
      <3>2. [is |-> "closure", of |-> name, fn |-> fn, up |-> <<>>] \in Vals
        BY <3>1 DEF Vals, Tags
      <3> QED BY <2>2, <3>2 DEF name
    <2> QED BY <1>3, <2>1, <2>2, <2>3 DEF Safe, References
  <1>6. f \in FrameSet
    <2>1. <<>> \in UpvaluesOf(fn) /\ <<>> \in Seq(Nat)
      BY <1>3 DEF UpvaluesOf
    <2> QED BY <1>3, <2>1 DEF FrameSet
  <1>7. ValuesInv
    <2>1. ASSUME NEW n \in GlobalNames
          PROVE  globals[n] \in Safe
      <3>1. CASE n \in Natives
        <4>1. globals[n] = Value("native", n)
          BY <1>1, <3>1
        <4>2. n \in Names
          BY <3>1 DEF Natives, Names
        <4>3. Value("native", n) \in Vals
          BY <4>2 DEF Value, Vals, Tags
        <4> QED BY <3>1, <4>1, <4>3 DEF Safe, Value, References
      <3>2. CASE n \notin Natives
        BY <1>1, <3>2, ConstantsSafe
      <3> QED BY <3>1, <3>2
    <2>2. globals \in [GlobalNames -> Safe]
      BY <1>1, <2>1
    <2>3. stack \in Seq(Safe) /\ frames \in Seq(FrameSet)
      <3> HIDE DEF f, v
      <3> QED BY <1>1, <1>5, <1>6
    <2>4. /\ catchPoints \in CatchPoints /\ upvalues \in Seq(UpvalueSet) /\ Shared /\ objects \in Seq(Objects)
          /\ openUpvalues = {u \in DOMAIN upvalues : upvalues[u].open} /\ others = <<>>
      BY <1>1 DEF CatchPoints, Shared
    <2> QED BY <2>2, <2>3, <2>4 DEF ValuesInv
  <1>8. RunInv
    BY <1>1, InterpreterAssumption DEF RunInv
  <1>9. ShapesInv
    <2>1. e.height = 1 /\ e.tries = <<>> /\ e.known = {<<0, "object">>} /\ e.captured = {}
      BY <1>3 DEF Entry, Shape
    <2>2. TriesStand(catchPoints, 1, 1, <<>>)
      <3>1. \A n \in Nat : ~PointOf(catchPoints, n, 1)
        BY <1>1 DEF PointOf
      <3>2. Len(<<>>) = 0 /\ DOMAIN <<>> = {}
        OBVIOUS
      <3>3. \A n \in Nat : PointOf(catchPoints, n, 1) <=> n > 0 /\ n <= 0 + Len(<<>>)
        BY ONLY <3>1, <3>2
      <3> QED BY ONLY <3>2, <3>3 DEF TriesStand
    <2>3. Len(stack) = 1 /\ stack[1] = v /\ Len(frames) = 1 /\ Frame = f
      BY <1>1 DEF Frame, Last
    <2>4. IsA(stack[1 + 0], "object")
      <3> HIDE DEF v
      <3>1. IsObject(v)
        BY <1>5, ObjectKinds
      <3>2. stack[1 + 0] = v
        BY <2>3
      <3> QED BY <3>1, <3>2 DEF IsA
    <2>5. Holds(stack, upvalues, openUpvalues, catchPoints, 1, 1, e, 2)
      BY <1>1, <2>1, <2>2, <2>4 DEF Holds
    <2>6. e \in Stands(f)
      BY <1>4 DEF Stands, ShapesAt
    <2>7. FramesInv
      <3>1. Holds(stack, upvalues, openUpvalues, catchPoints, Len(frames), Frame.base, e, Len(stack) + 1)
        BY <2>3, <2>5
      <3>2. DOMAIN frames = {1} /\ \A k : k \notin 1 .. Len(frames) - 1
        BY <1>1, <2>3
      <3> QED BY <1>1, <2>3, <2>6, <3>1, <3>2 DEF FramesInv
    <2>8. PointsInv
      BY <1>1 DEF PointsInv
    <2> QED BY <2>7, <2>8 DEF ShapesInv
  <1> QED BY <1>2, <1>7, <1>8, <1>9 DEF IInv

\* Every step keeps the invariant.
LEMMA StepKeeps ==
  ASSUME IInv, [Next]_vars
  PROVE  IInv'
  <1>1. CASE UNCHANGED vars
    <2>1. CodeInv' /\ ValuesInv' /\ ShapesInv'
      BY <1>1, Stays DEF vars
    <2>2. RunInv'
      BY <1>1 DEF vars, IInv, RunInv
    <2> QED BY <2>1, <2>2 DEF IInv
  <1>2. CASE PushConstant \/ PushNone \/ Pop \/ Dup \/ Equal
    BY <1>2, ConstantKeeps, NoneKeeps, PopKeeps, DupKeeps, EqualKeeps
  <1>3. CASE GetLocal \/ SetLocal \/ GetGlobal \/ SetGlobal \/ DefineGlobal
    BY <1>3, GetLocalKeeps, SetLocalKeeps, GetGlobalKeeps, SetGlobalKeeps
  <1>4. CASE GetUpvalue \/ SetUpvalue \/ CloseUpvalue \/ MakeClosure
    BY <1>4, GetUpvalueKeeps, SetUpvalueKeeps, CloseUpvalueKeeps, ClosureKeeps
  <1>5. CASE Jump \/ JumpIfFalse \/ JumpIfTrue \/ Loop \/ GetIterator \/ IteratorNext
    BY <1>5, JumpKeeps, IteratorKeeps, IteratorNextKeeps
  <1>6. CASE Fail \/ SetCatchPoint \/ ClearCatchPoint
    BY <1>6, FailKeeps, SetCatchKeeps, ClearCatchKeeps
  <1>7. CASE Call \/ Return
    BY <1>7, CallKeeps, ReturnKeeps
  <1>8. CASE Arithmetic \/ Negate \/ Not \/ Compare \/ AssertOp \/ AssertCmp \/ NoneCoalesce
    BY <1>8, ArithmeticKeeps, AssertKeeps, CoalesceKeeps
  <1>9. CASE Build \/ BuildRange \/ GetIndex \/ SetIndex
    BY <1>9, CollectionKeeps
  <1>10. CASE MakeClass \/ DefineMethod \/ Inherit \/ GetProperty \/ SafeNav \/ SetProperty
    BY <1>10, ClassKeeps, MethodKeeps, InheritKeeps, PropertyKeeps, SetPropertyKeeps
  <1>11. CASE Invoke \/ SuperInvoke
    BY <1>11, InvokeKeeps, SuperInvokeKeeps
  <1>12. CASE SpawnFiber \/ Yield \/ Wait \/ Resume \/ Switch
    BY <1>12, YieldKeeps, FiberKeeps
  <1> QED BY <1>1, <1>2, <1>3, <1>4, <1>5, <1>6, <1>7, <1>8, <1>9, <1>10, <1>11, <1>12 DEF Next

\* Whatever a program of trusted code does, its frames have the shapes that are
\* expected of them.
THEOREM FramesAsExpected == Spec /\ program \in Trusted => []IInv
  <1>1. Init /\ program \in Trusted => IInv
    BY InitHolds
  <1>2. IInv /\ [Next]_vars => IInv'
    BY StepKeeps
  <1> QED BY <1>1, <1>2, PTL DEF Spec

-----------------------------------------------------------------------------
(* What follows: the properties of Interpreter.                            *)

\* Where a frame is, whatever runs above it.
Holding(k, r, end) ==
  /\ WellShaped(r) /\ end \in Nat /\ end <= Len(stack) + 1
  /\ k + 1 \in DOMAIN frames => end = frames[k + 1].base
  /\ Holds(stack, upvalues, openUpvalues, catchPoints, k, frames[k].base, r, end)

\* Each frame is at an instruction of its function, with its slots on the stack.
LEMMA FramePlaces ==
  ASSUME IInv, NEW k \in DOMAIN frames
  PROVE  /\ frames[k].ip \in DOMAIN code[frames[k].fn].code
         /\ frames[k].base \in 1 .. Len(stack) /\ Len(stack) \in Nat
         /\ \E r, end : Holding(k, r, end)
  <1> DEFINE m == Len(frames)
  <1>1. /\ m \in Nat /\ DOMAIN frames = 1 .. m /\ k \in 1 .. m /\ ValuesInv /\ CodeInv
        /\ \A j \in 1 .. m : frames[j].base \in Nat \ {0} /\ frames[j].fn \in DOMAIN code
        /\ Len(stack) \in Nat
    BY FrameFacts, StackSafe DEF IInv, ValuesInv
  <1>2. /\ frames[m] = Frame /\ m \in DOMAIN frames /\ frames # <<>>
    BY <1>1 DEF Frame, Last
  <1>3. PICK s \in Stands(Frame) :
           Holds(stack, upvalues, openUpvalues, catchPoints, m, Frame.base, s, Len(stack) + 1)
    BY <1>2 DEF IInv, ShapesInv, FramesInv
  <1>4. Frame.ip \in DOMAIN code[Frame.fn].code /\ WellShaped(s)
    BY <1>1, <1>2, <1>3, ShapesWell DEF Stands
  <1>5. frames[m].base \in 1 .. Len(stack)
    <2>1. s.height \in Nat \ {0} /\ Frame.base + s.height = Len(stack) + 1
      BY <1>3, <1>4 DEF Holds, WellShaped, AllShapes
    <2> QED BY <1>1, <1>2, <2>1
  <1>6. \A a, b \in 1 .. m : a < b => frames[a].base < frames[b].base
    BY <1>1 DEF IInv, ShapesInv, FramesInv
  <1>7. \A j \in 1 .. m : frames[j].base \in 1 .. Len(stack)
    <2>1. ASSUME NEW j \in 1 .. m
          PROVE  frames[j].base \in 1 .. Len(stack)
      <3>1. m \in 1 .. m /\ (j = m \/ j < m)
        <4> HIDE DEF m
        <4>1. m \in Nat /\ k \in 1 .. m /\ j \in 1 .. m
          BY <1>1
        <4> QED BY ONLY <4>1
      <3>2. CASE j = m
        BY <1>5, <3>2
      <3>3. CASE j < m
        <4>1. frames[j].base < frames[m].base
          BY ONLY <1>6, <3>1, <3>3
        <4>2. frames[j].base \in Nat \ {0}
          BY <1>1
        <4> QED BY ONLY <1>1, <1>5, <4>1, <4>2
      <3> QED BY <3>1, <3>2, <3>3
    <2> QED BY <2>1
  <1>8. /\ frames[k].ip \in DOMAIN code[frames[k].fn].code
        /\ \E r, end : Holding(k, r, end)
    <2>1. CASE k = m
      <3>1. Holding(k, s, Len(stack) + 1)
        BY <1>1, <1>2, <1>3, <1>4, <2>1 DEF Holding
      <3> QED BY <1>2, <1>4, <2>1, <3>1
    <2>2. CASE k # m
      <3>1. k \in 1 .. m - 1 /\ k + 1 \in 1 .. m
        BY <1>1, <2>2
      <3>2. PICK r \in Waits(frames[k]) :
               Holds(stack, upvalues, openUpvalues, catchPoints, k, frames[k].base, r, frames[k + 1].base)
        BY <3>1 DEF IInv, ShapesInv, FramesInv
      <3>3. frames[k].ip \in DOMAIN code[frames[k].fn].code /\ WellShaped(r)
        BY <3>2, WaitingFlows
      <3>4. frames[k + 1].base \in Nat /\ frames[k + 1].base <= Len(stack) + 1
        BY <1>1, <1>7, <3>1
      <3>5. Holding(k, r, frames[k + 1].base)
        BY <3>2, <3>3, <3>4 DEF Holding
      <3> QED BY <3>3, <3>5
    <2> QED BY <2>1, <2>2
  <1> QED BY <1>1, <1>7, <1>8

\* The type invariant is a part of it.
LEMMA TypesInv ==
  ASSUME IInv
  PROVE  TypeOK
  <1>1. RunInv /\ ValuesInv
    BY DEF IInv
  <1>2. ASSUME NEW k \in DOMAIN frames
        PROVE  /\ frames[k].ip \in DOMAIN code[frames[k].fn].code
               /\ frames[k].base \in DOMAIN stack
               /\ k > 1 => frames[k - 1].base < frames[k].base
    <2>1. frames[k].ip \in DOMAIN code[frames[k].fn].code /\ frames[k].base \in DOMAIN stack
      BY <1>1, FramePlaces, StackSafe
    <2>2. k > 1 => k - 1 \in DOMAIN frames /\ k - 1 < k
      BY <1>1 DEF ValuesInv
    <2> QED BY <2>1, <2>2 DEF IInv, ShapesInv, FramesInv
  <1>3. openUpvalues \cup UNION {others[k].open : k \in DOMAIN others}
           = {u \in DOMAIN upvalues : upvalues[u].open}
    <2>1. DOMAIN others = {}
      BY <1>1 DEF ValuesInv
    <2>2. openUpvalues = {u \in DOMAIN upvalues : upvalues[u].open}
      BY <1>1 DEF ValuesInv
    <2> QED BY <2>1, <2>2
  <1>4. \A k \in DOMAIN others : openUpvalues \cap others[k].open = {}
    BY <1>1 DEF ValuesInv
  <1> QED BY <1>1, <1>2, <1>3, <1>4 DEF TypeOK, RunInv

\* TypeOK: for a program of trusted code, however long it runs and however many
\* its fiber's calls, no frame ever runs off the end of its function or has
\* lost its slots.
THEOREM StackAndFramesWell == Spec /\ program \in Trusted => []TypeOK
  <1>1. IInv => TypeOK
    BY TypesInv
  <1> QED BY <1>1, FramesAsExpected, PTL

\* A catch point cuts the stack inside its frame, no lower than the ones before.
LEMMA PointSizes ==
  ASSUME IInv, NEW n \in DOMAIN catchPoints, NEW k, k = catchPoints[n].frame
  PROVE  /\ k \in DOMAIN frames /\ catchPoints[n].size \in frames[k].base .. Len(stack)
         /\ k + 1 \in DOMAIN frames => catchPoints[n].size < frames[k + 1].base
         /\ \A p \in DOMAIN catchPoints : p < n /\ catchPoints[p].frame = k =>
               catchPoints[p].size <= catchPoints[n].size
  <1>1. k \in DOMAIN frames /\ k \in Nat /\ n \in Nat /\ catchPoints[n].size \in Nat
    BY PointFacts
  <1>0. PICK r, end : Holding(k, r, end)
    BY <1>1, FramePlaces
  <1>2. /\ WellShaped(r) /\ end \in Nat /\ end <= Len(stack) + 1
        /\ k + 1 \in DOMAIN frames => end = frames[k + 1].base
        /\ Holds(stack, upvalues, openUpvalues, catchPoints, k, frames[k].base, r, end)
    BY <1>0 DEF Holding
  <1>3. frames[k].base \in Nat \ {0} /\ Len(stack) \in Nat
    BY <1>1, FramePlaces
  <1>4. PICK from \in Nat :
           /\ \A j \in Nat : PointOf(catchPoints, j, k) <=> j > from /\ j <= from + Len(r.tries)
           /\ \A j \in DOMAIN r.tries : catchPoints[from + j].size = frames[k].base - 1 + r.tries[j].size
    BY <1>2 DEF Holds, TriesStand
  <1>5. /\ r.height \in Nat /\ frames[k].base + r.height = end /\ r.tries \in Seq(TrySet)
        /\ \A j \in DOMAIN r.tries : r.tries[j].size \in 1 .. r.height
        /\ \A i, j \in DOMAIN r.tries : i < j => r.tries[i].size <= r.tries[j].size
    BY <1>2 DEF Holds, WellShaped, AllShapes, TrySet
  <1>6. ASSUME NEW p \in DOMAIN catchPoints, catchPoints[p].frame = k
        PROVE  /\ p \in Nat /\ p - from \in DOMAIN r.tries
               /\ catchPoints[p].size = frames[k].base - 1 + r.tries[p - from].size
    <2>1. p \in Nat
      BY PointFacts
    <2>2. p > from /\ p <= from + Len(r.tries)
      BY <1>4, <1>6, <2>1 DEF PointOf
    <2>3. p - from \in DOMAIN r.tries /\ from + (p - from) = p
      BY <1>5, <2>1, <2>2
    <2> QED BY <1>4, <2>1, <2>3
  <1>7. n - from \in DOMAIN r.tries /\ catchPoints[n].size = frames[k].base - 1 + r.tries[n - from].size
    BY <1>6
  <1>8. catchPoints[n].size \in frames[k].base .. Len(stack) /\ catchPoints[n].size < end
    <2> DEFINE base == frames[k].base
               size == r.tries[n - from].size
               len == Len(stack)
               height == r.height
    <2>1. /\ base \in Nat \ {0} /\ len \in Nat /\ height \in Nat /\ base + height = end /\ end <= len + 1
          /\ size \in 1 .. height /\ catchPoints[n].size = base - 1 + size
      BY <1>2, <1>3, <1>5, <1>7
    <2> HIDE DEF base, size, len, height
    <2>2. catchPoints[n].size \in base .. len /\ catchPoints[n].size < end
      BY ONLY <2>1
    <2> QED BY <2>2 DEF base, len
  <1>9. ASSUME NEW p \in DOMAIN catchPoints, p < n, catchPoints[p].frame = k
        PROVE  catchPoints[p].size <= catchPoints[n].size
    <2>1. /\ p \in Nat /\ p - from \in DOMAIN r.tries
          /\ catchPoints[p].size = frames[k].base - 1 + r.tries[p - from].size
      BY <1>6, <1>9
    <2>2. p - from < n - from
      BY <1>1, <1>9, <2>1
    <2>3. r.tries[p - from].size <= r.tries[n - from].size
      BY <1>5, <1>7, <2>1, <2>2
    <2>4. r.tries[p - from].size \in Nat /\ r.tries[n - from].size \in Nat
      BY <1>5, <1>7, <2>1
    <2> QED BY <1>3, <1>7, <2>1, <2>3, <2>4
  <1> QED BY <1>1, <1>2, <1>8, <1>9

\* Where a statement starts.
LEMMA AtStatements ==
  ASSUME IInv, outcome = "running", NEW s, StandsAs(s), NEW x \in DOMAIN Function.starts,
         Function.starts[x].at = Frame.ip
  PROVE  s.tries = <<>> /\ s.height = Function.starts[x].height
  <1>1. /\ Frame.fn \in DOMAIN code /\ CodeInv /\ Frame.ip \in DOMAIN Function.code
        /\ s \in ShapesAt(Frame.fn, Frame.ip)
    BY Running DEF IInv, StandsAs
  <1>2. AsCompiled(Function, ShapesOf(program)[Frame.fn])
    BY <1>1, CodeFacts DEF Function
  <1> QED BY <1>1, <1>2 DEF AsCompiled, ShapesAt

\* So catch points nest.
LEMMA PointsNest ==
  ASSUME IInv
  PROVE  CatchPointsNested
  <1>1. /\ DOMAIN catchPoints = 1 .. Len(catchPoints) /\ Len(catchPoints) \in Nat
        /\ \A n \in DOMAIN catchPoints : catchPoints[n].frame \in DOMAIN frames /\ catchPoints[n].frame \in Nat
        /\ \A p, n \in DOMAIN catchPoints : p < n => catchPoints[p].frame <= catchPoints[n].frame
    BY PointFacts
  <1>2. outcome = "finished" => catchPoints = <<>>
    <2>1. outcome = "finished" => DOMAIN frames = {}
      BY DEF IInv, RunInv
    <2>2. outcome = "finished" => Len(catchPoints) = 0
      BY <1>1, <2>1
    <2>3. catchPoints \in CatchPoints
      BY PointFacts
    <2> QED BY <2>2, <2>3 DEF CatchPoints
  <1>3. ASSUME NEW n \in DOMAIN catchPoints
        PROVE  /\ catchPoints[n].frame \in DOMAIN frames
               /\ catchPoints[n].size \in frames[catchPoints[n].frame].base .. Len(stack)
               /\ n > 1 => /\ catchPoints[n - 1].frame <= catchPoints[n].frame
                           /\ catchPoints[n - 1].size <= catchPoints[n].size
    <2> DEFINE k == catchPoints[n].frame
               j == catchPoints[n - 1].frame
    <2>1. k \in DOMAIN frames /\ catchPoints[n].size \in frames[k].base .. Len(stack)
      BY PointSizes
    <2>2. ASSUME n > 1
          PROVE  j <= k /\ catchPoints[n - 1].size <= catchPoints[n].size
      <3>1. n - 1 \in DOMAIN catchPoints /\ n - 1 < n
        BY <1>1, <2>2
      <3>2. j <= k /\ j \in DOMAIN frames /\ j \in Nat /\ k \in Nat
        BY <1>1, <3>1
      <3>3. CASE j = k
        <4>1. \A p \in DOMAIN catchPoints : p < n /\ catchPoints[p].frame = k =>
                 catchPoints[p].size <= catchPoints[n].size
          BY PointSizes
        <4> QED BY ONLY <3>1, <3>2, <3>3, <4>1
      <3>4. CASE j < k
        <4>1. j + 1 \in DOMAIN frames /\ (j + 1 < k \/ j + 1 = k)
          <5>1. frames \in Seq(FrameSet)
            BY DEF IInv, ValuesInv
          <5> QED BY <2>1, <3>2, <3>4, <5>1
        <4>2. catchPoints[n - 1].size < frames[j + 1].base
          BY <3>1, <4>1, PointSizes
        <4>3. frames[j + 1].base <= frames[k].base
          <5>1. frames[j + 1].base \in Nat /\ frames[k].base \in Nat
            BY <2>1, <4>1, FrameFacts DEF IInv
          <5>2. j + 1 < k => frames[j + 1].base < frames[k].base
            BY <2>1, <4>1 DEF IInv, ShapesInv, FramesInv
          <5> QED BY <4>1, <5>1, <5>2
        <4>4. frames[j + 1].base \in Nat /\ frames[k].base \in Nat /\ catchPoints[n - 1].size \in Nat
              /\ catchPoints[n].size \in Nat
          BY <2>1, <3>1, <4>1, FrameFacts, PointFacts DEF IInv
        <4>5. frames[k].base <= catchPoints[n].size
          BY <2>1, <4>4
        <4> QED BY <3>2, <4>2, <4>3, <4>4, <4>5
      <3> QED BY <3>2, <3>3, <3>4
    <2> QED BY <2>1, <2>2
  <1>4. ASSUME outcome = "running", NEW x \in DOMAIN Function.starts, Function.starts[x].at = Frame.ip,
               NEW n \in DOMAIN catchPoints
        PROVE  catchPoints[n].frame < Len(frames)
    <2>1. PICK s : StandsAs(s)
      BY <1>4, Running
    <2>2. s.tries = <<>>
      BY <1>4, <2>1, AtStatements
    <2>3. TriesStand(catchPoints, Len(frames), Frame.base, <<>>)
      BY <2>1, <2>2 DEF StandsAs, Holds
    <2>4. PICK from \in Nat : \A j \in Nat :
             PointOf(catchPoints, j, Len(frames)) <=> j > from /\ j <= from + Len(<<>>)
      BY <2>3 DEF TriesStand
    <2>5. n \in Nat /\ Len(<<>>) = 0
      BY <1>1
    <2>6. ~PointOf(catchPoints, n, Len(frames))
      BY ONLY <2>4, <2>5
    <2>7. catchPoints[n].frame # Len(frames) /\ catchPoints[n].frame \in 1 .. Len(frames)
      BY <1>1, <1>4, <2>6, Running DEF PointOf
    <2> QED BY <1>4, <2>7, Running
  <1> QED BY <1>2, <1>3, <1>4 DEF CatchPointsNested

\* CatchPointsNested: the catch points that Fail and handle_runtime_error go by
\* are, in order, those of the try expressions still being evaluated, and each
\* truncates the stack to slots that its own frame has.
THEOREM TriesNest == Spec /\ program \in Trusted => []CatchPointsNested
  <1>1. IInv => CatchPointsNested
    BY PointsNest
  <1> QED BY <1>1, FramesAsExpected, PTL

-----------------------------------------------------------------------------
(* Which try statement catches.                                            *)

\* No instruction but Fail throws a value of the program.
LEMMA OnlyFail == Next /\ Executes("Fail") => Fail
  <1> SUFFICES ASSUME Next, Executes("Fail")
               PROVE  Fail
    OBVIOUS
  <1>0. outcome = "running" /\ Instruction.op = "Fail"
    BY DEF Executes
  <1>1. ~(PushConstant \/ PushNone \/ Pop \/ Dup \/ Equal)
    BY <1>0, Zenon DEF PushConstant, PushNone, Pop, Dup, Equal, Executes
  <1>2. ~(GetLocal \/ SetLocal \/ GetGlobal \/ SetGlobal \/ DefineGlobal)
    BY <1>0, Zenon DEF GetLocal, SetLocal, GetGlobal, SetGlobal, DefineGlobal, Executes
  <1>3. ~(GetUpvalue \/ SetUpvalue \/ CloseUpvalue \/ MakeClosure)
    BY <1>0, Zenon DEF GetUpvalue, SetUpvalue, CloseUpvalue, MakeClosure, Executes
  <1>4. ~(Jump \/ JumpIfFalse \/ JumpIfTrue \/ Loop \/ GetIterator \/ IteratorNext)
    BY <1>0, Zenon DEF Jump, JumpIfFalse, JumpIfTrue, Loop, GetIterator, IteratorNext, Executes
  <1>5. ~(SetCatchPoint \/ ClearCatchPoint \/ Call \/ Return)
    BY <1>0, Zenon DEF SetCatchPoint, ClearCatchPoint, Call, Return, Executes
  <1>6. ~(Arithmetic \/ Negate \/ Not \/ Compare \/ AssertOp \/ AssertCmp \/ NoneCoalesce)
    BY <1>0, Zenon DEF Arithmetic, Negate, Not, Compare, AssertOp, AssertCmp, NoneCoalesce, Executes
  <1>7. ~(Build \/ BuildRange \/ GetIndex \/ SetIndex)
    BY <1>0, Zenon DEF Build, BuildRange, GetIndex, SetIndex, Executes
  <1>8. ~(MakeClass \/ DefineMethod \/ Inherit \/ GetProperty \/ SafeNav \/ SetProperty)
    BY <1>0, Zenon DEF MakeClass, DefineMethod, Inherit, GetProperty, SafeNav, SetProperty, Executes
  <1>9. ~(Invoke \/ SuperInvoke)
    BY <1>0, Zenon DEF Invoke, SuperInvoke, Executes
  <1>10. ~(SpawnFiber \/ Yield \/ Wait)
    BY <1>0, Zenon DEF SpawnFiber, Yield, Wait, Executes
  <1>11. ~(Resume \/ Switch)
    BY <1>0, Zenon DEF Resume, Switch
  <1> QED BY <1>1, <1>2, <1>3, <1>4, <1>5, <1>6, <1>7, <1>8, <1>9, <1>10, <1>11 DEF Next

\* Of the entries that hold an ip, the first is the one that starts last.
LEMMA FirstIsInner ==
  ASSUME NEW table \in Seq(ExceptionEntries), Nested(table), NEW ip \in Nat,
         NEW E, E = {n \in DOMAIN table : ip > table[n].start /\ ip <= table[n].end}, E # {}
  PROVE  /\ Min(E) \in E
         /\ Min(E) = CHOOSE n \in E : \A m \in E : table[m].start <= table[n].start
  <1>1. E \in SUBSET Nat /\ E \subseteq DOMAIN table
        /\ \A n \in E : table[n].start \in Nat /\ table[n].end \in Nat /\ n \in Nat
    <2>1. E \subseteq DOMAIN table /\ \A n \in DOMAIN table : n \in Nat /\ table[n] \in ExceptionEntries
      OBVIOUS
    <2>2. \A e \in ExceptionEntries : e.start \in Nat /\ e.end \in Nat
      BY DEF ExceptionEntries
    <2> QED BY ONLY <2>1, <2>2
  <1>2. PICK i \in E : \A j \in E : i <= j
    BY <1>1, LeastNatural
  <1>3. Min(E) \in E /\ \A j \in E : Min(E) <= j
    BY <1>2 DEF Min
  <1>4. \A m \in E : m # Min(E) => table[m].start < table[Min(E)].start
    <2> TAKE m \in E
    <2> DEFINE least == Min(E)
    <2> HIDE DEF least
    <2>1. least \in E /\ least <= m
      BY <1>3 DEF least
    <2>2. m # least => least < m
      BY <1>1, <2>1
    <2>3. m # least => \/ table[least].end <= table[m].start \/ table[m].end <= table[least].start
                       \/ table[m].start < table[least].start
      BY <1>1, <2>1, <2>2 DEF Nested
    <2>4. ip > table[m].start /\ ip <= table[m].end /\ ip > table[least].start /\ ip <= table[least].end
      BY <2>1
    <2>5. m # least => table[m].start < table[least].start
      BY <1>1, <2>1, <2>3, <2>4
    <2> QED BY <2>5 DEF least
  <1>5. \A m \in E : table[m].start <= table[Min(E)].start
    <2> DEFINE least == Min(E)
    <2>1. least \in E /\ \A m \in E : m # least => table[m].start < table[least].start
      BY <1>3, <1>4
    <2> HIDE DEF least
    <2>2. \A m \in E : table[m].start <= table[least].start
      BY ONLY <1>1, <2>1
    <2> QED BY <2>2 DEF least
  <1>6. \A n \in E : (\A m \in E : table[m].start <= table[n].start) => n = Min(E)
    <2> SUFFICES ASSUME NEW n \in E, \A m \in E : table[m].start <= table[n].start, n # Min(E)
                 PROVE  FALSE
      OBVIOUS
    <2> DEFINE least == Min(E)
    <2>1. table[n].start < table[least].start /\ table[least].start <= table[n].start /\ least \in E
      BY <1>3, <1>4
    <2> HIDE DEF least
    <2> DEFINE a == table[n].start
               b == table[least].start
    <2>2. a \in Nat /\ b \in Nat
      BY <1>1, <2>1
    <2>3. a < b /\ b <= a
      BY <2>1
    <2> HIDE DEF a, b
    <2> QED BY ONLY <2>2, <2>3
  <1>7. Min(E) = CHOOSE n \in E : \A m \in E : table[m].start <= table[n].start
    <2> DEFINE least == Min(E)
    <2> HIDE DEF least
    <2>1. least \in E /\ \A m \in E : table[m].start <= table[least].start
      BY <1>3, <1>5 DEF least
    <2>2. \A n \in E : (\A m \in E : table[m].start <= table[n].start) => n = least
      BY <1>6 DEF least
    <2>3. least = CHOOSE n \in E : \A m \in E : table[m].start <= table[n].start
      BY ONLY <2>1, <2>2
    <2> QED BY <2>3 DEF least
  <1> QED BY <1>3, <1>7

\* Where a Fail without a catch point goes.
LEMMA FailCaught ==
  ASSUME IInv, Fail, catchPoints = <<>>, Handling # {}
  PROVE  LET k == Max(Handling)
             table == code[frames[k].fn].table
             inner == CHOOSE n \in Entries(k, IpOf(k)) :
                        \A m \in Entries(k, IpOf(k)) : table[m].start <= table[n].start
         IN  /\ Len(frames') = k /\ Last(frames').ip = table[inner].handler
             /\ Last(stack') = Top
  <1> SUFFICES ASSUME NEW k, k = Max(Handling), NEW table, table = code[frames[k].fn].table,
                      NEW inner, inner = CHOOSE n \in Entries(k, IpOf(k)) :
                         \A m \in Entries(k, IpOf(k)) : table[m].start <= table[n].start
               PROVE  /\ Len(frames') = k /\ Last(frames').ip = table[inner].handler
                      /\ Last(stack') = Top
    OBVIOUS
  <1>0. /\ DOMAIN frames = 1 .. Len(frames) /\ Len(frames) \in Nat /\ ValuesInv /\ CodeInv
        /\ outcome = "running" /\ frames # <<>> /\ frames \in Seq(FrameSet)
    BY Running DEF IInv, ValuesInv, Fail, Executes
  <1>1. k \in Handling /\ k \in DOMAIN frames
    <2>1. Handling \in SUBSET (1 .. Len(frames))
      BY <1>0 DEF Handling
    <2>2. k \in Handling
      BY <1>0, <2>1, MaxMember
    <2> QED BY <2>2 DEF Handling
  <1>2. /\ k \in 1 .. Len(frames) /\ frames[k].fn \in DOMAIN code /\ frames[k].ip \in Nat
        /\ frames[k].base \in Nat \ {0}
    BY <1>0, <1>1, FrameFacts
  <1>3. table \in Seq(ExceptionEntries) /\ Nested(table) /\ IpOf(k) \in Nat
    BY <1>0, <1>2, CodeFacts DEF WellFormed, IpOf
  <1>4. /\ Entries(k, IpOf(k)) = {n \in DOMAIN table : IpOf(k) > table[n].start /\ IpOf(k) <= table[n].end}
        /\ Entries(k, IpOf(k)) # {}
    BY <1>1 DEF Entries, Handling
  <1>5. inner = Min(Entries(k, IpOf(k))) /\ inner \in Entries(k, IpOf(k))
    BY ONLY <1>3, <1>4, FirstIsInner, inner = CHOOSE n \in Entries(k, IpOf(k)) :
                       \A m \in Entries(k, IpOf(k)) : table[m].start <= table[n].start
  <1>6. table[inner].depth \in Nat
    <2>1. inner \in DOMAIN table
      BY ONLY <1>4, <1>5
    <2>2. table[inner] \in ExceptionEntries
      BY ONLY <1>3, <2>1
    <2> QED BY <2>2 DEF ExceptionEntries
  <1>7. Handler = [frame |-> k, entry |-> table[inner]]
    BY <1>5 DEF Handler
  <1>8. /\ UnwindTo(k, table[inner].handler, Popped(stack))
        /\ stack' = Append(Truncate(Popped(stack), frames[k].base - 1 + table[inner].depth), Top)
    BY <1>7 DEF Fail, Throw
  <1>9. Len(frames') = k /\ Last(frames').ip = table[inner].handler
    <2> DEFINE fs == SubSeq(frames, 1, k)
               h == table[inner].handler
    <2>1. fs \in Seq(FrameSet) /\ Len(fs) = k
      BY <1>0, <1>2, CutSeq
    <2>2. frames' = [fs EXCEPT ![k].ip = h]
      BY <1>8, <2>1 DEF UnwindTo, At
    <2>3. fs[k] \in FrameSet /\ k \in DOMAIN fs
      BY <1>2, <2>1
    <2> HIDE DEF fs, h
    <2>4. Len(frames') = k /\ frames'[k].ip = h
      BY <2>1, <2>2, <2>3 DEF FrameSet
    <2> QED BY <2>4 DEF Last, h
  <1>10. Last(stack') = Top
    <2> DEFINE below == Truncate(Popped(stack), frames[k].base - 1 + table[inner].depth)
               n == frames[k].base - 1 + table[inner].depth
               s == Popped(stack)
    <2>1. s \in Seq(Safe)
      <3>1. Executes("Fail")
        BY DEF Fail
      <3>2. s = Drop(1) /\ 1 \in 0 .. Len(stack)
        <4>1. Popped(stack) = Drop(1) /\ stack # <<>>
          BY <3>1, RunsOp
        <4> QED BY <1>0, <4>1, StackSafe
      <3> QED BY <1>0, <3>2, DropSafe
    <2>2. n \in Nat
      <3> DEFINE base == frames[k].base
                 depth == table[inner].depth
      <3>1. base \in Nat \ {0} /\ depth \in Nat
        BY <1>2, <1>6
      <3> HIDE DEF base, depth
      <3>2. base - 1 + depth \in Nat
        BY ONLY <3>1
      <3> QED BY <3>2 DEF base, depth
    <2> HIDE DEF n, s
    <2>3. Truncate(s, n) \in Seq(Safe)
      BY ONLY <2>1, <2>2 DEF Truncate
    <2>4. below = Truncate(s, n)
      BY DEF n, s
    <2> HIDE DEF below
    <2>5. Len(Append(below, Top)) = Len(below) + 1 /\ Append(below, Top)[Len(below) + 1] = Top
      BY <2>3, <2>4
    <2>6. Last(Append(below, Top)) = Top
      BY <2>5 DEF Last
    <2> QED BY <1>8, <2>6 DEF below
  <1> QED BY <1>9, <1>10

\* InnermostTryCatches: what the order of the exception table, which the
\* compiler leaves to the order in which it meets the ends of the try bodies,
\* is relied on for by the search of find_exception_handler.
THEOREM FailFindsInnermost == Spec /\ program \in Trusted => InnermostTryCatches
  <1>1. IInv /\ [Next]_vars =>
          [Executes("Fail") /\ catchPoints = <<>> /\ Handling # {} =>
             LET k == Max(Handling)
                 table == code[frames[k].fn].table
                 inner == CHOOSE n \in Entries(k, IpOf(k)) :
                            \A m \in Entries(k, IpOf(k)) : table[m].start <= table[n].start
             IN  /\ Len(frames') = k /\ Last(frames').ip = table[inner].handler
                 /\ Last(stack') = Top]_vars
    <2>1. IInv /\ Next /\ Executes("Fail") => Fail
      BY OnlyFail
    <2> QED BY <2>1, FailCaught
  <1> QED BY <1>1, FramesAsExpected, PTL DEF Spec, InnermostTryCatches

-----------------------------------------------------------------------------
(* Parts of what the runs check: where values are, if not which.           *)

\* The first part of LocalsInTheirSlots.
SlotsAtStatements ==
    outcome = "running" =>
      \A m \in DOMAIN Function.starts :
        Function.starts[m].at = Frame.ip => Len(stack) = Frame.base - 1 + Function.starts[m].height

\* By whatever path a statement is reached, at the end of a loop, after a caught
\* error or in a function called anew, the frame that runs has as many slots as
\* the compiler has counted locals: what GetLocal and SetLocal index by.
THEOREM StatementsFindTheirSlots == Spec /\ program \in Trusted => []SlotsAtStatements
  <1>1. ASSUME IInv
        PROVE  SlotsAtStatements
    <2> SUFFICES ASSUME outcome = "running", NEW m \in DOMAIN Function.starts,
                        Function.starts[m].at = Frame.ip
                 PROVE  Len(stack) = Frame.base - 1 + Function.starts[m].height
      BY DEF SlotsAtStatements
    <2>1. PICK s : StandsAs(s)
      BY <1>1, Running
    <2>2. s.height = Function.starts[m].height
      BY <1>1, <2>1, AtStatements
    <2>3. Frame.base + s.height = Len(stack) + 1
      BY <2>1 DEF StandsAs, Holds
    <2>4. Frame.base \in Nat /\ Len(stack) \in Nat
      BY <1>1, Running, StackSafe DEF IInv
    <2>5. s.height \in Nat
      BY <1>1, <2>1, StandingFacts DEF WellShaped, AllShapes
    <2> QED BY <2>2, <2>3, <2>4, <2>5
  <1> QED BY <1>1, FramesAsExpected, PTL

\* The last part of UpvaluesSeeTheirVariable, and what it takes to read through
\* an upvalue at all.
UpvaluesInPlace ==
    /\ Shared
    /\ \A u \in openUpvalues : upvalues[u].slot \in DOMAIN stack
    /\ \A k \in DOMAIN frames :
          /\ DOMAIN frames[k].up = DOMAIN code[frames[k].fn].upvalues
          /\ \A i \in DOMAIN frames[k].up : frames[k].up[i] \in DOMAIN upvalues

\* A variable that functions captured has one upvalue while it is on the stack,
\* which is closed before the variable's slot is given up: no open upvalue is
\* left of a frame that has returned or was unwound.
THEOREM UpvaluesKeptInPlace == Spec /\ program \in Trusted => []UpvaluesInPlace
  <1>1. ASSUME IInv
        PROVE  UpvaluesInPlace
    <2>1. Shared /\ ValuesInv
      BY <1>1 DEF IInv, ValuesInv
    <2>2. \A u \in openUpvalues : upvalues[u].slot \in DOMAIN stack
      BY <1>1, <2>1, StackSafe DEF IInv, ShapesInv, FramesInv
    <2>3. ASSUME NEW k \in DOMAIN frames
          PROVE  /\ DOMAIN frames[k].up = DOMAIN code[frames[k].fn].upvalues
                 /\ \A i \in DOMAIN frames[k].up : frames[k].up[i] \in DOMAIN upvalues
      <3>1. frames[k].up \in UpvaluesOf(frames[k].fn)
        BY <2>1, FrameFacts
      <3> QED BY <3>1 DEF UpvaluesOf
    <2> QED BY <2>1, <2>2, <2>3 DEF UpvaluesInPlace
  <1> QED BY <1>1, FramesAsExpected, PTL

=============================================================================
