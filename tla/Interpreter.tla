---------------------------- MODULE Interpreter ----------------------------
(***************************************************************************)
(* The bytecode interpreter (run_fiber of src/crates/ni_vm/src/vm.rs and   *)
(* the Fiber of src/fiber.rs): operand stack, call frames, upvalues, catch *)
(* points, exception tables, classes and their instances, and the fibers   *)
(* that a program spawns.  One action is one instruction, with all it      *)
(* calls.  The programs are compiled by Bytecode; a behaviour runs one of  *)
(* them from its start.                                                    *)
(*                                                                         *)
(* A value is what it is (is), the variable it was made for (of), and for  *)
(* a closure the function and its upvalues, for a class, an instance or a  *)
(* bound method its object.  Natives are external: cond gives a boolean,   *)
(* pick one of Subjects, risky None or an error; so are the methods of     *)
(* collections, and what is in a collection.  In what order fibers run is  *)
(* FiberScheduler's.  Native classes, the values of numbers and the limits *)
(* on instructions and memory are left out.                                *)
(***************************************************************************)
EXTENDS Integers, SequencesExt

CONSTANTS Programs,         \* names of the programs
          CodeOf(_),        \* a program's functions, as Bytecode compiles it
          PolicyOf(_),      \* the fail policy it runs under, error or log
          MaxFrames,        \* MAX_FRAMES
          MaxUpvalues       \* bound: upvalues ever made

ASSUME InterpreterAssumption == MaxFrames \in Nat \ {0} /\ MaxUpvalues \in Nat

VARIABLES program,          \* which of Programs runs
          code,             \* its functions, the script last
          stack,            \* fiber.stack
          frames,           \* fiber.frames: fn, ip, base, up
          upvalues,         \* the upvalue objects of the heap: open, slot, value
          openUpvalues,     \* fiber.open_upvalues
          catchPoints,      \* fiber.catch_points: size, frame, handler
          others,           \* the fibers that do not run
          objects,          \* the classes, instances and bound methods of the heap
          globals,          \* vm.globals, Undefined where there is none
          outcome           \* how run_fiber stands

loaded == <<program, code>>
elsewhere == <<others, objects>>
vars == <<loaded, elsewhere, stack, frames, upvalues, openUpvalues, catchPoints, globals, outcome>>

FailPolicy == PolicyOf(program)

Value(is, of) == [is |-> is, of |-> of, fn |-> 0, up |-> <<>>]
None == Value("none", "")
Undefined == Value("undefined", "")
Bool(b) == Value("bool", IF b THEN "true" ELSE "false")
Closure(fn, up) == [is |-> "closure", of |-> code[fn].name, fn |-> fn, up |-> up]

Subjects == {"a", "b", "c"}     \* the values match subjects range over
Natives == {"cond", "pick", "risky"}
GlobalNames == Natives \cup {"f", "keep", "K", "L", "M", "E"}
Error == Value("const", "e")            \* what a failed native throws
Iterable == {Value("const", "list")}
Duration == {Value("const", "d")}       \* a number, not negative
Number(v) == v \in {Value("const", "d"), Value("const", "n")}
NoObject == {None, Bool(TRUE), Bool(FALSE)}

(* What a native may return, Undefined standing for NativeResult::Error. *)
Results(native) ==
    CASE native = "cond"  -> {Bool(TRUE), Bool(FALSE)}
      [] native = "pick"  -> {Value("const", v) : v \in Subjects}
      [] native = "risky" -> {None, Undefined}

-----------------------------------------------------------------------------
Frame == Last(frames)
Function == code[Frame.fn]
Instruction == Function.code[Frame.ip]

(* The frames with the innermost at ip. *)
At(fs, ip) == [fs EXCEPT ![Len(fs)].ip = ip]
Next1 == At(frames, Frame.ip + 1)
Jumped(offset) == At(frames, Frame.ip + 1 + offset)

Top == IF stack = <<>> THEN None ELSE Last(stack)
Popped(s) == IF s = <<>> THEN s ELSE Front(s)
Falsy(v) == v \in {None, Bool(FALSE)}
Get(s, i) == IF i \in DOMAIN s THEN s[i] ELSE None
Slot(k) == Frame.base + k       \* base is the index of slot 0
Truncate(s, n) == SubSeq(s, 1, IF n < Len(s) THEN n ELSE Len(s))

Executes(op) == outcome = "running" /\ Instruction.op = op

(* A step that only moves values: the stack, and on to the next instruction. *)
Steps(newStack) ==
    /\ stack' = newStack
    /\ frames' = Next1
    /\ UNCHANGED <<loaded, elsewhere, upvalues, openUpvalues, catchPoints, globals, outcome>>

(* A step that makes or changes an object of the heap, too. *)
Allocates(newStack, newObjects) ==
    /\ stack' = newStack
    /\ objects' = newObjects
    /\ frames' = Next1
    /\ UNCHANGED <<loaded, others, upvalues, openUpvalues, catchPoints, globals, outcome>>

(* run_fiber returns an error: the fiber is not run again. *)
Dies(how) ==
    /\ outcome' = how
    /\ UNCHANGED <<loaded, elsewhere, stack, frames, upvalues, openUpvalues, catchPoints, globals>>

Init ==
    /\ program \in Programs
    /\ code = CodeOf(program) /\ code # <<>>
    /\ LET script == Len(code)
       IN  /\ stack = <<Closure(script, <<>>)>>
           /\ frames = <<[fn |-> script, ip |-> 1, base |-> 1, up |-> <<>>]>>
    /\ upvalues = <<>> /\ openUpvalues = {} /\ catchPoints = <<>>
    /\ others = <<>> /\ objects = <<>>
    /\ globals = [n \in GlobalNames |-> IF n \in Natives THEN Value("native", n) ELSE Undefined]
    /\ outcome = "running"

-----------------------------------------------------------------------------
(* Constants, stack and variables. *)

PushConstant == Executes("Constant") /\ Steps(Append(stack, Value("const", Instruction.name)))
PushNone == Executes("None") /\ Steps(Append(stack, None))
Pop == Executes("Pop") /\ Steps(Popped(stack))
Dup == Executes("Dup") /\ Steps(Append(stack, Top))

GetLocal ==
    Executes("GetLocal") /\ Steps(Append(stack, Get(stack, Slot(Instruction.arg))))

SetLocal ==
    /\ Executes("SetLocal")
    /\ Steps(IF Slot(Instruction.arg) <= Len(stack)
             THEN [stack EXCEPT ![Slot(Instruction.arg)] = Top] ELSE stack)

GetGlobal ==
    /\ Executes("GetGlobal")
    /\ IF globals[Instruction.name] = Undefined THEN Dies("error")
       ELSE Steps(Append(stack, globals[Instruction.name]))

SetGlobal ==
    /\ Executes("SetGlobal")
    /\ IF globals[Instruction.name] = Undefined THEN Dies("error")
       ELSE /\ globals' = [globals EXCEPT ![Instruction.name] = Top]
            /\ frames' = Next1
            /\ UNCHANGED <<loaded, elsewhere, stack, upvalues, openUpvalues, catchPoints, outcome>>

DefineGlobal ==
    /\ Executes("DefineGlobal")
    /\ globals' = [globals EXCEPT ![Instruction.name] = Top]
    /\ stack' = Popped(stack)
    /\ frames' = Next1
    /\ UNCHANGED <<loaded, elsewhere, upvalues, openUpvalues, catchPoints, outcome>>

Equal ==
    /\ Executes("Equal")
    /\ LET right == Top
           left == Get(Popped(stack), Len(stack) - 1)
       IN  Steps(Append(Popped(Popped(stack)), Bool(left = right)))

-----------------------------------------------------------------------------
(* Operators, assertions and collections.  An error of theirs is not thrown,
   it ends the fiber.                                                      *)

Below(k) == Get(stack, Len(stack) - k)      \* fiber.peek(k)
Drop(n) == Truncate(stack, Len(stack) - n)

(* Numbers overflow, and division has no result by zero.  (Joining strings
   and lists with Add is left out, as is comparing strings.)               *)
Arithmetic ==
    /\ Executes("Arithmetic")
    /\ \/ /\ Number(Top) /\ Number(Below(1))
          /\ Steps(Append(Drop(2), Value("const", "n")))
       \/ Dies("error")

Negate ==
    /\ Executes("Negate")
    /\ (Number(Top) /\ Steps(Append(Drop(1), Value("const", "n")))) \/ Dies("error")

Not == Executes("Not") /\ Steps(Append(Drop(1), Bool(Falsy(Top))))

Compare ==
    /\ Executes("Compare")
    /\ IF Number(Top) /\ Number(Below(1)) THEN \E b \in BOOLEAN : Steps(Append(Drop(2), Bool(b)))
       ELSE Dies("error")

AssertOp ==
    /\ Executes("AssertOp")
    /\ IF Falsy(Below(Instruction.arg)) THEN Dies("error") ELSE Steps(Drop(1 + Instruction.arg))

AssertCmp ==
    /\ Executes("AssertCmp")
    /\ \/ /\ IF Instruction.name = "Equal" THEN Top = Below(1) ELSE Number(Top) /\ Number(Below(1))
          /\ Steps(Drop(2))
       \/ /\ ~(Instruction.name = "Equal" /\ Top = Below(1))
          /\ Dies("error")

Build == Executes("Build") /\ Steps(Append(Drop(Instruction.arg), Value("const", Instruction.name)))

BuildRange ==
    /\ Executes("BuildRange")
    /\ IF Number(Top) /\ Number(Below(1)) THEN Steps(Append(Drop(2), Value("const", "list")))
       ELSE Dies("error")

(* There may be no such element. *)
GetIndex ==
    /\ Executes("GetIndex")
    /\ \/ Below(1) \in Iterable /\ Number(Top) /\ Steps(Append(Drop(2), Value("const", "n")))
       \/ Dies("error")

SetIndex ==
    /\ Executes("SetIndex")
    /\ \/ Below(2) \in Iterable /\ Number(Below(1)) /\ Steps(Append(Drop(3), Top))
       \/ Dies("error")

-----------------------------------------------------------------------------
(* Upvalues. *)

ReadUpvalue(u) ==
    IF upvalues[u].open THEN Get(stack, upvalues[u].slot) ELSE upvalues[u].value

\* mutant: an upvalue of slot last stays open
ClosingAbove(last) == {u \in openUpvalues : upvalues[u].slot > last}

(* close_upvalues(last): every open upvalue of slot last or above takes its
   value along; values are read from s.                                    *)
Closing(last) == {u \in openUpvalues : upvalues[u].slot >= last}

\* mutant: closed upvalues stay in fiber.open_upvalues
CloseAndKeep(s, last) ==
    /\ UNCHANGED openUpvalues
    /\ upvalues' = [u \in DOMAIN upvalues |->
          IF u \in Closing(last)
          THEN [open |-> FALSE, slot |-> 0, value |-> Get(s, upvalues[u].slot)]
          ELSE upvalues[u]]

CloseUpvalues(s, last) ==
    /\ openUpvalues' = openUpvalues \ Closing(last)
    /\ upvalues' = [u \in DOMAIN upvalues |->
          IF u \in Closing(last)
          THEN [open |-> FALSE, slot |-> 0, value |-> Get(s, upvalues[u].slot)]
          ELSE upvalues[u]]

GetUpvalue ==
    /\ Executes("GetUpvalue")
    /\ Steps(Append(stack, IF Instruction.arg \in DOMAIN Frame.up
                           THEN ReadUpvalue(Frame.up[Instruction.arg]) ELSE None))

(* An open upvalue whose slot is gone is an index out of bounds: a panic. *)
SetUpvalue ==
    /\ Executes("SetUpvalue")
    /\ IF Instruction.arg \notin DOMAIN Frame.up THEN Steps(stack)
       ELSE LET u == Frame.up[Instruction.arg]
            IN  IF ~upvalues[u].open
                THEN /\ upvalues' = [upvalues EXCEPT ![u].value = Top]
                     /\ frames' = Next1
                     /\ UNCHANGED <<loaded, elsewhere, stack, openUpvalues, catchPoints, globals, outcome>>
                ELSE IF upvalues[u].slot \in DOMAIN stack
                THEN Steps([stack EXCEPT ![upvalues[u].slot] = Top])
                ELSE Dies("panic")

CloseUpvalue ==
    /\ Executes("CloseUpvalue")
    /\ CloseUpvalues(stack, Len(stack))
    /\ stack' = Popped(stack)
    /\ frames' = Next1
    /\ UNCHANGED <<loaded, elsewhere, catchPoints, globals, outcome>>

(* capture_upvalue: the open upvalue of the slot, or a new one.  acc is the
   upvalue objects, the open ones, and the ids captured so far.            *)
CaptureUpvalue(acc, slot) ==
    LET same == {u \in acc.open : acc.objects[u].slot = slot}
        new == Len(acc.objects) + 1
    IN  IF same # {} THEN [acc EXCEPT !.ids = Append(@, Min(same))]
        ELSE [objects |-> Append(acc.objects, [open |-> TRUE, slot |-> slot, value |-> None]),
              open |-> acc.open \cup {new}, ids |-> Append(acc.ids, new)]

(* An upvalue of the new closure is of a variable of this function, or one
   that this function has itself.                                          *)
Captured(acc, uv) ==
    IF uv.isLocal THEN CaptureUpvalue(acc, Slot(uv.index))
    ELSE [acc EXCEPT !.ids = Append(@, Frame.up[uv.index])]

MakeClosure ==
    /\ Executes("Closure")
    /\ LET wanted == code[Instruction.arg].upvalues
           captured[n \in 0 .. Len(wanted)] ==
               IF n = 0 THEN [objects |-> upvalues, open |-> openUpvalues, ids |-> <<>>]
               ELSE Captured(captured[n - 1], wanted[n])
           made == captured[Len(wanted)]
       IN  /\ Len(made.objects) <= MaxUpvalues
           /\ upvalues' = made.objects
           /\ openUpvalues' = made.open
           /\ stack' = Append(stack, Closure(Instruction.arg, made.ids))
    /\ frames' = Next1
    /\ UNCHANGED <<loaded, elsewhere, catchPoints, globals, outcome>>

-----------------------------------------------------------------------------
(* Jumps and iteration. *)

JumpTo(offset, newStack) ==
    /\ frames' = Jumped(offset)
    /\ stack' = newStack
    /\ UNCHANGED <<loaded, elsewhere, upvalues, openUpvalues, catchPoints, globals, outcome>>

Jump == Executes("Jump") /\ JumpTo(Instruction.arg, stack)

JumpIfFalse ==
    Executes("JumpIfFalse") /\ JumpTo(IF Falsy(Top) THEN Instruction.arg ELSE 0, stack)

JumpIfTrue ==
    Executes("JumpIfTrue") /\ JumpTo(IF Falsy(Top) THEN 0 ELSE Instruction.arg, stack)

Loop == Executes("Loop") /\ JumpTo(-Instruction.arg, stack)

NoneCoalesce ==
    /\ Executes("NoneCoalesce")
    /\ IF Top = None THEN Steps(Popped(stack)) ELSE JumpTo(Instruction.arg, stack)

GetIterator ==
    /\ Executes("GetIterator")
    /\ IF Top \in Iterable THEN Steps(Append(Popped(stack), Value("iterator", "__iter__")))
       ELSE Dies("error")

(* The iterator may have a next item or none; its items are named i, for
   the loop variable.                                                      *)
IteratorNext ==
    /\ Executes("IteratorNext")
    /\ CASE Top.is = "iterator" -> \/ Steps(Append(Popped(stack), Value("const", "i")))
                                   \/ JumpTo(Instruction.arg, Popped(stack))
         [] Top \in NoObject     -> Steps(Popped(stack))
         [] OTHER                -> Dies("error")

-----------------------------------------------------------------------------
(* Errors. *)

(* The entries of a frame's exception table whose try body holds its ip.  A
   frame's ip is past the instruction it executes or has called from.      *)
Entries(k, ip) ==
    LET table == code[frames[k].fn].table
    IN  {n \in DOMAIN table : ip > table[n].start /\ ip <= table[n].end}

IpOf(k) == IF k = Len(frames) THEN frames[k].ip + 1 ELSE frames[k].ip
Handling == {k \in DOMAIN frames : Entries(k, IpOf(k)) # {}}

(* find_exception_handler: the first entry, of the innermost frame. *)
Handler ==
    LET k == Max(Handling)
    IN  [frame |-> k,
         entry |-> code[frames[k].fn].table[Min(Entries(k, IpOf(k)))]]

(* The frames above the k-th are popped, closing their upvalues. *)
UnwindTo(k, ip, s) ==
    /\ frames' = At(SubSeq(frames, 1, k), ip)
    /\ IF k = Len(frames) THEN UNCHANGED <<upvalues, openUpvalues>>
       ELSE CloseUpvalues(s, frames[k + 1].base)

(* What Fail and handle_runtime_error do: the newest catch point, else an
   exception handler, else the policy.  s is the stack by then.            *)
Throw(value, s) ==
    IF catchPoints # <<>>
    THEN LET cp == Last(catchPoints)
         IN  /\ UnwindTo(cp.frame, cp.handler, s)
             /\ stack' = Append(Truncate(s, cp.size), None)
             /\ catchPoints' = Front(catchPoints)
             /\ UNCHANGED <<loaded, elsewhere, globals, outcome>>
    ELSE IF Handling # {}
    THEN LET h == Handler
         IN  /\ UnwindTo(h.frame, h.entry.handler, s)
             /\ stack' = Append(Truncate(s, frames[h.frame].base - 1 + h.entry.depth), value)
             /\ UNCHANGED <<loaded, elsewhere, catchPoints, globals, outcome>>
    ELSE IF FailPolicy = "log" THEN Steps(Append(s, None))
    ELSE Dies("error")

Fail == Executes("Fail") /\ Throw(Top, Popped(stack))

SetCatchPoint ==
    /\ Executes("SetCatchPoint")
    /\ catchPoints' = Append(catchPoints,
          [size |-> Len(stack), frame |-> Len(frames), handler |-> Frame.ip + 1 + Instruction.arg])
    /\ frames' = Next1
    /\ UNCHANGED <<loaded, elsewhere, stack, upvalues, openUpvalues, globals, outcome>>

ClearCatchPoint ==
    /\ Executes("ClearCatchPoint")
    /\ catchPoints' = Popped(catchPoints)
    /\ frames' = Next1
    /\ UNCHANGED <<loaded, elsewhere, stack, upvalues, openUpvalues, globals, outcome>>

-----------------------------------------------------------------------------
(* Calls. *)

CalleeAt == Len(stack) - Instruction.arg
Callee == stack[CalleeAt]

(* call_closure: s has the receiver and the arguments on top.  Its errors
   are not thrown, they end the fiber.                                     *)
CallClosure(callee, s, objs) ==
    LET fc == code[callee.fn]
        missing == fc.arity - Instruction.arg
    IN  IF Len(frames) >= MaxFrames \/ missing \notin 0 .. fc.defaults
        THEN Dies("error")
        ELSE /\ stack' = s \o [k \in 1 .. missing |-> None]
             /\ frames' = Append(Next1, [fn |-> callee.fn, ip |-> 1, up |-> callee.up,
                                         base |-> Len(s) + missing - fc.arity])
             /\ objects' = objs
             /\ UNCHANGED <<loaded, others, upvalues, openUpvalues, catchPoints, globals, outcome>>

(* A native gets its arguments and leaves a result, or throws. *)
RunNative(results) ==
    \E result \in results :
        LET s == Truncate(stack, CalleeAt - 1)
        IN  IF result = Undefined THEN Throw(Error, s) ELSE Steps(Append(s, result))

(* A call of a class makes an instance, with the fields of that class. *)
ObjectOf(value) == objects[value.fn]
NoMembers == [n \in {} |-> None]
Joined(m, n) == [x \in DOMAIN m \cup DOMAIN n |-> IF x \in DOMAIN m THEN m[x] ELSE n[x]]
With(m, name, value) == [x \in DOMAIN m \cup {name} |-> IF x = name THEN value ELSE m[x]]
Reference(is, of) == [is |-> is, of |-> of, fn |-> Len(objects) + 1, up |-> <<>>]

Construct(class) ==
    LET s == [stack EXCEPT ![CalleeAt] = Reference("instance", class.of)]
        objs == Append(objects, [ObjectOf(class) EXCEPT !.is = "instance", !.class = class.fn,
                                                     !.superclass = 0, !.methods = NoMembers])
    IN  IF "init" \in DOMAIN ObjectOf(class).methods
        THEN CallClosure(ObjectOf(class).methods["init"], s, objs)
        ELSE IF Instruction.arg # 0 THEN Dies("error") ELSE Allocates(s, objs)

(* call_value: the callee is below the arguments, or was read from a field
   of the receiver that is there; a native overwrites it.                  *)
CallValue(callee) ==
    \/ callee.is = "closure" /\ CallClosure(callee, [stack EXCEPT ![CalleeAt] = callee], objects)
    \/ callee.is = "native" /\ RunNative(Results(callee.of))
    \/ callee.is = "class" /\ Construct(callee)
    \/ /\ callee.is = "bound"
       /\ CallClosure(ObjectOf(callee).fields["method"],
                [stack EXCEPT ![CalleeAt] = ObjectOf(callee).fields["receiver"]], objects)
    \/ callee.is \notin {"closure", "native", "class", "bound"} /\ Dies("error")

Call == Executes("Call") /\ CallValue(Callee)

Return ==
    /\ Executes("Return")
    /\ CloseUpvalues(Popped(stack), Frame.base)
    /\ LET below == Truncate(stack, Frame.base - 1)
       IN  IF Len(frames) = 1
           THEN outcome' = "finished" /\ stack' = below
           ELSE outcome' = outcome /\ stack' = Append(below, Top)
    /\ frames' = Front(frames)
    /\ UNCHANGED <<loaded, elsewhere, catchPoints, globals>>

-----------------------------------------------------------------------------
(* Classes.  A class and an instance have fields, a class has methods: its
   own and, from Inherit on, those of its superclass.                      *)

HasMembers == {"class", "instance"}
IsObject(v) == v \notin NoObject /\ ~Number(v)

MakeClass ==
    /\ Executes("Class")
    /\ Allocates(Append(stack, Reference("class", Instruction.name)),
                 Append(objects, [is |-> "class", name |-> Instruction.name, class |-> 0,
                                  superclass |-> 0, fields |-> NoMembers, methods |-> NoMembers]))

DefineMethod ==
    /\ Executes("Method") /\ Below(1).is = "class"
    /\ Allocates(Popped(stack),
                 [objects EXCEPT ![Below(1).fn].methods = With(@, Instruction.name, Top)])

(* The subclass stays on the stack; a method of its own is kept. *)
Inherit ==
    /\ Executes("Inherit")
    /\ IF Top.is = "class"
       THEN Allocates(Popped(stack),
                [objects EXCEPT ![Below(1).fn].superclass = Top.fn,
                                ![Below(1).fn].methods = Joined(@, ObjectOf(Top).methods)])
       ELSE IF IsObject(Top) THEN Dies("error") ELSE Steps(Popped(stack))

(* get_property; a method that is read from an instance is bound to it. *)
ReadProperty(receiver, name) ==
    \/ /\ receiver.is \in HasMembers /\ name \in DOMAIN ObjectOf(receiver).fields
       /\ Steps(Append(Popped(stack), ObjectOf(receiver).fields[name]))
    \/ /\ receiver.is = "instance" /\ name \notin DOMAIN ObjectOf(receiver).fields
       /\ LET methods == objects[ObjectOf(receiver).class].methods
          IN  IF name \notin DOMAIN methods THEN Dies("error")
              ELSE Allocates(Append(Popped(stack), Reference("bound", name)),
                       Append(objects, [is |-> "bound", name |-> name, class |-> 0, superclass |-> 0,
                           fields |-> With(With(NoMembers, "receiver", receiver), "method", methods[name]),
                           methods |-> NoMembers]))
    \/ /\ receiver.is = "class" /\ name \notin DOMAIN ObjectOf(receiver).fields
       /\ IF name \in DOMAIN ObjectOf(receiver).methods
          THEN Steps(Append(Popped(stack), ObjectOf(receiver).methods[name])) ELSE Dies("error")
    \/ /\ receiver.is \notin HasMembers
       /\ IF receiver \in Iterable THEN Steps(Append(Popped(stack), Value("const", "n")))
          ELSE Dies("error")

GetProperty == Executes("GetProperty") /\ ReadProperty(Top, Instruction.name)

SafeNav ==
    /\ Executes("SafeNav")
    /\ IF Top = None THEN Steps(stack) ELSE ReadProperty(Top, Instruction.name)

SetProperty ==
    /\ Executes("SetProperty")
    /\ IF Below(1).is \notin HasMembers THEN Dies("error")
       ELSE Allocates(Append(Drop(2), Top),
                [objects EXCEPT ![Below(1).fn].fields = With(@, Instruction.name, Top)])

(* invoke: a built-in method, a value in a field, or a method. *)
Invoke ==
    LET receiver == Callee
        name == Instruction.name
        Has(members) == name \in DOMAIN members
        methods == IF receiver.is = "class" THEN ObjectOf(receiver).methods
                   ELSE objects[ObjectOf(receiver).class].methods
    IN  /\ Executes("Invoke")
        /\ \/ receiver \in Iterable /\ RunNative({Value("const", "n"), Undefined})
           \/ /\ receiver.is = "instance" /\ Has(ObjectOf(receiver).fields)
              /\ CallValue(ObjectOf(receiver).fields[name])
           \/ /\ receiver.is \in HasMembers
              /\ receiver.is = "instance" => ~Has(ObjectOf(receiver).fields)
              /\ IF Has(methods) THEN CallClosure(methods[name], stack, objects) ELSE Dies("error")
           \/ receiver \notin Iterable /\ receiver.is \notin HasMembers /\ Dies("error")

\* mutant: super starts at the class of the receiver
OwnClass(receiver) == ObjectOf(receiver).class

(* Where super looks: above the class of the receiver. *)
SuperclassOf(receiver) == objects[ObjectOf(receiver).class].superclass

SuperInvoke ==
    /\ Executes("SuperInvoke")
    /\ IF ~IsObject(Callee) THEN Steps(stack)
       ELSE IF Callee.is # "instance" \/ SuperclassOf(Callee) = 0 THEN Dies("error")
       ELSE LET methods == objects[SuperclassOf(Callee)].methods
            IN  IF Instruction.name \in DOMAIN methods
                THEN CallClosure(methods[Instruction.name], stack, objects) ELSE Dies("error")

-----------------------------------------------------------------------------
(* Fibers.  A fiber leaves by its own doing; the host resumes one where it
   stopped.  (The fiber of an object that is no closure is left out: it
   fails at its first instruction.)                                        *)

NewFiber(closure) ==
    [stack |-> <<closure>>, open |-> {}, catchPoints |-> <<>>,
     frames |-> <<[fn |-> closure.fn, ip |-> 1, base |-> 1, up |-> closure.up]>>]

SpawnFiber ==
    /\ Executes("SpawnFiber")
    /\ \/ /\ Top.is = "closure"
          /\ others' = Append(others, NewFiber(Top))
          /\ stack' = Append(Popped(stack), Value("const", "id"))
          /\ frames' = Next1
          /\ UNCHANGED <<loaded, objects, upvalues, openUpvalues, catchPoints, globals, outcome>>
       \/ ~IsObject(Top) /\ Dies("error")

ThisFiber ==
    [stack |-> stack, open |-> openUpvalues, catchPoints |-> catchPoints, frames |-> frames]

(* run_ready takes another fiber; upvalues do not say of which fiber they are. *)
Switch ==
    /\ outcome \in {"suspended", "finished"} /\ outcome' = "running"
    /\ \E k \in DOMAIN others :
          /\ stack' = others[k].stack /\ frames' = others[k].frames
          /\ openUpvalues' = others[k].open /\ catchPoints' = others[k].catchPoints
          /\ others' = RemoveAt(others, k) \o (IF outcome = "suspended" THEN <<ThisFiber>> ELSE <<>>)
    /\ UNCHANGED <<loaded, objects, upvalues, globals>>

Yield ==
    /\ Executes("Yield")
    /\ stack' = Popped(stack) /\ frames' = Next1 /\ outcome' = "suspended"
    /\ UNCHANGED <<loaded, elsewhere, upvalues, openUpvalues, catchPoints, globals>>

Wait ==
    /\ Executes("Wait")
    /\ IF Top \notin Duration THEN Dies("error")
       ELSE /\ stack' = Append(Popped(stack), None) /\ frames' = Next1 /\ outcome' = "suspended"
            /\ UNCHANGED <<loaded, elsewhere, upvalues, openUpvalues, catchPoints, globals>>

Resume ==
    /\ outcome = "suspended" /\ outcome' = "running"
    /\ UNCHANGED <<loaded, elsewhere, stack, frames, upvalues, openUpvalues, catchPoints, globals>>

Next ==
    \/ PushConstant \/ PushNone \/ Pop \/ Dup \/ Equal
    \/ GetLocal \/ SetLocal \/ GetGlobal \/ SetGlobal \/ DefineGlobal
    \/ GetUpvalue \/ SetUpvalue \/ CloseUpvalue \/ MakeClosure
    \/ Jump \/ JumpIfFalse \/ JumpIfTrue \/ Loop \/ GetIterator \/ IteratorNext
    \/ Fail \/ SetCatchPoint \/ ClearCatchPoint
    \/ Call \/ Return
    \/ Arithmetic \/ Negate \/ Not \/ Compare \/ AssertOp \/ AssertCmp \/ NoneCoalesce
    \/ Build \/ BuildRange \/ GetIndex \/ SetIndex
    \/ MakeClass \/ DefineMethod \/ Inherit \/ GetProperty \/ SafeNav \/ SetProperty
    \/ Invoke \/ SuperInvoke
    \/ SpawnFiber \/ Yield \/ Wait \/ Resume \/ Switch

Spec == Init /\ [][Next]_vars
-----------------------------------------------------------------------------
(* Properties. *)

(* Every frame is at an instruction of its function, owns its part of the
   stack, and no instruction has indexed past the stack.                   *)
TypeOK ==
    /\ outcome \in {"running", "suspended", "finished", "error"}
    /\ Len(frames) <= MaxFrames /\ (frames = <<>> <=> outcome = "finished")
    /\ \A k \in DOMAIN frames :
          /\ frames[k].ip \in DOMAIN code[frames[k].fn].code
          /\ frames[k].base \in DOMAIN stack
          /\ k > 1 => frames[k - 1].base < frames[k].base
    /\ openUpvalues \cup UNION {others[k].open : k \in DOMAIN others}
          = {u \in DOMAIN upvalues : upvalues[u].open}
    /\ \A k \in DOMAIN others : openUpvalues \cap others[k].open = {}

(* Does the value belong to the variable?  The item of a for loop and the
   result of a try expression may be None, m holds what is matched and o an
   instance.                                                               *)
BelongsTo(v, name) ==
    \/ v.of = name
    \/ name = "o" /\ v.is = "instance"
    \/ name \in {"i", "t"} /\ v = None
    \/ name = "m" /\ v.of \in Subjects

InScope(entry, ip) == entry.start <= ip /\ ip < entry.end

(* A class and those above it, nearest first. *)
Chain(class) ==
    FoldLeft(LAMBDA chain, n : IF objects[Last(chain)].superclass = 0 THEN chain
                               ELSE Append(chain, objects[Last(chain)].superclass),
             <<class>>, [n \in DOMAIN objects |-> n])

NamesAbove(value) ==
    LET chain == Chain(IF value.is = "class" THEN value.fn ELSE ObjectOf(value).class)
    IN  [n \in DOMAIN chain |-> objects[chain[n]].name]

(* Slot 0 holds the function, or the receiver of a method, which is of the
   class of the method or one below it.                                    *)
HoldsReceiver(v) ==
    IF Function.class = "" THEN v.is = "closure" /\ v.fn = Frame.fn
    ELSE v.is \in HasMembers /\ Contains(NamesAbove(v), Function.class)

(* When a statement starts, the stack of the frame is what the compiler
   thinks it is: one slot per local in scope (and one per subject of the
   match statements around), and each variable of the debugger's table
   is found in its slot (but for a nested function where it is declared: it
   is in the table, and not yet on the stack).  This is about every path
   that comes there: break, continue, a caught error, a return, a resumed
   wait.                                                                   *)
LocalsInTheirSlots ==
    outcome = "running" =>
      \A m \in DOMAIN Function.starts :
        Function.starts[m].at = Frame.ip =>
          /\ Len(stack) = Frame.base - 1 + Function.starts[m].height
          /\ HoldsReceiver(stack[Frame.base])
          /\ \A n \in DOMAIN Function.vars \ {1} :
                InScope(Function.vars[n], Frame.ip)
                  /\ Function.vars[n].slot < Function.starts[m].height =>
                  BelongsTo(stack[Slot(Function.vars[n].slot)], Function.vars[n].name)

(* The upvalues of a closure read the variables they were made for. *)
SeesItsVariables(fn, up) ==
    LET made == code[fn].upvalues
    IN  /\ DOMAIN up = DOMAIN made
        /\ \A k \in DOMAIN up : BelongsTo(ReadUpvalue(up[k]), made[k].name)

Values == Range(stack) \cup Range(globals)
             \cup {upvalues[u].value : u \in {w \in DOMAIN upvalues : ~upvalues[w].open}}
             \cup UNION {Range(objects[k].fields) : k \in DOMAIN objects}

(* Whatever happened to the frame that declared it, a closure reads the
   variable it captured, in whatever fiber it runs; and two closures that
   captured one variable while it was on the stack share it.               *)
UpvaluesSeeTheirVariable ==
    /\ \A v \in Values : v.is = "closure" => SeesItsVariables(v.fn, v.up)
    /\ \A k \in DOMAIN frames : SeesItsVariables(frames[k].fn, frames[k].up)
    /\ \A u, w \in openUpvalues : upvalues[u].slot = upvalues[w].slot => u = w
    /\ \A u \in openUpvalues : upvalues[u].slot \in DOMAIN stack

(* A thrown value, when no try expression is being evaluated, reaches the
   catch of the innermost try statement around the fail: that of the
   innermost frame with one, and in it the try that began last.            *)
InnermostTryCatches ==
    [][Executes("Fail") /\ catchPoints = <<>> /\ Handling # {} =>
         LET k == Max(Handling)
             table == code[frames[k].fn].table
             inner == CHOOSE n \in Entries(k, IpOf(k)) :
                        \A m \in Entries(k, IpOf(k)) : table[m].start <= table[n].start
         IN  /\ Len(frames') = k /\ Last(frames').ip = table[inner].handler
             /\ Last(stack') = Top]_vars

(* The catch points are those of the try expressions being evaluated: of
   frames that still exist, in the order of the stack, and none of a frame
   that is between two statements.                                         *)
CatchPointsNested ==
    /\ outcome = "finished" => catchPoints = <<>>
    /\ \A n \in DOMAIN catchPoints :
         /\ catchPoints[n].frame \in DOMAIN frames
         /\ catchPoints[n].size \in frames[catchPoints[n].frame].base .. Len(stack)
         /\ n > 1 => /\ catchPoints[n - 1].frame <= catchPoints[n].frame
                     /\ catchPoints[n - 1].size <= catchPoints[n].size
    /\ outcome = "running" /\ (\E m \in DOMAIN Function.starts : Function.starts[m].at = Frame.ip)
         => \A n \in DOMAIN catchPoints : catchPoints[n].frame < Len(frames)

(* A call of a method runs the one of the nearest class that declares it: up
   from the class of the receiver, and for super from the class above that
   of the method that says super.  (A field of that name may hide it.)     *)
InField(v, name) == v.is = "instance" /\ name \in DOMAIN ObjectOf(v).fields
Declarers(names, method) ==
    {n \in DOMAIN names : \E f \in DOMAIN code :
        code[f].class = names[n] /\ code[f].name = method}

CallsNearestMethod ==
    [][(\/ Executes("Invoke") /\ ~InField(Callee, Instruction.name)
        \/ Executes("SuperInvoke"))
       /\ Len(frames') > Len(frames) /\ code[Last(frames').fn].class # "" =>
         LET names == NamesAbove(Callee)
             from == IF Executes("Invoke") THEN 1
                     ELSE 1 + Min({n \in DOMAIN names : names[n] = Function.class})
             above == SubSeq(names, from, Len(names))
             called == code[Last(frames').fn]
         IN  /\ called.name = Instruction.name
             /\ \E n \in Declarers(above, called.name) :
                   /\ called.class = above[n]
                   /\ \A m \in Declarers(above, called.name) : n <= m
             /\ stack'[Last(frames').base] = Callee]_vars

(* The body of a case runs for the subjects the source sends to it: those
   of its patterns that no earlier case without a guard takes.             *)
MatchTakesFirst ==
    outcome = "running" =>
      \A m \in DOMAIN Function.cases :
        Function.cases[m].at = Frame.ip =>
          Get(stack, Slot(Function.cases[m].slot)).of \in Function.cases[m].takes
=============================================================================
