---------------------------- MODULE EnactDispatch ----------------------------
(***************************************************************************)
(* Calls (eval.c): attributes and methods of objects, bound methods that   *)
(* outlive the expression that made them, partial application, and super.  *)
(* super depends on current_method_context, a pointer into the C stack     *)
(* that enact_eval_apply_method saves, sets and restores around the body   *)
(* of a method, whether the body succeeds or fails.  frames is that stack: *)
(* a call is pending while its arguments are evaluated, which may run any  *)
(* code, and running while its body is.                                    *)
(***************************************************************************)
EXTENDS EnactClasses

CONSTANTS
  Hierarchies,  \* superclass lists of the classes the program has defined
  Arity,        \* Arity[n]: the parameters of every function named n
  Native,       \* names of collection methods; class 1 is then a collection
  MaxObjects,   \* bound on the objects
  MaxMade,      \* bound on the callable values beside the plain functions
  MaxDepth      \* bound on the C stack

ASSUME DispatchAssumption ==
  /\ Hierarchies \subseteq Seq(Seq(Nat))
  /\ \A h \in Hierarchies : \A c \in 1..Len(h) : ClassesOf(h[c]) \subseteq 1..(c - 1)
  /\ Arity \in [Name -> Nat]
  /\ Native \subseteq Name
  /\ MaxObjects \in Nat /\ MaxMade \in Nat /\ MaxDepth \in Nat

VARIABLES
  objects,   \* objects[o]: class and attributes
  made,      \* the callable values that variables or attributes may hold
  frames,    \* the calls in progress, innermost last
  context,   \* current_method_context: the frame it points into, 0 if NULL
  error      \* the diagnostic on its way to the session, or NoError

dispatchVars == <<supers, methods, objects, made, frames, context, error>>

Objects == 1..Len(objects)
NoError == "NONE"
\* Only the diagnostic for a missing method context is told apart.
Errors == {"INVALID_SUPER_CONTEXT", "OTHER"}

Callable == [kind : {"method", "function", "native"}, receiver : Nat,
             supplier : Nat, name : Name, captured : Nat]

Value(kind, o, supplier, n) ==
  [kind |-> kind, receiver |-> o, supplier |-> supplier, name |-> n, captured |-> 0]

Method(o, supplier, n) == Value("method", o, supplier, n)
Function(n) == Value("function", 0, None, n)
Failure(e) == [kind |-> e]
IsFailure(v) == v.kind \in Errors

\* The call of a method whose body is being evaluated.
IsMethod(frame) == frame.running /\ frame.callee.kind = "method"

-----------------------------------------------------------------------------
(***************************************************************************)
(* Name resolution: a callable, or a failure.                              *)
(***************************************************************************)

\* enact_object_collection_kind: some ancestor is the installed collection.
IsCollection(o) == 1 \in Ancestors[objects[o].class]

MutClassSupplies(o, n) ==
  LET found == LookupMethod(objects[o].class, n)
  IN IF found.supplier = None
       THEN Failure("OTHER")
       ELSE Method(o, objects[o].class, n)

\* The method of the class of o, else a collection method.
ClassSupplies(o, n) ==
  LET found == LookupMethod(objects[o].class, n)
  IN IF ~found.consistent
       THEN Failure("OTHER")
     ELSE IF found.supplier # None
       THEN Method(o, found.supplier, n)
     ELSE IF n \in Native /\ IsCollection(o)
       THEN Value("native", o, None, n)
       ELSE Failure("OTHER")

\* o.n: the attribute first.
Resolve(o, n) ==
  IF n \in DOMAIN objects[o].attributes
    THEN objects[o].attributes[n]
    ELSE ClassSupplies(o, n)

MutResolveSuper(n) ==
  IF context = 0
    THEN Failure("INVALID_SUPER_CONTEXT")
    ELSE LET active == frames[context].callee
         IN ClassSupplies(active.receiver, n)

\* super.n: behind the supplier of the active method, for the same receiver.
ResolveSuper(n) ==
  IF context = 0
    THEN Failure("INVALID_SUPER_CONTEXT")
    ELSE LET active == frames[context].callee
             found == LookupSuper(objects[active.receiver].class, active.supplier, n)
         IN IF ~found.consistent
              THEN Failure("OTHER")
            ELSE IF found.supplier = None
              THEN Failure("OTHER")
              ELSE Method(active.receiver, found.supplier, n)

-----------------------------------------------------------------------------
(***************************************************************************)
(* Steps of an evaluation.                                                 *)
(***************************************************************************)
Raise(e) == error' = e /\ UNCHANGED <<supers, methods, objects, made, frames, context>>

Keep(v) ==
  /\ made' = made \cup {v}
  /\ Cardinality(made') <= Cardinality(Name) + MaxMade

\* The value of an attribute expression.
Result(v) ==
  IF IsFailure(v)
    THEN Raise(v.kind)
    ELSE Keep(v) /\ UNCHANGED <<supers, methods, objects, frames, context, error>>

MutArityError(v, k) == k > Arity[v.name] \/ (k = 0 /\ Arity[v.name] # 0)

\* enact_eval_check_callable_arity, before the arguments are evaluated.
ArityError(v, k) ==
  LET remaining == Arity[v.name] - v.captured
  IN k > remaining \/ (k = 0 /\ remaining # 0)

\* enact_eval_call_value: how is "super" for enact_eval_super_dot_call.
Call(v, k, how) ==
  IF IsFailure(v) THEN Raise(v.kind)
  ELSE IF ArityError(v, k) THEN Raise("OTHER")
  ELSE /\ Len(frames) < MaxDepth
       /\ frames' = Append(frames, [callee |-> v, args |-> k, how |-> how,
                                    running |-> FALSE, previous |-> 0])
       /\ UNCHANGED <<supers, methods, objects, made, context, error>>

Top == frames[Len(frames)]
Pop == frames' = SubSeq(frames, 1, Len(frames) - 1)

\* The program evaluates something: nothing has failed.
Evaluating == error = NoError

\* A frame in which the arguments are evaluated, or the body of a call.
Pending == Evaluating /\ frames # <<>> /\ ~Top.running
Running == Evaluating /\ frames # <<>> /\ Top.running

\* Too few arguments: the call makes a new callable that captures them.
Extend ==
  /\ Pending
  /\ Top.callee.captured + Top.args < Arity[Top.callee.name]
  /\ Pop
  /\ Keep([Top.callee EXCEPT !.captured = @ + Top.args])
  /\ UNCHANGED <<supers, methods, objects, context, error>>

\* enact_eval_apply_method, enact_eval_apply_callable_in_env: the body starts.
Enter ==
  /\ Pending
  /\ Top.callee.captured + Top.args >= Arity[Top.callee.name]
  /\ frames' = [frames EXCEPT ![Len(frames)] =
                  [Top EXCEPT !.running = TRUE, !.previous = context]]
  /\ context' = IF Top.callee.kind = "method" THEN Len(frames) ELSE context
  /\ UNCHANGED <<supers, methods, objects, made, error>>

MutReturn ==
  /\ Running
  /\ Pop
  /\ context' = IF IsMethod(Top) THEN 0 ELSE context
  /\ UNCHANGED <<supers, methods, objects, made, error>>

\* The call is over; a method restores the context it has saved.
Restore == context' = IF IsMethod(Top) THEN Top.previous ELSE context

Return ==
  /\ Running
  /\ Pop
  /\ Restore
  /\ UNCHANGED <<supers, methods, objects, made, error>>

MutUnwind ==
  /\ ~Evaluating
  /\ frames # <<>>
  /\ Pop
  /\ UNCHANGED <<supers, methods, objects, made, error, context>>

\* Every call on the stack fails in turn.
Unwind ==
  /\ ~Evaluating
  /\ frames # <<>>
  /\ Pop
  /\ Restore
  /\ UNCHANGED <<supers, methods, objects, made, error>>

\* The session reports the diagnostic and goes on with the next statement.
Report ==
  /\ ~Evaluating
  /\ frames = <<>>
  /\ error' = NoError
  /\ UNCHANGED <<supers, methods, objects, made, frames, context>>

\* Any other failure of an expression.
Fail == Evaluating /\ frames # <<>> /\ Raise("OTHER")

ReadAttribute == Evaluating /\ \E o \in Objects, n \in Name : Result(Resolve(o, n))

ReadSuper == Evaluating /\ \E n \in Name : Result(ResolveSuper(n))

DotCall ==
  Evaluating /\ \E o \in Objects, n \in Name, k \in 0..2 : Call(Resolve(o, n), k, "dot")

SuperCall == Evaluating /\ \E n \in Name, k \in 0..2 : Call(ResolveSuper(n), k, "super")

CallMade == Evaluating /\ \E v \in made, k \in 0..2 : Call(v, k, "value")

NewObject(c) ==
  /\ Evaluating
  /\ Len(objects) < MaxObjects
  /\ objects' = Append(objects, [class |-> c, attributes |-> <<>>])
  /\ UNCHANGED <<supers, methods, made, frames, context, error>>

\* o.n := v, and "with".
SetAttribute(o, n, v) ==
  /\ Evaluating
  /\ LET old == objects[o].attributes
     IN objects' = [objects EXCEPT ![o].attributes =
          [m \in DOMAIN old \cup {n} |-> IF m = n THEN v ELSE old[m]]]
  /\ UNCHANGED <<supers, methods, made, frames, context, error>>

SetMethod(c, n) ==
  /\ Evaluating
  /\ DefineMethod(c, n)
  /\ UNCHANGED <<objects, made, frames, context, error>>

-----------------------------------------------------------------------------
DispatchInit ==
  /\ supers \in Hierarchies
  /\ methods = [c \in 1..Len(supers) |-> {}]
  /\ objects = <<>>
  /\ made = {Function(n) : n \in Name}
  /\ frames = <<>>
  /\ context = 0
  /\ error = NoError

DispatchNext ==
  \/ ReadAttribute \/ ReadSuper \/ DotCall \/ SuperCall \/ CallMade
  \/ Extend \/ Enter \/ Return \/ Unwind \/ Report \/ Fail
  \/ \E c \in Classes : NewObject(c)
  \/ \E o \in Objects, n \in Name, v \in made : SetAttribute(o, n, v)
  \/ \E c \in Classes, n \in Name : SetMethod(c, n)

DispatchSpec == DispatchInit /\ [][DispatchNext]_dispatchVars

-----------------------------------------------------------------------------
(***************************************************************************)
(* Properties.                                                             *)
(***************************************************************************)
\* The innermost running method among the first k frames, 0 if there is none.
InnermostIs(i, k) ==
  /\ i = 0 \/ (i \in 1..k /\ IsMethod(frames[i]))
  /\ \A j \in (i + 1)..k : ~IsMethod(frames[j])

(***************************************************************************)
(* The context points to the innermost method whose body is evaluated,     *)
(* never into a frame that has returned or failed, and so does what each   *)
(* method will restore.                                                    *)
(***************************************************************************)
ContextInnermost ==
  /\ InnermostIs(context, Len(frames))
  /\ \A i \in DOMAIN frames : IsMethod(frames[i]) => InnermostIs(frames[i].previous, i - 1)

\* Every callable there is: held as a value, or called.
Alive == made \cup {frames[i].callee : i \in DOMAIN frames}

(***************************************************************************)
(* A bound method belongs to the receiver: its supplier is a class in the  *)
(* linearization of the receiver's class and has the method, however long  *)
(* ago it was bound and whatever was defined since.                        *)
(***************************************************************************)
SupplierInherited ==
  \A v \in Alive : v.kind = "method" =>
    /\ v.receiver \in Objects
    /\ v.supplier \in ClassesOf(Linearization[objects[v.receiver].class].order)
    /\ v.name \in methods[v.supplier]

(***************************************************************************)
(* Partial application is exact: a body starts with all its arguments, and *)
(* a callable with parameters still has one to take.                       *)
(***************************************************************************)
ArgumentsComplete ==
  /\ \A v \in Alive : v.captured <= Arity[v.name] /\ (v.captured = Arity[v.name] => v.captured = 0)
  /\ \A i \in DOMAIN frames : LET f == frames[i] IN
       /\ f.callee.captured + f.args <= Arity[f.callee.name]
       /\ f.running => f.callee.captured + f.args = Arity[f.callee.name]

(***************************************************************************)
(* A super call goes to a class strictly behind that of the method it is   *)
(* made from, for the same receiver, also when functions are called in     *)
(* between or the arguments make calls: no method reaches itself by super. *)
(***************************************************************************)
SuperAdvances ==
  \A i \in DOMAIN frames : frames[i].how = "super" =>
    \E j \in 1..(i - 1) :
      LET callee == frames[i].callee
          caller == frames[j].callee
          order == Linearization[objects[callee.receiver].class].order
      IN /\ InnermostIs(j, i - 1)
         /\ callee.receiver = caller.receiver
         /\ Position(order, caller.supplier) < Position(order, callee.supplier)

(***************************************************************************)
(* super is refused only outside every method: a call that has returned or *)
(* failed in between never takes the context away.                         *)
(***************************************************************************)
SuperRefusedOutside ==
  [][error' = "INVALID_SUPER_CONTEXT" /\ Evaluating =>
       \A i \in DOMAIN frames : ~IsMethod(frames[i])]_dispatchVars

=============================================================================
