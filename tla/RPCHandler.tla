----------------------------- MODULE RPCHandler -----------------------------
(***************************************************************************)
(* RPCHandler (include/RPCHandler.h) over reflection (ReflectStatic.inl):  *)
(* objects subscribe to names; a message is decoded and the method of that *)
(* name called on each subscriber.  A listener is an Any with the flag     *)
(* REF: an object and its type.  Types of objects are no plain data.       *)
(***************************************************************************)
EXTENDS LightProto, StdMap

CONSTANTS
    Types, Methods,  \* of each type its own methods: name |-> types of parameters
    Parents,         \* of each type, its bases in order
    SizeOf,          \* of each type, the size that is registered: sizeof
    BaseAt,          \* of each type, where the compiler puts each of its bases
    Objects, TypeOf,
    NameOrder,       \* names objects subscribe to, in the order of std::map
    Messages,        \* lists of arguments that clients send; the first is a name
    Profiles         \* what the application does: sets of habits

\* "any": unsubscribes objects that are followed by another of their type;
\* "reenter": handlers subscribe and unsubscribe.
Habits == {"any", "reenter"}
Names == ToSet(NameOrder)

ASSUME TypeAssumption == /\ TypeOf \in [Objects -> Types]
                         /\ Parents \in [Types -> Seq(Types)]
                         /\ SizeOf \in [Types -> Nat]
                         /\ DOMAIN BaseAt = Types
                         /\ \A T \in Types : BaseAt[T] \in [1..Len(Parents[T]) -> Nat]
\* No type is among its own bases or theirs: of some types one has no base there.
ASSUME HierarchyAssumption == \A S \in SUBSET Types : S # {} =>
                                  \E T \in S : S \intersect ToSet(Parents[T]) = {}
ASSUME MethodsAssumption == \A T \in Types : \A f \in DOMAIN Methods[T] :
                                f \in Names /\ Methods[T][f] \in Seq(DOMAIN Tag)
ASSUME MessagesAssumption == Messages \subseteq Seq([type : DOMAIN Tag, v : Seq(Int)])
ASSUME ProfilesAssumption == Profiles \subseteq SUBSET Habits

VARIABLES
    Slot,      \* of each name the map holds, its listeners
    contents,  \* the contents of each object
    funcname, args, listener, inside, \* of Dispatch: the name, the arguments, the
                                      \* listener that is next or running, or 0
    fate,      \* "runs", "thrown" or "undefined"
    calls,     \* ghost: the calls made by the last Dispatch
    habits     \* the profile of this run

dispatch == <<funcname, args, listener, inside>>
vars == <<Slot, contents, dispatch, fate, calls, habits>>

Has(h) == h \in habits
----------------------------------------------------------------------------
(* Any: an argument is a COPY [type, of, v], v the value of a type `of'    *)
(* that is there in memory, under the label `type'.                        *)

PodSize == [INT32 |-> 4, FLOAT |-> 4, INT64 |-> 8, DOUBLE |-> 8, BOOLEAN |-> 1]
SameSize(t, u) == {t, u} \subseteq DOMAIN PodSize /\ PodSize[t] = PodSize[u]
Holding(a) == [type |-> a.type, of |-> a.type, v |-> a.v]

\* m = n: rule III keeps m's label, rule II takes all of n.
Assign(m, n) == IF m.type # "EMPTY" /\ n.type # "EMPTY" /\ SameSize(m.type, n.type)
                THEN [n EXCEPT !.type = m.type] ELSE n

Castable(a, t) == a.type = t \/ SameSize(a.type, t)

\* args.erase(args.begin()): each is assigned the next.
EraseFirst(as) == [k \in 1..Len(as) - 1 |-> Assign(as[k], as[k + 1])]
----------------------------------------------------------------------------
(* Type::find_method adds up the sizes of the bases it searched in vain.   *)
(* What a type adds to its bases may be negative, as empty ones lie over   *)
(* others: size_t wraps there, and back when the sizes are added.          *)

SumOver(g, ps) == LET upto[k \in 0..Len(ps)] == IF k = 0 THEN 0 ELSE upto[k - 1] + g[ps[k]]
                  IN upto[Len(ps)]

FindMethod(f) ==
    LET at(ps, s) == SumOver([P \in ToSet(ps) |-> s[P].at], ps)
        find[T \in Types] ==
            IF f \in DOMAIN Methods[T]
            THEN [found |-> TRUE, at |-> 0, params |-> Methods[T][f]]
            ELSE LET ps == Parents[T]
                     s == [P \in ToSet(ps) |-> find[P]]
                     hits == {k \in DOMAIN ps : s[ps[k]].found}
                 IN IF hits = {}
                    THEN [found |-> FALSE, at |-> at(ps, s) + SizeOf[T] - SumOver(SizeOf, ps),
                          params |-> << >>]
                    ELSE LET k == CHOOSE k \in hits : \A j \in hits : k <= j
                         IN [s[ps[k]] EXCEPT !.at = @ + at(SubSeq(ps, 1, k - 1), s)]
    IN find
----------------------------------------------------------------------------
Init ==
    /\ Slot = EmptyMap
    /\ contents = [o \in Objects |-> o]
    /\ funcname = << >> /\ args = << >> /\ listener = 0 /\ inside = FALSE
    /\ fate = "runs" /\ calls = << >>
    /\ habits \in Profiles
----------------------------------------------------------------------------
(* Subscriptions.                                                          *)

Heard(f) == At(Slot, f, << >>)
Pos(l, o) == CHOOSE k \in DOMAIN l : l[k] = o

\* The application's turn: between two messages, or in a handler.
MayAct == fate = "runs" /\ (listener = 0 \/ (inside /\ Has("reenter")))

\* Changing the listeners Dispatch is looking at is undefined.
Change(slot) ==
    IF inside /\ slot[funcname] # Slot[funcname]
    THEN fate' = "undefined" /\ UNCHANGED <<Slot, contents>>
    ELSE Slot' = slot /\ UNCHANGED fate

\* A subscriber is not looked for.
Added_Again(l, o) == Append(l, o)

Added(l, o) == IF o \in ToSet(l) THEN l ELSE Append(l, o)

SubscribeTo(o, F) ==
    /\ MayAct
    /\ Change([f \in DOMAIN Slot \union F |-> IF f \in F THEN Added(Heard(f), o) ELSE Slot[f]])
    /\ contents' = contents
    /\ UNCHANGED <<dispatch, calls, habits>>

\* One name, or all methods of the object's type, inherited ones not included.
Subscribe(o, f) == SubscribeTo(o, {f})
SubscribeAll(o) == SubscribeTo(o, DOMAIN Methods[TypeOf[o]])

\* vector::erase at i assigns each listener the next and drops the last.  Between
\* two of one type, rule III, the assignment copies the object, not the reference.
Alike(l, k) == TypeOf[l[k]] = TypeOf[l[k + 1]]
Erased(l, i) == [k \in 1..Len(l) - 1 |-> IF k < i \/ Alike(l, k) THEN l[k] ELSE l[k + 1]]
Copied(c, l, i) == [p \in Objects |->
    IF \E k \in i..Len(l) - 1 : l[k] = p /\ Alike(l, k) THEN c[l[Pos(l, p) + 1]] ELSE c[p]]

Without(l, o) == IF o \in ToSet(l) THEN Erased(l, Pos(l, o)) ELSE l
CopiedFor(c, l, o) == IF o \in ToSet(l) THEN Copied(c, l, Pos(l, o)) ELSE c

Unlike(l, o) == o \in ToSet(l) => \A k \in Pos(l, o)..Len(l) - 1 : ~Alike(l, k)

UnsubscribeFrom(o, F) ==
    /\ MayAct
    /\ Has("any") \/ \A f \in F : Unlike(Heard(f), o)
    /\ Change([f \in DOMAIN Slot \union F |-> IF f \in F THEN Without(Heard(f), o) ELSE Slot[f]])
    /\ contents' = FoldLeft(LAMBDA c, f : IF f \in F THEN CopiedFor(c, Heard(f), o) ELSE c,
                            contents, NameOrder)
    /\ UNCHANGED <<dispatch, calls, habits>>

Unsubscribe(o, f) == UnsubscribeFrom(o, {f})
UnsubscribeAll(o) == UnsubscribeFrom(o, DOMAIN Slot)
----------------------------------------------------------------------------
(* Dispatch.                                                               *)

IsNamed(as) == as # << >> /\ as[1].type = "STRING"

\* Nothing to call: no arguments, or the first is no name.
DispatchNothing(as) ==
    /\ fate = "runs" /\ listener = 0
    /\ ~IsNamed(as)
    /\ UNCHANGED vars

\* Slot[funcname] inserts a name nobody subscribed to.
Dispatch(as) ==
    /\ fate = "runs" /\ listener = 0
    /\ IsNamed(as)
    /\ funcname' = as[1].v
    /\ args' = EraseFirst([k \in DOMAIN as |-> Holding(as[k])])
    /\ Slot' = Touch(Slot, {funcname'}, << >>)
    /\ listener' = IF Slot'[funcname'] = << >> THEN 0 ELSE 1
    /\ calls' = << >>
    /\ UNCHANGED <<contents, inside, fate, habits>>

\* call_member_function, as far as the call: not found or not so many
\* parameters, nothing; an argument that cannot be cast throws.
CallListener ==
    /\ fate = "runs" /\ listener > 0 /\ ~inside
    /\ LET o == Slot[funcname][listener]
           m == FindMethod(funcname)[TypeOf[o]]
           fits == m.found /\ Len(args) = Len(m.params)
           casts == \A k \in DOMAIN args : Castable(args[k], m.params[k])
           seen == [k \in DOMAIN args |-> [type |-> args[k].of, v |-> args[k].v]]
       IN /\ fate' = IF fits /\ ~casts THEN "thrown" ELSE "runs"
          /\ calls' = IF fits /\ casts
                      THEN Append(calls, [object |-> o, at |-> m.at, args |-> seen]) ELSE calls
    /\ inside' = TRUE
    /\ UNCHANGED <<Slot, contents, funcname, args, listener, habits>>

Return ==
    /\ fate = "runs" /\ inside
    /\ inside' = FALSE
    /\ listener' = IF listener = Len(Slot[funcname]) THEN 0 ELSE listener + 1
    /\ UNCHANGED <<Slot, contents, funcname, args, fate, calls, habits>>

AppStep ==
    \E o \in Objects :
        \/ SubscribeAll(o) \/ UnsubscribeAll(o)
        \/ \E f \in Names : Subscribe(o, f) \/ Unsubscribe(o, f)

\* What arrives, decoded.
Received == {Decode(EncodeAll(m)) : m \in Messages}

ServerStep ==
    \/ \E as \in Received : DispatchNothing(as) \/ Dispatch(as)
    \/ CallListener \/ Return

Next == AppStep \/ ServerStep
Spec == Init /\ [][Next]_vars
----------------------------------------------------------------------------
(* The parts of an object: itself, its bases and theirs, each where the    *)
(* compiler puts it, padded, empty or over another (but not virtual).      *)
Parts[T \in Types] ==
    {[class |-> T, at |-> 0]} \union
    UNION {{[p EXCEPT !.at = @ + BaseAt[T][k]] : p \in Parts[Parents[T][k]]} :
               k \in DOMAIN Parents[T]}

Homes(o, f) == {[at |-> p.at, params |-> Methods[p.class][f]] :
                   p \in {q \in Parts[TypeOf[o]] : f \in DOMAIN Methods[q.class]}}

\* What Dispatch rests on: the bytes can bring back what is sent; a value read as
\* another type of the same size is not what was sent; and a method that several
\* parts of an object have takes the same parameters in all.
AllSendable == \A m \in Messages : \A k \in DOMAIN m : Sendable(m[k])
Typed == \A m \in Messages, o \in Objects : IsNamed(m) =>
    LET method == FindMethod(m[1].v)[TypeOf[o]]
        ts == [k \in 1..Len(m) - 1 |-> m[k + 1].type]
    IN /\ method.found /\ Len(method.params) = Len(ts)
       /\ \A k \in DOMAIN ts : ts[k] = method.params[k] \/ SameSize(ts[k], method.params[k])
       => ts = method.params
Agreed == \A o \in Objects, f \in Names :
    \A g, h \in Homes(o, f) : g.params = h.params

\* And bases lie end to end, in an object of type T and in those of all listeners;
\* of a single base that says that it comes first.
EndToEnd(T) == \A p \in Parts[T] : \A k \in DOMAIN Parents[p.class] :
    BaseAt[p.class][k] = SumOver(SizeOf, SubSeq(Parents[p.class], 1, k - 1))
Packed == \A o \in Objects : EndToEnd(TypeOf[o])

\* Who is subscribed, who is still to be called, and with what.
Subscribed == [f \in Names |-> Heard(f)]
Todo  == IF listener = 0 THEN << >>
         ELSE SubSeq(Slot[funcname], listener + (IF inside THEN 1 ELSE 0), Len(Slot[funcname]))
Event == <<funcname, [k \in DOMAIN args |-> [type |-> args[k].of, v |-> args[k].v]]>>
Sent  == {<<m[1].v, Tail(m)>> : m \in {n \in Messages : IsNamed(n)}}

Bus == INSTANCE EventBus WITH
    Events <- Names, Notices <- Sent,
    subscribed <- Subscribed, todo <- Todo, event <- Event

\* RPCHandler.h:47 "subscribe corresponding net Event": whoever subscribed is
\* called once, in order, on the part of it that has the method and with the
\* arguments sent, whoever else comes and goes, and whatever handlers subscribe.
ImplementsBus == Bus!Spec

\* Unsubscribing concerns nobody else: no other object loses a subscription, and
\* no object is changed.
Leaves(o) == UnsubscribeAll(o) \/ \E f \in Names : Unsubscribe(o, f)
OthersStay ==
    [][\A o \in Objects : Leaves(o) =>
           /\ contents' = contents
           /\ \A f \in DOMAIN Slot : ToSet(Slot[f]) \ {o} \subseteq ToSet(Slot'[f])]_vars

\* What is encoded comes back, see LightProto, and so do the messages here.
ProtoKeeps == Slot = EmptyMap => WireKeeps
=============================================================================
