----------------------------- MODULE Parameters ----------------------------
(***************************************************************************)
(* parameters_t (src/include/pq-async/data_parameters.h): a vector of owned *)
(* parameter pointers, and the four arrays libpq wants, made from it on     *)
(* first use and owned through raw pointers. A program builds and copies    *)
(* such objects and sends them; the task that sends one keeps its own       *)
(* object (send_query: a copy of a const object, else the moved object),    *)
(* reads its arrays when it runs, again when it is run again, and destroys  *)
(* it. The heap is explicit: to delete something twice, or to read it after *)
(* its deletion or past its end, is a fault, after which nothing is said.   *)
(***************************************************************************)
EXTENDS Integers, SequencesExt, FiniteSetsExt

CONSTANTS
    Objects,    \* the program's parameters_t objects
    Tasks,      \* the tasks, each with its parameters_t _p
    Vals,       \* parameter values
    MaxNew,     \* bound on the parameters ever allocated
    MaxLen      \* bound on the length of a vector

ASSUME ParametersAssumption == Objects \cap Tasks = {}

Null == 0
ParamIds == 1..MaxNew
All == Objects \cup Tasks

VARIABLES
    p,          \* _p: object -> sequence of parameters
    arrays,     \* _p_types, _p_values, ...: object -> Null or an array block
    heap,       \* parameters that are allocated: id -> value
    blocks,     \* array blocks that are allocated: id -> what they point to
    next,       \* the next id of a parameter or block
    alive,      \* objects that are constructed
    want,       \* history: task -> <<the values it was sent with>>, or <<>>
    got,        \* task -> <<the values libpq read last>>, or <<>>
    spoiled,    \* history: objects used in a way the class does not bear
    fault       \* {}, or {the object on which undefined behaviour was reached}

vars == <<p, arrays, heap, blocks, next, alive, want, got, spoiled, fault>>

Values(o) == [i \in DOMAIN p[o] |-> IF p[o][i] \in DOMAIN heap THEN heap[p[o][i]] ELSE Null]
\* Parameters next, next + 1, ... hold the values vs.
Allocated(h, vs) == [q \in DOMAIN h \cup (next..next + Len(vs) - 1) |->
                        IF q >= next THEN vs[q - next + 1] ELSE h[q]]
Ids(vs) == [i \in DOMAIN vs |-> next + i - 1]
Without(h, qs) == [q \in DOMAIN h \ qs |-> h[q]]

\* What o points to and does not own any more: its arrays, its parameters.
ArraysGone(o) == arrays[o] # Null /\ arrays[o] \notin DOMAIN blocks
ParamsGone(o) == ~(ToSet(p[o]) \subseteq DOMAIN heap)
\* A reader of the arrays takes size() entries of them.
Entries(o) == IF arrays[o] \in DOMAIN blocks THEN blocks[arrays[o]] ELSE p[o]
Unreadable(o) == \/ ArraysGone(o)
                 \/ Len(p[o]) > Len(Entries(o))
                 \/ \E i \in DOMAIN p[o] : Entries(o)[i] \notin DOMAIN heap
Undefined(o, bad) == fault' = IF bad THEN {o} ELSE {}

\* History: the list o is changed; b is moved to o.
Changed(o) == spoiled' = IF arrays[o] # Null THEN spoiled \cup {o} ELSE spoiled
Moved(o, b) == spoiled' = IF b \in spoiled \/ arrays[b] # Null THEN spoiled \cup {o, b}
                          ELSE spoiled \ {o}

Init ==
    /\ p = [o \in All |-> <<>>]
    /\ arrays = [o \in All |-> Null]
    /\ heap = <<>> /\ blocks = <<>> /\ next = 1
    /\ alive = {}
    /\ want = [t \in Tasks |-> <<>>] /\ got = [t \in Tasks |-> <<>>]
    /\ spoiled = {} /\ fault = {}

(***************************************************************************)
(* Memory of one object.                                                    *)
(***************************************************************************)
\* cleanup(): the arrays are deleted, the pointers to them are kept.
cleanup(o) == blocks' = Without(blocks, {arrays[o]})

\* init(): nothing when there are arrays already, which are then read as
\* they are; else one block for the four arrays.
init(o) ==
    IF arrays[o] # Null THEN UNCHANGED <<arrays, blocks, next>>
    ELSE /\ arrays' = [arrays EXCEPT ![o] = next]
         /\ blocks' = [b \in DOMAIN blocks \cup {next} |->
                          IF b = next THEN p[o] ELSE blocks[b]]
         /\ next' = next + 1

copy_from_ButLast(o, b) ==
    LET n == IF p[b] = <<>> THEN 0 ELSE Len(p[b]) - 1
        vs == SubSeq(Values(b), 1, n)
    IN /\ p' = [p EXCEPT ![o] = @ \o Ids(vs)]
       /\ heap' = Allocated(heap, vs)
       /\ next' = next + n
\* copy_from(): deep copies, appended to what o has.
copy_from(o, b) ==
    /\ p' = [p EXCEPT ![o] = @ \o Ids(p[b])]
    /\ heap' = Allocated(heap, Values(b))
    /\ next' = next + Len(p[b])

move_from_KeepsList(o, b) ==
    /\ p' = [p EXCEPT ![o] = p[b]]
    /\ arrays' = [arrays EXCEPT ![o] = arrays[b]]
\* The move constructor and operator=(parameters_t&&): the vector is moved,
\* the array pointers are copied; what o had is lost.
move_from(o, b) ==
    /\ p' = [p EXCEPT ![o] = p[b], ![b] = <<>>]
    /\ arrays' = [arrays EXCEPT ![o] = arrays[b]]

\* ~parameters_t: cleanup(true)
Destroyed(o) ==
    /\ alive' = alive \ {o}
    /\ p' = [p EXCEPT ![o] = <<>>]
    /\ arrays' = [arrays EXCEPT ![o] = Null]
    /\ heap' = Without(heap, ToSet(p[o]))
    /\ cleanup(o)
    /\ Undefined(o, ArraysGone(o) \/ ParamsGone(o))

(***************************************************************************)
(* The program.                                                             *)
(***************************************************************************)
Room(n) == next + n <= MaxNew

Construct(o) == /\ o \notin alive /\ alive' = alive \cup {o}
                /\ spoiled' = spoiled \ {o}
                /\ UNCHANGED <<p, arrays, heap, blocks, next, want, got, fault>>

\* types(), values(), lengths() and formats() make the arrays of a list of
\* the program, which then reads them.
types(o) ==
    /\ o \in alive /\ Room(1)
    /\ init(o)
    /\ Undefined(o, Unreadable(o))
    /\ UNCHANGED <<p, heap, alive, want, got, spoiled>>

push_back(o, v) ==
    /\ o \in alive /\ Room(1) /\ Len(p[o]) < MaxLen
    /\ cleanup(o) /\ Undefined(o, ArraysGone(o)) /\ Changed(o)
    /\ p' = [p EXCEPT ![o] = Append(@, next)]
    /\ heap' = Allocated(heap, <<v>>)
    /\ next' = next + 1
    /\ UNCHANGED <<arrays, alive, want, got>>

\* new_parameter throws: the list has lost its arrays only.
PushBackThrows(o) ==
    /\ o \in alive
    /\ cleanup(o) /\ Undefined(o, ArraysGone(o)) /\ Changed(o)
    /\ UNCHANGED <<p, arrays, heap, next, alive, want, got>>

\* "Index out of bound" otherwise, for this and the next two.
replace(o, pos, v) ==
    /\ o \in alive /\ pos \in DOMAIN p[o] /\ Room(1)
    /\ cleanup(o) /\ Undefined(o, ArraysGone(o) \/ p[o][pos] \notin DOMAIN heap) /\ Changed(o)
    /\ heap' = Allocated(Without(heap, {p[o][pos]}), <<v>>)
    /\ p' = [p EXCEPT ![o][pos] = next]
    /\ next' = next + 1
    /\ UNCHANGED <<arrays, alive, want, got>>

\* new_parameter throws: the old parameter is deleted, and still in the list.
ReplaceThrows(o, pos) ==
    /\ o \in alive /\ pos \in DOMAIN p[o]
    /\ cleanup(o) /\ Undefined(o, ArraysGone(o) \/ p[o][pos] \notin DOMAIN heap)
    /\ heap' = Without(heap, {p[o][pos]})
    /\ spoiled' = spoiled \cup {o}
    /\ UNCHANGED <<p, arrays, next, alive, want, got>>

\* The parameter is not deleted; the arrays stay.
remove_at(o, pos) ==
    /\ o \in alive /\ pos \in DOMAIN p[o]
    /\ p' = [p EXCEPT ![o] = RemoveAt(@, pos)]
    /\ Changed(o)
    /\ UNCHANGED <<arrays, heap, blocks, next, alive, want, got, fault>>

CopyConstruct(o, b) ==
    /\ o \notin alive /\ b \in alive /\ Room(Len(p[b]))
    /\ copy_from(o, b) /\ Undefined(b, ParamsGone(b))
    /\ alive' = alive \cup {o} /\ spoiled' = spoiled \ {o}
    /\ UNCHANGED <<arrays, blocks, want, got>>
CopyAssign(o, b) ==
    /\ {o, b} \subseteq alive /\ o # b
    /\ Room(Len(p[b])) /\ Len(p[o]) + Len(p[b]) <= MaxLen
    /\ copy_from(o, b) /\ Undefined(b, ParamsGone(b)) /\ Changed(o)
    /\ UNCHANGED <<arrays, blocks, alive, want, got>>
MoveAssign(o, b) ==
    /\ {o, b} \subseteq alive /\ o # b
    /\ move_from(o, b) /\ Moved(o, b)
    /\ UNCHANGED <<heap, blocks, next, alive, want, got, fault>>
Destroy(o) == o \in alive /\ Destroyed(o) /\ UNCHANGED <<next, want, got, spoiled>>

(***************************************************************************)
(* The tasks.                                                               *)
(***************************************************************************)
\* send_query(const parameters_t&) and send_query_prepared: _p = p
SendCopy(t, o) ==
    /\ t \notin alive /\ o \in alive /\ Room(Len(p[o]))
    /\ copy_from(t, o) /\ Undefined(o, ParamsGone(o))
    /\ alive' = alive \cup {t} /\ spoiled' = spoiled \ {t}
    /\ want' = [want EXCEPT ![t] = <<Values(o)>>]
    /\ UNCHANGED <<arrays, blocks, got>>
\* send_query(parameters_t&): _p = std::move(p)
SendMove(t, o) ==
    /\ t \notin alive /\ o \in alive
    /\ move_from(t, o) /\ Moved(t, o) /\ alive' = alive \cup {t}
    /\ want' = [want EXCEPT ![t] = <<Values(o)>>]
    /\ UNCHANGED <<heap, blocks, next, got, fault>>
\* PQsendQueryParams(_p.size(), _p.types(), _p.values(), ...); the task may
\* run again when the send failed.
Run(t) ==
    /\ t \in alive /\ Room(1)
    /\ init(t) /\ Undefined(t, Unreadable(t))
    /\ got' = IF Unreadable(t) THEN got
              ELSE [got EXCEPT ![t] = <<[i \in DOMAIN p[t] |-> heap[Entries(t)[i]]]>>]
    /\ UNCHANGED <<p, heap, alive, want, spoiled>>
TaskDone(t) ==
    /\ t \in alive /\ Destroyed(t)
    /\ want' = [want EXCEPT ![t] = <<>>] /\ got' = [got EXCEPT ![t] = <<>>]
    /\ UNCHANGED <<next, spoiled>>

Program(o) ==
    \/ Construct(o) \/ Destroy(o) \/ types(o) \/ PushBackThrows(o)
    \/ \E v \in Vals : push_back(o, v) \/ \E pos \in 1..MaxLen : replace(o, pos, v)
    \/ \E pos \in 1..MaxLen : ReplaceThrows(o, pos) \/ remove_at(o, pos)
    \/ \E b \in Objects : CopyConstruct(o, b) \/ CopyAssign(o, b) \/ MoveAssign(o, b)
    \/ \E t \in Tasks : SendCopy(t, o) \/ SendMove(t, o)
Next ==
    /\ fault = {}
    /\ \/ \E o \in Objects : Program(o)
       \/ \E t \in Tasks : Run(t) \/ TaskDone(t)

Spec == Init /\ [][Next]_vars

\* Lists of the program are alike, and so are the values.
Symmetry == Permutations(Objects) \cup Permutations(Vals)

(***************************************************************************)
(* Properties.                                                              *)
(***************************************************************************)
\* Of the copies, moves, replacements, sends and runs of the lists, in every
\* order, only two can lead to a parameter or an array that is deleted twice
\* or read when it is gone: a replace() whose new_parameter throws, and a
\* change or a move of a list that has its arrays, which types(), values(),
\* lengths() and formats() make. Every other list has its parameters and
\* arrays, and no two lists ever own one parameter.
MemorySafe ==
    /\ fault \subseteq spoiled
    /\ \A o \in alive \ spoiled : ~ParamsGone(o) /\ ~ArraysGone(o)
    /\ \A o \in alive : IsInjective(p[o])
    /\ \A o, b \in alive : o # b => ToSet(p[o]) \cap ToSet(p[b]) = {}

\* What libpq reads is what the program sent, whatever the program did with
\* its list since, and the arrays of a list are of the parameters it has; for
\* the lists that were not used in one of those two ways.
SentAsBuilt ==
    /\ \A t \in Tasks \ spoiled : got[t] # <<>> => got[t] = want[t]
    /\ \A o \in alive \ spoiled : Entries(o) = p[o]

=============================================================================
