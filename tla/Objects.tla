------------------------------- MODULE Objects -------------------------------
(***************************************************************************)
(* Objects, arrays and property names of the engine (getProperty,          *)
(* setProperty, growArray, vm_arrayPush, vm_objectKeys, toPropertyName and *)
(* toInternedString of microvium.c) over a heap that any allocation may    *)
(* collect: objects move, a chain of property lists becomes one list, and  *)
(* the storage of an array is cut to its length.                           *)
(*                                                                         *)
(* Next to the memory runs a shadow: what the objects at these addresses   *)
(* are for JavaScript, with the names of properties compared as texts.     *)
(***************************************************************************)
EXTENDS Naturals, Sequences, FiniteSets, SequencesExt, FiniteSetsExt

CONSTANTS
    Slots,            \* the number of variables of the program, which are roots
    TextOrder,        \* the texts there are, as memcmp orders their bytes
    RomTable,         \* the string table of the snapshot, as the compiler orders it
    Computed,         \* texts that a program computes
    Literal,          \* names that the program writes as literals
    InitialCapacity,  \* VM_ARRAY_INITIAL_CAPACITY
    MaxCapacity,      \* MAX_ALLOCATION_SIZE / 2
    MaxLive           \* bound: the number of allocations in use between two operations

ASSUME ObjectsAssumption ==
    /\ {Slots, InitialCapacity, MaxCapacity, MaxLive} \subseteq Nat \ {0}
    /\ ToSet(RomTable) \cup Computed \subseteq ToSet(TextOrder)
    /\ {"length", "__proto__"} \cap ToSet(RomTable) = {}

Slot == 1 .. Slots

\* The addresses of each half of the heap: an operation allocates at most twice.
Half == MaxLive + 2

\* Values.  A string in the ROM is named by its text; a property name is a
\* string, one of the two well-known names, or an index.
Undefined == <<"undefined", 0>>
Null      == <<"null", 0>>
Deleted   == <<"deleted", 0>>
StrLength == <<"length", 0>>
StrProto  == <<"__proto__", 0>>
Index(n)  == <<"int", n>>
Rom(t)    == <<"rom", t>>
Ptr(a)    == <<"ptr", a>>

\* The texts that have a value of their own: StrLength and StrProto.
WellKnown == {"length", "__proto__"}

\* A pointer to where no allocation is; no operation makes one.
Dangling  == <<"dangling", 0>>

IsPtr(v) == v[1] = "ptr"

VARIABLES
    mem,        \* address -> allocation
    slots,      \* the program's variables
    interned,   \* the builtin BIN_INTERNED_STRINGS: the first cell of the table in RAM
    failed,     \* whether the last operation ended the call with an error
    shadow      \* history: address -> what the object there is for JavaScript

vars == <<mem, slots, interned, failed, shadow>>

\* An operation works on a state of the VM: its variables and the stack slots
\* of its operands, which are roots too.
State(stack) ==
    [mem |-> mem, slots |-> slots, interned |-> interned, shadow |-> shadow, stack |-> stack]

-----------------------------------------------------------------------------
(* Allocations.                                                            *)

List(next, proto, props) == [type |-> "list", next |-> next, proto |-> proto, props |-> props]
Array(length, data)      == [type |-> "array", length |-> length, data |-> data]
Data(items)              == [type |-> "data", items |-> items]
String(type, text)       == [type |-> type, text |-> text]
Cell(next, str)          == [type |-> "cell", next |-> next, str |-> str]

\* The type of a value, as deepTypeOf tells it.
TypeOf(m, v) == IF IsPtr(v) THEN m[v[2]].type ELSE v[1]

ValuesIn(o) ==
    CASE o.type = "list"  ->
            <<o.next, o.proto>> \o [i \in 1 .. 2 * Len(o.props) |->
                                       o.props[(i + 1) \div 2][IF i % 2 = 1 THEN 1 ELSE 2]]
      [] o.type = "array" -> <<o.data>>
      [] o.type = "data"  -> o.items
      [] o.type = "cell"  -> <<o.next, o.str>>
      [] OTHER            -> <<>>

\* The chain of property lists that starts at address a, n lists long at most.
ChainUpTo(m, a) ==
    LET chain[n \in Nat] ==
            IF n = 0 THEN <<a>>
            ELSE LET before == chain[n - 1]
                     next   == m[Last(before)].next
                 IN  IF next = Null THEN before ELSE Append(before, next[2])
    IN  chain

Chain(m, a) == ChainUpTo(m, a)[Cardinality(DOMAIN m)]

\* The properties of these lists, one after the other.
PropsOf(m, lists) ==
    LET props[n \in Nat] == IF n = 0 THEN <<>> ELSE props[n - 1] \o m[lists[n]].props
    IN  props[Len(lists)]

AllProps(m, a) == PropsOf(m, Chain(m, a))

-----------------------------------------------------------------------------
(* Collection.                                                             *)

Roots(s) == ToSet(s.slots) \cup ToSet(s.stack) \cup {s.interned}

Targets(values) == {v[2] : v \in {w \in values : IsPtr(w)}}

Reachable(s) ==
    LET reach[n \in Nat] ==
            IF n = 0 THEN Targets(Roots(s)) \cap DOMAIN s.mem
            ELSE LET before == reach[n - 1]
                 IN  before \cup (Targets(UNION {ToSet(ValuesIn(s.mem[a])) : a \in before})
                                     \cap DOMAIN s.mem)
    IN  reach[Cardinality(DOMAIN s.mem)]

ChildLists(m, live) ==
    Targets({m[a].next : a \in {b \in live : m[b].type = "list"}})

\* Storage of an array without elements is not moved, see Compacted.
EmptyStorage(m, live) ==
    Targets({m[a].data : a \in {b \in live : m[b].type = "array" /\ m[b].length = 0}})

\* What a moved allocation looks like before its pointers are updated.
Compacted(m, a) ==
    CASE m[a].type = "list"  -> List(Null, m[a].proto, AllProps(m, a))
      [] m[a].type = "array" -> IF m[a].length = 0 THEN Array(0, Null) ELSE m[a]
      [] OTHER               -> m[a]

\* The length of the array that has the data at a, or all of it.
Kept(m, live, a) ==
    LET owners == {b \in live : m[b].type = "array" /\ m[b].data = Ptr(a)}
    IN  IF owners = {} THEN Len(m[a].items) ELSE m[CHOOSE b \in owners : TRUE].length

WithPointers(o, F(_)) ==
    CASE o.type = "list"  -> List(F(o.next), F(o.proto),
                                  [i \in DOMAIN o.props |-> <<F(o.props[i][1]), F(o.props[i][2])>>])
      [] o.type = "array" -> Array(o.length, F(o.data))
      [] o.type = "data"  -> Data([i \in DOMAIN o.items |-> F(o.items[i])])
      [] o.type = "cell"  -> Cell(F(o.next), F(o.str))
      [] OTHER            -> o

Base(m) == IF \E a \in DOMAIN m : a > Half THEN Half ELSE 0

\* The state with the allocations that are listed in from, and nothing else, moved
\* to the addresses after base in this order, where Body(a) is what becomes of a.
Moved(s, from, base, Body(_)) ==
    LET F(v)  == IF ~IsPtr(v) THEN v
                 ELSE IF v[2] \notin ToSet(from) THEN Dangling
                 ELSE Ptr(base + CHOOSE i \in DOMAIN from : from[i] = v[2])
        To(a) == F(Ptr(a))[2]
        Js(a) == IF s.mem[a].type = "list"
                 THEN [props |-> [i \in DOMAIN s.shadow[a].props |->
                                     <<s.shadow[a].props[i][1], F(s.shadow[a].props[i][2])>>],
                       proto |-> F(s.shadow[a].proto)]
                 ELSE [i \in DOMAIN s.shadow[a] |-> F(s.shadow[a][i])]
    IN  [mem      |-> [b \in base + 1 .. base + Len(from) |->
                          WithPointers(Body(from[b - base]), F)],
         slots    |-> [x \in Slot |-> F(s.slots[x])],
         stack    |-> [i \in DOMAIN s.stack |-> F(s.stack[i])],
         interned |-> F(s.interned),
         shadow   |-> [b \in {To(a) : a \in ToSet(from) \cap DOMAIN s.shadow} |->
                          Js(from[b - base])]]

Collected(s) ==
    LET live    == Reachable(s)
        moved   == live \ (ChildLists(s.mem, live) \cup EmptyStorage(s.mem, live))
        from    == SelectSeq([i \in 1 .. 2 * Half |-> i], LAMBDA a : a \in moved)
        Body(a) == IF s.mem[a].type = "data"
                   THEN Data(SubSeq(s.mem[a].items, 1, Kept(s.mem, live, a)))
                   ELSE Compacted(s.mem, a)
    IN  Moved(s, from, Half - Base(s.mem), Body)

Placed(s, o) ==
    LET free == {a \in (Base(s.mem) + 1) .. (Base(s.mem) + Half) : a \notin DOMAIN s.mem}
    IN  [s |-> [s EXCEPT !.mem = (Min(free) :> o) @@ @], at |-> Min(free)]

\* mvm_allocate, with or without a collection: the state after it and the address.
Allocate(s, o, collects) == Placed(IF collects THEN Collected(s) ELSE s, o)

\* No operation depends on an address or on what is not reachable, so that between
\* two operations the allocations are numbered as they are found from the roots.
Visited(s) ==
    LET Unseen(values, seen) ==
            LET new[n \in Nat] ==
                    IF n = 0 THEN seen
                    ELSE LET before == new[n - 1]
                         IN  IF IsPtr(values[n]) /\ values[n][2] \in DOMAIN s.mem \ ToSet(before)
                             THEN Append(before, values[n][2]) ELSE before
            IN  new[Len(values)]
        visit[n \in Nat] ==
            IF n = 0 THEN Unseen(Append(s.slots, s.interned), <<>>)
            ELSE LET before == visit[n - 1]
                 IN  IF n > Len(before) THEN before
                     ELSE Unseen(ValuesIn(s.mem[before[n]]), before)
    IN  visit[Cardinality(DOMAIN s.mem)]

Numbered(s) == LET Body(a) == s.mem[a] IN Moved(s, Visited(s), 0, Body)

-----------------------------------------------------------------------------
(* Property names.  The operands of an operation are on the stack: the     *)
(* object, the name and the value.                                         *)

Object(s) == s.stack[1]
Name(s)   == s.stack[2]
Value(s)  == s.stack[3]

\* The cells of the table in RAM.
Table(s) ==
    LET cells[n \in Nat] ==
            IF n = 0 THEN <<>>
            ELSE LET before == cells[n - 1]
                     next   == IF before = <<>> THEN s.interned ELSE s.mem[Last(before)].next
                 IN  IF next = Undefined THEN before ELSE Append(before, next[2])
    IN  cells[Cardinality(DOMAIN s.mem)]

Matches(s, text) ==
    {s.mem[c].str : c \in {d \in ToSet(Table(s)) :
        IsPtr(s.mem[d].str) /\ s.mem[s.mem[d].str[2]].text = text}}

\* Mutant of Enter: the address of the string is from before the allocation.
EnterStale(s, a, collects) ==
    LET r == Allocate([s EXCEPT !.mem[a].type = "interned"], Cell(Undefined, Undefined), collects)
    IN  [r.s EXCEPT !.mem[r.at] = Cell(r.s.interned, Ptr(a)), !.interned = Ptr(r.at)]

\* memcmp, and the comparison of the sizes behind it.
Precedes(t, u) ==
    \E i, j \in DOMAIN TextOrder : i < j /\ TextOrder[i] = t /\ TextOrder[j] = u

\* Mutant of InRom: the search ends while one string is left.
InRomOffByOne(text) ==
    LET finds[first \in 1 .. Len(RomTable) + 1, last \in 0 .. Len(RomTable)] ==
            LET middle == (first + last) \div 2
            IN  /\ first < last
                /\ \/ text = RomTable[middle]
                   \/ Precedes(RomTable[middle], text) /\ finds[middle + 1, last]
                   \/ Precedes(text, RomTable[middle]) /\ finds[first, middle - 1]
    IN  finds[1, Len(RomTable)]

\* The binary search in the string table of the snapshot.
InRom(text) ==
    LET finds[first \in 1 .. Len(RomTable) + 1, last \in 0 .. Len(RomTable)] ==
            LET middle == (first + last) \div 2
            IN  /\ first <= last
                /\ \/ text = RomTable[middle]
                   \/ Precedes(RomTable[middle], text) /\ finds[middle + 1, last]
                   \/ Precedes(text, RomTable[middle]) /\ finds[first, middle - 1]
    IN  finds[1, Len(RomTable)]

\* The walk through the table in RAM takes the word of each cell for an address: with
\* a well-known name in a cell in front of the match its effect is not defined.
WalkIsDefined(s, text) ==
    LET Str(i) == s.mem[Table(s)[i]].str
    IN  \A i \in DOMAIN Table(s) :
            \/ Str(i) \notin {StrLength, StrProto}
            \/ \E j \in 1 .. i - 1 : Str(j) \in Matches(s, text)

\* The string at a, which is in no table, becomes an interned one, and what the
\* operand is now is put in a new cell.
Enter(s, a, collects) ==
    LET r == Allocate([s EXCEPT !.mem[a].type = "interned"], Cell(Undefined, Undefined), collects)
    IN  [r.s EXCEPT !.mem[r.at] = Cell(r.s.interned, Name(r.s)), !.interned = Ptr(r.at)]

\* When the text is that of a well-known name the search goes on nevertheless.
ToInternedString(s, collects) ==
    LET a     == Name(s)[2]
        text  == s.mem[a].text
        known == IF text \in WellKnown THEN [s EXCEPT !.stack[2] = <<text, 0>>] ELSE s
    IN  IF InRom(text) THEN [s EXCEPT !.stack[2] = Rom(text)]
        ELSE IF Matches(s, text) # {}
             THEN [s EXCEPT !.stack[2] = CHOOSE v \in Matches(s, text) : TRUE]
             ELSE Enter(known, a, collects)

\* What toPropertyName accepts.
IsName(s) ==
    \/ TypeOf(s.mem, Name(s)) \in {"int", "rom", "interned", "length", "__proto__"}
    \/ /\ TypeOf(s.mem, Name(s)) = "string"
       /\ LET text == s.mem[Name(s)[2]].text IN InRom(text) \/ WalkIsDefined(s, text)

ToPropertyName(s, collects) ==
    IF TypeOf(s.mem, Name(s)) = "string" THEN ToInternedString(s, collects) ELSE s

\* A value as JavaScript compares it: strings with the same text are the same.
NameOf(s, v) ==
    IF TypeOf(s.mem, v) \in {"string", "interned"}
    THEN LET text == s.mem[v[2]].text IN IF text \in WellKnown THEN <<text, 0>> ELSE Rom(text)
    ELSE v

-----------------------------------------------------------------------------
(* Reading a property.                                                     *)

\* An object, its prototype, the prototype of that, and so on.
Prototypes(m, a) ==
    LET heads[n \in Nat] ==
            IF n = 0 THEN <<a>>
            ELSE LET before == heads[n - 1]
                     proto  == m[Last(before)].proto
                 IN  IF proto = Null THEN before ELSE Append(before, proto[2])
    IN  heads[Cardinality(DOMAIN m)]

\* The properties in the order in which getProperty goes through them.
Search(m, a) ==
    LET heads == Prototypes(m, a)
        props[n \in Nat] == IF n = 0 THEN <<>> ELSE props[n - 1] \o AllProps(m, heads[n])
    IN  props[Len(heads)]

FirstValue(props, name) ==
    LET hits == {i \in DOMAIN props : props[i][1] = name}
    IN  IF hits = {} THEN Undefined ELSE props[Min(hits)][2]

\* An element of an array of this length, whose storage is items.
Element(items, length, name) ==
    IF name = StrLength THEN Index(length)
    ELSE IF name = StrProto THEN Null
    ELSE IF name[1] # "int" \/ name[2] >= length THEN Undefined
    ELSE IF items[name[2] + 1] = Deleted THEN Undefined
    ELSE items[name[2] + 1]

Items(m, a) == IF m[a].data = Null THEN <<>> ELSE m[m[a].data[2]].items

Readable(s) == TypeOf(s.mem, Object(s)) \in {"list", "array", "data"}

Read(s) ==
    LET a == Object(s)[2]
    IN  CASE s.mem[a].type = "list"  -> IF Name(s) = StrProto THEN s.mem[a].proto
                                        ELSE FirstValue(Search(s.mem, a), Name(s))
          [] s.mem[a].type = "array" -> Element(Items(s.mem, a), s.mem[a].length, Name(s))
          [] s.mem[a].type = "data"  -> Element(s.mem[a].items, Len(s.mem[a].items), Name(s))

\* What JavaScript reads: the nearest object of the prototype chain that has the name.
JsRead(s) ==
    LET a     == Object(s)[2]
        name  == NameOf(s, Name(s))
        chain == Prototypes(s.shadow, a)
    IN  IF s.mem[a].type # "list" THEN Element(s.shadow[a], Len(s.shadow[a]), name)
        ELSE IF name = StrProto THEN s.shadow[a].proto
        ELSE FirstValue(PropsOf(s.shadow, chain), name)

\* What the state s becomes between two operations, and how the operation ended.
Ends(s, err) ==
    \E p \in {Numbered([s EXCEPT !.stack = <<>>])} :
        /\ Cardinality(DOMAIN p.mem) <= MaxLive
        /\ mem' = p.mem /\ slots' = p.slots /\ interned' = p.interned /\ shadow' = p.shadow
        /\ failed' = err

Finish(s) == Ends(s, FALSE)

\* The argument gc of an operation says which of its allocations collects, 0 for
\* none; a name may have to be interned.
Collections(name) == IF TypeOf(mem, name) = "string" THEN 0 .. 1 ELSE {0}

GetProperty(x, y, name, gc) ==
    LET s == ToPropertyName(State(<<slots[y], name>>), gc = 1)
    IN  /\ IsName(State(<<slots[y], name>>))
        /\ Readable(s) /\ Finish([s EXCEPT !.slots[x] = Read(s)])

-----------------------------------------------------------------------------
(* Writing a property of an object.                                        *)

\* The lists of the chain at a that have the name.
Found(m, a, name) ==
    {l \in ToSet(Chain(m, a)) : \E i \in DOMAIN m[l].props : m[l].props[i][1] = name}

Overwritten(s) ==
    LET l == CHOOSE f \in Found(s.mem, Object(s)[2], Name(s)) : TRUE
    IN  [s EXCEPT !.mem[l].props = [i \in DOMAIN @ |->
            IF @[i][1] = Name(s) THEN <<Name(s), Value(s)>> ELSE @[i]]]

\* A cell for the property is put behind the last list, which is looked up
\* again after the allocation.
Appended(s, collects) ==
    LET r    == Allocate(s, List(Null, Null, <<>>), collects)
        last == Last(Chain(r.s.mem, Object(r.s)[2]))
    IN  [r.s EXCEPT !.mem[r.at] = List(Null, Null, <<<<Name(r.s), Value(r.s)>>>>),
                    !.mem[last].next = Ptr(r.at)]

\* For JavaScript the object has the property now.
JsSet(s) ==
    LET a    == Object(s)[2]
        name == NameOf(s, Name(s))
        hits == {i \in DOMAIN s.shadow[a].props : s.shadow[a].props[i][1] = name}
    IN  IF hits = {} THEN [s EXCEPT !.shadow[a].props = Append(@, <<name, Value(s)>>)]
        ELSE [s EXCEPT !.shadow[a].props[Min(hits)][2] = Value(s)]

PropertySet(s, collects) ==
    JsSet(IF Found(s.mem, Object(s)[2], Name(s)) # {} THEN Overwritten(s) ELSE Appended(s, collects))

\* To set "__proto__" of an object is not implemented, a fatal error.
SetOnList(x, name, v, gc) ==
    LET before == State(<<slots[x], name, v>>)
        s      == ToPropertyName(before, gc = 1)
    IN  /\ TypeOf(mem, slots[x]) = "list"
        /\ IsName(before) /\ Name(s) # StrProto
        /\ Finish(PropertySet(s, gc = 2))

-----------------------------------------------------------------------------
(* Writing to an array.                                                    *)

Holes(n) == [i \in 1 .. n |-> Deleted]

\* The elements that are there, and holes behind them.
Storage(old, capacity) == old \o Holes(capacity - Len(old))

\* growArray: the array is the object of the operation.
GrowArray(s, length, capacity, collects) ==
    LET r   == Allocate(s, Data(<<>>), collects)
        arr == Object(r.s)[2]
    IN  [r.s EXCEPT !.mem[r.at] = Data(Storage(Items(r.s.mem, arr), capacity)),
                    !.mem[arr] = Array(length, Ptr(r.at))]

\* The items that are not reachable any more are wiped.
Shrunk(s, length) ==
    LET arr  == Object(s)[2]
        data == s.mem[arr].data[2]
    IN  [s EXCEPT !.mem[arr].length = length,
                  !.mem[data].items = [i \in DOMAIN @ |->
                      IF i \in (length + 1) .. s.mem[arr].length THEN Deleted ELSE @[i]]]

\* An array whose length is assigned.  With the length that it has, the code does
\* nothing, and then runs into the error for names that are no index.
Resized(s, n, collects) ==
    LET arr == Object(s)[2]
    IN  IF n < s.mem[arr].length THEN Shrunk(s, n)
        ELSE IF n = s.mem[arr].length THEN s
        ELSE IF n <= Len(Items(s.mem, arr)) THEN [s EXCEPT !.mem[arr].length = n]
        ELSE GrowArray(s, n, n, collects)

\* For JavaScript: the elements that are left, and holes behind them.
JsResize(s, n) ==
    LET a == Object(s)[2]
    IN  [s EXCEPT !.shadow[a] = SubSeq(@, 1, Min({n, Len(@)})) \o Holes(n - Min({n, Len(@)}))]

SetLength(x, name, n, gc) ==
    LET s == ToPropertyName(State(<<slots[x], name, Index(n)>>), gc = 1)
    IN  /\ TypeOf(mem, slots[x]) = "array"
        /\ IsName(State(<<slots[x], name>>)) /\ Name(s) = StrLength
        /\ Ends(JsResize(Resized(s, n, gc = 2), n), n = s.mem[Object(s)[2]].length)

\* The capacity that an array gets when an element does not fit.
NewCapacity(s, length) == Max({2 * Len(Items(s.mem, Object(s)[2])), InitialCapacity, length})

\* Room for the element at place i, counted from 1; a longer array is a fatal error.
Expanded(s, i, collects) ==
    LET arr == Object(s)[2]
    IN  IF i <= s.mem[arr].length THEN s
        ELSE IF i <= Len(Items(s.mem, arr)) THEN [s EXCEPT !.mem[arr].length = i]
        ELSE GrowArray(s, i, NewCapacity(s, i), collects)

\* Mutant of Stored: the value is from before the array was expanded.
StoredStale(before, s, i) ==
    [s EXCEPT !.mem[s.mem[Object(s)[2]].data[2]].items[i] = Value(before)]

\* The value and the array are read again from the stack.
Stored(before, s, i) ==
    [s EXCEPT !.mem[s.mem[Object(s)[2]].data[2]].items[i] = Value(s)]

\* For JavaScript: what was left out in front of the element are holes.
JsStore(s, i) ==
    LET a == Object(s)[2]
    IN  [s EXCEPT !.shadow[a] =
            [j \in 1 .. Max({i, Len(@)}) |->
                IF j = i THEN Value(s) ELSE IF j <= Len(@) THEN @[j] ELSE Deleted]]

ElementSet(before, i, collects) ==
    LET s == Expanded(before, i, collects) IN JsStore(Stored(before, s, i), i)

Fits(s, i) == i <= Len(Items(s.mem, Object(s)[2])) \/ NewCapacity(s, i) <= MaxCapacity

SetElement(x, i, v, gc) ==
    LET before == State(<<slots[x], Index(i - 1), v>>)
    IN  /\ TypeOf(mem, slots[x]) = "array" /\ Fits(before, i)
        /\ Finish(ElementSet(before, i, gc = 1))

\* To set a property of an array with a name that is no index and not "length" is an
\* error, found when the name is interned.
SetFails(x, name, gc) ==
    LET s == ToPropertyName(State(<<slots[x], name>>), gc = 1)
    IN  /\ TypeOf(mem, slots[x]) = "array"
        /\ IsName(State(<<slots[x], name>>))
        /\ Name(s) # StrLength /\ Name(s)[1] # "int"
        /\ Ends(s, TRUE)

\* Room for one more element; storage grows only if it is full.
Pushed(before, collects) ==
    LET length == before.mem[Object(before)[2]].length
        s      == IF length < Len(Items(before.mem, Object(before)[2])) THEN before
                  ELSE GrowArray(before, length + 1, NewCapacity(before, 0), collects)
        t      == Stored(before, s, length + 1)
    IN  JsStore([t EXCEPT !.mem[Object(t)[2]].length = length + 1], length + 1)

ArrayPush(x, v, gc) ==
    LET before == State(<<slots[x], Undefined, v>>)
    IN  /\ TypeOf(mem, slots[x]) = "array" /\ Fits(before, mem[slots[x][2]].length + 1)
        /\ Finish(Pushed(before, gc = 1))

-----------------------------------------------------------------------------
(* New objects.                                                            *)

Keys(before, x, collects) ==
    LET r     == Allocate(before, Data(<<>>), collects)
        obj   == Object(r.s)[2]
        props == AllProps(r.s.mem, obj)
        names == r.s.shadow[obj].props
    IN  [r.s EXCEPT !.mem[r.at] = Data([i \in DOMAIN props |-> props[i][1]]),
                    !.shadow = (r.at :> [i \in DOMAIN names |-> names[i][1]]) @@ @,
                    !.slots[x] = Ptr(r.at)]

ObjectKeys(x, y, gc) ==
    /\ TypeOf(mem, slots[y]) = "list"
    /\ Finish(Keys(State(<<slots[y]>>), x, gc = 1))

\* An object whose prototype is on the stack.
ObjectNew(before, x, collects) ==
    LET r == Allocate(before, List(Null, Null, <<>>), collects)
    IN  [r.s EXCEPT !.mem[r.at].proto = Object(r.s),
                    !.shadow = (r.at :> [props |-> <<>>, proto |-> Object(r.s)]) @@ @,
                    !.slots[x] = Ptr(r.at)]

\* {} has no prototype; an object that a class constructs has the class's.
NewObject(x, y, gc) ==
    /\ TypeOf(mem, slots[y]) \in {"null", "list"}
    /\ Finish(ObjectNew(State(<<slots[y]>>), x, gc = 1))

\* The array is on the stack when its storage is allocated.
ArrayNew(before, x, capacity, gc) ==
    LET r == Allocate(before, Array(0, Null), gc = 1)
        s == [r.s EXCEPT !.stack = <<Ptr(r.at)>>, !.shadow = (r.at :> <<>>) @@ @]
        t == IF capacity = 0 THEN s ELSE GrowArray(s, 0, capacity, gc = 2)
    IN  [t EXCEPT !.slots[x] = Object(t)]

NewArray(x, capacity, gc) == Finish(ArrayNew(State(<<>>), x, capacity, gc))

\* A string that the program computes is never an interned one.
StringNew(before, x, text, collects) ==
    LET r == Allocate(before, String("string", text), collects)
    IN  [r.s EXCEPT !.slots[x] = Ptr(r.at)]

NewString(x, text, gc) == Finish(StringNew(State(<<>>), x, text, gc = 1))

\* The program forgets what a variable holds.
Drop(x) == Finish([State(<<>>) EXCEPT !.slots[x] = Null])

-----------------------------------------------------------------------------

Names == Literal \cup ToSet(slots)

Init ==
    /\ mem = <<>>
    /\ slots = [x \in Slot |-> Null]
    /\ interned = Undefined
    /\ failed = FALSE
    /\ shadow = <<>>

Next ==
    \/ \E x, y \in Slot, name \in Names : \E gc \in Collections(name) : GetProperty(x, y, name, gc)
    \/ \E x, z \in Slot, name \in Names : \E gc \in Collections(name) \cup {2} :
            SetOnList(x, name, slots[z], gc)
    \/ \E x \in Slot, name \in Names \cup {StrLength}, n \in 0 .. MaxCapacity :
        \E gc \in Collections(name) \cup {2} :
            SetLength(x, name, n, gc)
    \/ \E x, z \in Slot, i \in 1 .. MaxCapacity, gc \in 0 .. 1 : SetElement(x, i, slots[z], gc)
    \/ \E x \in Slot, name \in Names : \E gc \in Collections(name) : SetFails(x, name, gc)
    \/ \E x, z \in Slot, gc \in 0 .. 1 : ArrayPush(x, slots[z], gc)
    \/ \E x, y \in Slot, gc \in 0 .. 1 : ObjectKeys(x, y, gc)
    \/ \E x, y \in Slot, gc \in 0 .. 1 : NewObject(x, y, gc)
    \/ \E x \in Slot, capacity \in {0, InitialCapacity}, gc \in 0 .. 2 : NewArray(x, capacity, gc)
    \/ \E x \in Slot, text \in Computed, gc \in 0 .. 1 : NewString(x, text, gc)
    \/ \E x \in Slot : Drop(x)

Spec == Init /\ [][Next]_vars

-----------------------------------------------------------------------------
(* Properties.                                                             *)

\* The values that are property names as they are.
PropertyNames ==
    LET values == UNION {ToSet(ValuesIn(mem[a])) : a \in DOMAIN mem} \cup ToSet(slots)
    IN  {StrLength, StrProto} \cup {Rom(t) : t \in ToSet(RomTable)}
            \cup {v \in values : TypeOf(mem, v) = "interned"}

Unique(names) ==
    LET Text(v) == NameOf(State(<<>>), v) IN \A v, w \in names : Text(v) = Text(w) => v = w

\* No text of a well-known name has been interned beside it, see NamesAreUnique.  Then a
\* property with that name is stored under the one and read under the other value.
KnownNamesAreUnique ==
    Unique({v \in PropertyNames : NameOf(State(<<>>), v) \in {StrLength, StrProto}})

\* Every object and array in memory has for the engine the properties, the
\* elements and the prototype it has for JavaScript, with each name once in its
\* chain of lists and in the order in which the names were added, and what storage
\* an array has behind its length is holes, which is what setProperty counts on
\* when the length grows.
ObjectsAgree == KnownNamesAreUnique =>
    LET Same(v) == NameOf(State(<<>>), v)
    IN  \A a \in DOMAIN shadow :
            CASE mem[a].type = "list"  ->
                    LET props == AllProps(mem, a)
                    IN  /\ mem[a].proto = shadow[a].proto
                        /\ [i \in DOMAIN props |-> <<Same(props[i][1]), props[i][2]>>]
                           = shadow[a].props
              [] mem[a].type = "array" ->
                    Items(mem, a) = Storage(shadow[a], Len(Items(mem, a)))
              [] mem[a].type = "data"  ->
                    [i \in DOMAIN mem[a].items |-> Same(mem[a].items[i])] = shadow[a]

\* Reading any property now would give what JavaScript gives, the nearest object
\* of the prototype chain that has it, also when the name is a string that first
\* has to be interned, and when that collects.
ReadsAgree == KnownNamesAreUnique =>
    \A y \in Slot,
       name \in Names \cup {StrLength, StrProto} \cup {Index(i) : i \in 0 .. MaxCapacity} :
    \A gc \in Collections(name) :
        LET s == ToPropertyName(State(<<slots[y], name>>), gc = 1)
        IN  TypeOf(mem, slots[y]) \in {"list", "array", "data"}
                /\ IsName(State(<<slots[y], name>>)) =>
                    Readable(s) /\ NameOf(s, Read(s)) = NameOf(s, JsRead(s))

\* Two property names with the same text are the same value: "We can do direct comparison
\* because the strings have been interned" (microvium.c:6192).
NamesAreUnique == Unique(PropertyNames)

\* A text other than "length" and "__proto__" has one value as a property name, whatever
\* strings are interned, found in ROM or RAM and collected.
OrdinaryNamesAreUnique ==
    Unique({v \in PropertyNames : NameOf(State(<<>>), v) \notin {StrLength, StrProto}})

\* "Do nothing" (microvium.c:6307): to assign a length to an array is never an error.
LengthIsAssignable ==
    [][\A x \in Slot, n \in 0 .. MaxCapacity, gc \in {0, 2} :
        SetLength(x, StrLength, n, gc) => ~failed']_vars
=============================================================================
