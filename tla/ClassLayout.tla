---------------------------- MODULE ClassLayout ----------------------------
(***************************************************************************)
(* How the linker lays out the classes of a module: LinkClasses() of       *)
(* linker.cpp, which makes them in the order of the module, and the        *)
(* constructor of oop/class.cpp, which gives every field its offset, lists *)
(* the runs of references the collector visits, and fills the virtual      *)
(* table.                                                                  *)
(*                                                                         *)
(* A class is declared by [super, fields, methods]: the number of its      *)
(* superclass in the module, 0 for none; the types of its fields; the      *)
(* names of its methods.  The lists of runs and the tables are in the      *)
(* module's arena, which is modelled as words of 8 bytes because the code  *)
(* writes one of those lists outside what it allocated.                    *)
(*                                                                         *)
(* A superclass may belong to another module, which is ready by then       *)
(* (linker.cpp:117): such a module's classes stand in front of the others  *)
(* in the same sequence, laid out in the same order, and the two arenas    *)
(* are taken as one.  The type IDs of fields, which nothing validates, are *)
(* those of types: another would index outside the buckets.                *)
(***************************************************************************)
EXTENDS Instructions

CONSTANTS
    Garbage,   \* the size of a class that has not been laid out yet
    Address    \* a word of the arena that is a pointer or other data

ASSUME LayoutAssumption == Garbage \in Nat /\ Address \in Nat \ {0}

(* An operator named M... is a mutant of a definition below it, a bug the  *)
(* code could have had; no specification uses it.                          *)

AlignUp(value, alignment) == ((value + (alignment - 1)) \div alignment) * alignment

(* So many classes with fields of real types and any names of methods,     *)
(* also the same name more than once; a superclass is one of them.         *)
Declarations(classes) ==
    Seq([super : 0 .. classes, fields : Seq(Type), methods : Seq(STRING)])

(* What a declared class starts as.                                        *)
Unlinked == [linked |-> FALSE, size |-> Garbage, offsets |-> <<>>,
             regions |-> [at |-> 0, count |-> 0], vtable |-> <<>>, slots |-> <<>>]

(* The module while it is linked.                                          *)
Start(declared) == [memory |-> <<>>, used |-> 0, crashed |-> FALSE,
                    classes |-> [i \in DOMAIN declared |-> Unlinked]]

Super(l, class) == l.classes[class.super]

-----------------------------------------------------------------------------
(* Words of the arena                                                      *)

Word8(l, at) == IF at \in DOMAIN l.memory THEN l.memory[at] ELSE 0

(* words at, at + 1, ...                                                   *)
Put(l, at, words) ==
    [l EXCEPT !.memory = [a \in DOMAIN @ \union at .. (at + Len(words) - 1) |->
                             IF a >= at /\ a < at + Len(words) THEN words[a - at + 1] ELSE @[a]]]

(* Blocks are of two words.                                                *)
Reserve(l, words) == [l EXCEPT !.used = @ + AlignUp(words, 2)]

(* An allocation that is filled with what no list of runs holds.           *)
Filled(l, words) == Reserve(Put(l, l.used, [k \in 1 .. words |-> Address]), words)

-----------------------------------------------------------------------------
(* orderFieldBuckets(): by type, in the order below, each run of fields of *)
(* one type in the order of their declaration.                             *)
BucketOrder == <<"Reference", "Handle", "ModuleRef", "ClassRef", "FieldRef", "MethodRef",
                 "FunctionRef", "Double", "ULong", "Long", "Float", "UInt", "Int", "UShort",
                 "Short", "UByte", "Byte">>

Rank(t)   == CHOOSE k \in DOMAIN BucketOrder : BucketOrder[k] = t
Size(t)   == GetPrimitiveSizeForType(t)
Before(fields, j) == {k \in DOMAIN fields : \/ Rank(fields[k]) < Rank(fields[j])
                                            \/ fields[k] = fields[j] /\ k < j}
BytesOf(fields, S) == MapThenSumSet(LAMBDA k : Size(fields[k]), S)

MBaseUnaligned(l, class) == IF class.super = 0 THEN 0 ELSE Super(l, class).size

(* Where the fields of a class begin: behind those of its superclass.      *)
Base(l, class) == AlignUp(IF class.super = 0 THEN 0 ELSE Super(l, class).size, 8)

Offsets(l, class) ==
    [j \in DOMAIN class.fields |-> Base(l, class) + BytesOf(class.fields, Before(class.fields, j))]

MemorySize(l, class) == Base(l, class) + BytesOf(class.fields, DOMAIN class.fields)

References(class) == {j \in DOMAIN class.fields : class.fields[j] = "Reference"}

(* The runs a list holds: words [offset, number].                          *)
RegionWords(l, regions) == [k \in 1 .. (2 * regions.count) |-> Word8(l, regions.at + k - 1)]

(* sortFields(), the list of runs.  A class with references of its own and *)
(* a superclass asks for room for the superclass's runs only, moves past   *)
(* the first and writes one more.                                          *)
OwnRegion(l, class) ==
    [at |-> l.used + IF class.super = 0 THEN 0 ELSE 2,
     count |-> 1 + IF class.super = 0 THEN 0 ELSE Super(l, class).regions.count]
InheritedRegion(l, class) ==
    [at |-> l.used, count |-> IF class.super = 0 THEN 0 ELSE Super(l, class).regions.count]

Regions(l, class) == IF References(class) # {} THEN OwnRegion(l, class)
                     ELSE InheritedRegion(l, class)

PutRegions(l, class) ==
    LET inherited == IF class.super = 0 THEN <<>> ELSE RegionWords(l, Super(l, class).regions)
        own == IF References(class) = {} THEN <<>>
               ELSE <<Base(l, class), Cardinality(References(class))>>
        room == IF class.super = 0 THEN Len(own) ELSE Len(inherited)
    IN  Reserve(Put(l, Regions(l, class).at, inherited \o own), room)

-----------------------------------------------------------------------------
(* createVtable(): an entry is the class and number of a method.           *)

Entry(i, j) == [class |-> i, method |-> j]

NameOf(declared, entry) == declared[entry.class].methods[entry.method]

SlotsNamed(declared, vtable, name) == {s \in DOMAIN vtable : NameOf(declared, vtable[s]) = name}

(* The slot find_if() stops at.                                            *)
SlotOf(declared, vtable, name) == Min(SlotsNamed(declared, vtable, name))

(* A method the superclass does not have is looked for in slots that are   *)
(* still null: a null pointer is used.                                     *)
New(declared, l, i) ==
    {j \in DOMAIN declared[i].methods :
        SlotsNamed(declared, Super(l, declared[i]).vtable, declared[i].methods[j]) = {}}

MAppendsOverride(declared, l, i) ==
    Super(l, declared[i]).vtable \o [j \in DOMAIN declared[i].methods |-> Entry(i, j)]

(* Of methods of one name the last is left in the first slot of the name.  *)
Override(declared, l, i) ==
    LET inherited == Super(l, declared[i]).vtable
        mine(s) == {j \in DOMAIN declared[i].methods :
                       /\ declared[i].methods[j] = NameOf(declared, inherited[s])
                       /\ s = SlotOf(declared, inherited, declared[i].methods[j])}
    IN  [s \in DOMAIN inherited |-> IF mine(s) = {} THEN inherited[s]
                                    ELSE Entry(i, Max(mine(s)))]

Vtable(declared, l, i) ==
    IF declared[i].super = 0 THEN [j \in DOMAIN declared[i].methods |-> Entry(i, j)]
    ELSE Override(declared, l, i)

(* vtableIndex: the constructor of a class without a superclass leaves the *)
(* 0 of a new Method.                                                      *)
VtableIndexes(declared, l, i) ==
    [j \in DOMAIN declared[i].methods |->
        IF declared[i].super = 0 THEN 0
        ELSE SlotOf(declared, Super(l, declared[i]).vtable, declared[i].methods[j]) - 1]

(* One class of LinkClasses(): its fields and methods of three words each, *)
(* its runs, its table, and then the class takes its place.                *)
LinkClass(declared, l, i) ==
    LET class  == declared[i]
        made   == Filled(Filled(l, 3 * Len(class.fields)), 3 * Len(class.methods))
        linked == [linked |-> TRUE, size |-> MemorySize(made, class),
                   offsets |-> Offsets(made, class), regions |-> Regions(made, class),
                   vtable |-> Vtable(declared, made, i), slots |-> VtableIndexes(declared, made, i)]
        crash  == class.super # 0 /\ New(declared, l, i) # {}
    IN  IF l.crashed \/ crash THEN [l EXCEPT !.crashed = TRUE]
        ELSE [Filled(PutRegions(made, class), Len(linked.vtable)) EXCEPT
                 !.classes = [k \in DOMAIN @ |-> IF k = i THEN linked ELSE @[k]]]

LinkClasses(declared) ==
    LET after[i \in 0 .. Len(declared)] ==
            IF i = 0 THEN Start(declared) ELSE LinkClass(declared, after[i - 1], i)
    IN  after[Len(declared)]

-----------------------------------------------------------------------------
(* What the classes are used for                                           *)

(* isAssignableTo(): a class and its superclasses, from the class up.      *)
Chain(declared, i) ==
    LET up[n \in 0 .. Len(declared)] ==
            IF n = 0 THEN <<i>>
            ELSE LET last == up[n - 1][Len(up[n - 1])]
                 IN  IF declared[last].super = 0 THEN up[n - 1]
                     ELSE Append(up[n - 1], declared[last].super)
    IN  up[Len(declared)]

IsAssignableTo(declared, i, j) == j \in Range(Chain(declared, i))

(* The fields of an instance, its own and those it inherits.               *)
FieldsOf(declared, i) == UNION {{d} \X DOMAIN declared[d].fields : d \in Range(Chain(declared, i))}

(* visitReferenceRegions(): the offsets the collector takes for references.*)
Visited(l, i) ==
    LET r == l.classes[i].regions
    IN  UNION {{Word8(l, r.at + 2 * k) + 8 * n : n \in 0 .. (Word8(l, r.at + 2 * k + 1) - 1)} :
                  k \in 0 .. (r.count - 1)}

(* dispatchMethod(): the method an instance of i runs for method j of d.   *)
DispatchMethod(l, i, d, j) == l.classes[i].vtable[l.classes[d].slots[j] + 1]
=============================================================================
