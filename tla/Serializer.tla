------------------------------ MODULE Serializer ------------------------------
(***************************************************************************)
(* The functions that generator/generate.c generates from a TL schema, as   *)
(* interpreters of the schema: skip and fetch_ds read a value, free_ds      *)
(* releases what fetch_ds allocated, store_ds writes it; fetch prints it as  *)
(* text and store reads the text.  A buffer is a sequence of words, a       *)
(* position is the number of words before it, Refused is a function's -1    *)
(* and Aborted a failed assert.                                             *)
(*                                                                         *)
(* A type expression is [name, bare, of], where of holds the argument of a  *)
(* Vector; the name "t" is the variable of the constructor's result.        *)
(***************************************************************************)
EXTENDS Integers, Sequences, FiniteSets, TLC
LOCAL INSTANCE Wire

CONSTANT Schema     \* the constructors of each type, in their order

Refused == -1
Aborted == -1

-----------------------------------------------------------------------------
(* Schemas                                                                 *)

Boxed(name) == [name |-> name, bare |-> FALSE, of |-> <<>>]
Bare(name)  == [name |-> name, bare |-> TRUE, of |-> <<>>]
VectorOf(type) == [name |-> "Vector", bare |-> FALSE, of |-> <<type>>]

\* The kinds of an argument: a number that later arguments may refer to, a
\* value, a value that is there when a bit of a number is set, and an array of
\* as many items as a number says.
Number(id) == [id |-> id, kind |-> "nat", type |-> Bare("#"), when |-> <<>>]
Arg(id, type) == [id |-> id, kind |-> "value", type |-> type, when |-> <<>>]
Optional(id, flags, bit, type) ==
    [id |-> id, kind |-> "value", type |-> type, when |-> <<flags, bit>>]
Array(id, count, type) == [id |-> id, kind |-> "array", type |-> type, when |-> <<count>>]

Combinator(code, id, args, result) ==
    [code |-> code, id |-> id, args |-> args, result |-> result]

Primitives == {"int", "long", "double", "string"}

\* A value of type Bytes is a string to skip, fetch and store, and a structure
\* like that of a string to the others.
Strings == {"string", "bytes"}

\* The types every schema has.
BuiltinSchema(vectorCode) ==
    "Int"    :> <<Combinator(11, "int", <<>>, "Int")>> @@
    "Long"   :> <<Combinator(12, "long", <<>>, "Long")>> @@
    "String" :> <<Combinator(13, "string", <<>>, "String")>> @@
    "Bytes"  :> <<Combinator(14, "bytes", <<Arg("", Bare("String"))>>, "Bytes")>> @@
    "Vector" :> <<Combinator(vectorCode, "vector",
                      <<Number("n"), Array("", "n", Bare("t"))>>, "Vector")>>

\* is_empty(): the values of a type with one argument are printed without
\* parentheses and names.
IsEmpty(name) ==
    \/ Schema[name][1].id \in Primitives
    \/ Len(Schema[name]) = 1 /\ Len(Schema[name][1].args) = 1

\* The arguments whose values the numbers read so far let through.
Present(arg, env) ==
    \/ arg.kind # "value" \/ arg.when = <<>>
    \/ (env[arg.when[1]] \div 2^arg.when[2]) % 2 = 1

Count(arg, env) == env[arg.when[1]]

\* gen_create(): the type of an argument, of a value of type T.
RECURSIVE Create(_, _)
Create(type, T) ==
    IF type.name = "t" THEN T.of[1]
    ELSE [type EXCEPT !.of = [i \in DOMAIN @ |-> Create(@[i], T)]]

\* gen_uni_skip(): whether a constructor makes values of type T.
Makes(c, T) == c.result = T.name

-----------------------------------------------------------------------------
(* skip                                                                    *)

\* The position after n words or after a string, if they are all there.
SkipWords(b, at, n) == IF at + n <= Len(b) THEN at + n ELSE Refused

\* The length of the string at a position, if it is all there.
Length(b, at) == IF at < Len(b) THEN Prefetch(b[at + 1], Len(b) - at) ELSE Refused

SkipString(b, at) == IF Length(b, at) < 0 THEN Refused ELSE at + FetchedWords(Length(b, at))

SkipPrimitive(id, b, at) ==
    CASE id = "int"    -> SkipWords(b, at, 1)
      [] id = "string" -> SkipString(b, at)
      [] OTHER         -> SkipWords(b, at, 2)

RECURSIVE SkipAny(_, _, _), SkipItems(_, _, _, _), SkipArgs(_, _, _, _, _)

\* gen_constructor_skip()
SkipConstructor(c, b, at, T) ==
    IF ~Makes(c, T) THEN Refused
    ELSE IF c.id \in Primitives THEN SkipPrimitive(c.id, b, at)
    ELSE SkipArgs(c.args, b, at, T, <<>>)

\* gen_field_skip()
SkipField(arg, b, at, T, env) ==
    LET type == Create(arg.type, T)
    IN  IF ~Present(arg, env) THEN at
        ELSE CASE arg.kind = "nat"   -> SkipWords(b, at, 1)
               [] arg.kind = "array" -> SkipItems(Count(arg, env), b, at, type)
               [] OTHER              -> SkipAny(b, at, type)

SkipArgs(args, b, at, T, env) ==
    IF args = <<>> THEN at
    ELSE LET arg == Head(args)
             end == SkipField(arg, b, at, T, env)
         IN  IF end = Refused THEN Refused
             ELSE SkipArgs(Tail(args), b, end, T,
                           IF arg.kind = "nat" THEN arg.id :> b[at + 1] @@ env ELSE env)

SkipItems(n, b, at, type) ==
    IF n <= 0 THEN at
    ELSE LET end == SkipAny(b, at, type)
         IN  IF end = Refused THEN Refused ELSE SkipItems(n - 1, b, end, type)

\* The constructors whose code is there, and those that accept what is there.
Coded(b, at, T) ==
    {i \in DOMAIN Schema[T.name] : at < Len(b) /\ Schema[T.name][i].code = b[at + 1]}

Accepting(b, at, T) ==
    {i \in DOMAIN Schema[T.name] : SkipConstructor(Schema[T.name][i], b, at, T) # Refused}

\* The first of some of the constructors of a type.
FirstOf(found, T) == Schema[T.name][CHOOSE i \in found : \A j \in found : i <= j]

SkipFirst(found, b, at, T) ==
    IF found = {} THEN Refused ELSE SkipConstructor(FirstOf(found, T), b, at, T)

\* gen_type_skip(), gen_skip_source(): by the code that is there, or, of a bare
\* type, the first constructor that accepts.
SkipAny(b, at, T) ==
    IF T.bare THEN SkipFirst(Accepting(b, at, T), b, at, T)
    ELSE SkipFirst(Coded(b, at, T), b, at + 1, T)

-----------------------------------------------------------------------------
(* fetch_ds: the value, the position after it and the blocks allocated     *)

\* A structure: its magic if its type has several constructors, the number or
\* the bytes of a primitive, and its members.
Structure(magic, data, members) == [magic |-> magic, data |-> data, members |-> members]

NullPtr == Structure(0, <<>>, <<>>)

Fetched(at, ds, blocks) == [at |-> at, ds |-> ds, blocks |-> blocks]
Abort == Fetched(Aborted, NullPtr, 0)

\* The k-th byte of the words after a position.
ByteAt(b, at, k) == (b[at + 1 + k \div 4] \div 256^(k % 4)) % 256

FetchWords(b, at, n) ==
    IF at + n > Len(b) THEN Abort
    ELSE Fetched(at + n, Structure(0, SubSeq(b, at + 1, at + n), <<>>), 1)

\* The l bytes of a string.
Bytes(b, at, l) == [k \in 1..l |-> ByteAt(b, at, (IF l < 254 THEN 0 ELSE 3) + k)]

FetchString(b, at) ==
    IF Length(b, at) < 0 THEN Abort
    ELSE Fetched(at + FetchedWords(Length(b, at)),
                 Structure(0, Bytes(b, at, Length(b, at)), <<>>), 2)

FetchPrimitive(id, b, at) ==
    CASE id = "int"     -> FetchWords(b, at, 1)
      [] id \in Strings -> FetchString(b, at)
      [] OTHER          -> FetchWords(b, at, 2)

RECURSIVE FetchAny(_, _, _), FetchItems(_, _, _, _), FetchArgs(_, _, _, _, _)

\* The constructors of a type of several tell them apart by a magic.
Magic(c) == IF Len(Schema[c.result]) > 1 THEN c.code ELSE 0

\* The structure around the members fetched.
Around(magic, f) ==
    IF f.at = Aborted THEN Abort
    ELSE Fetched(f.at, Structure(magic, <<>>, f.ds), f.blocks + 1)

\* gen_constructor_fetch_ds()
FetchConstructor(c, b, at, T) ==
    IF ~Makes(c, T) THEN Fetched(at, NullPtr, 0)
    ELSE IF c.id \in Primitives \union Strings THEN FetchPrimitive(c.id, b, at)
    ELSE Around(Magic(c), FetchArgs(c.args, b, at, T, <<>>))

\* gen_field_fetch_ds()
FetchField(arg, b, at, T, env) ==
    LET type == Create(arg.type, T)
    IN  IF ~Present(arg, env) THEN Fetched(at, NullPtr, 0)
        ELSE CASE arg.kind = "nat"   -> FetchWords(b, at, 1)
               [] arg.kind = "array" -> Around(0, FetchItems(Count(arg, env), b, at, type))
               [] OTHER              -> FetchAny(b, at, type)

\* A value and the values fetched after it.
Before(f, g) ==
    IF g.at = Aborted THEN Abort ELSE Fetched(g.at, <<f.ds>> \o g.ds, f.blocks + g.blocks)

FetchArgs(args, b, at, T, env) ==
    IF args = <<>> THEN Fetched(at, <<>>, 0)
    ELSE LET arg     == Head(args)
             rest(f) == IF f.at = Aborted THEN Abort
                        ELSE Before(f, FetchArgs(Tail(args), b, f.at, T,
                             IF arg.kind = "nat" THEN arg.id :> f.ds.data[1] @@ env ELSE env))
         IN  rest(FetchField(arg, b, at, T, env))

FetchItems(n, b, at, type) ==
    IF n <= 0 THEN Fetched(at, <<>>, 0)
    ELSE LET rest(f) == IF f.at = Aborted THEN Abort
                        ELSE Before(f, FetchItems(n - 1, b, f.at, type))
         IN  rest(FetchAny(b, at, type))

FetchFirst(found, b, at, T) ==
    IF found = {} THEN Abort ELSE FetchConstructor(FirstOf(found, T), b, at, T)

\* gen_type_fetch_ds(): the only constructor is not asked whether it accepts.
FetchAny(b, at, T) ==
    IF ~T.bare THEN FetchFirst(Coded(b, at, T), b, at + 1, T)
    ELSE FetchFirst(IF Len(Schema[T.name]) > 1 THEN Accepting(b, at, T) ELSE {1}, b, at, T)

\* The constructor of a structure.
Which(ds, T) ==
    CHOOSE c \in {Schema[T.name][i] : i \in DOMAIN Schema[T.name]} : Magic(c) = ds.magic

\* The numbers a structure holds.
NumbersOf(c, ds) ==
    LET nats == {i \in DOMAIN c.args : c.args[i].kind = "nat"}
    IN  [id \in {c.args[i].id : i \in nats} |->
            ds.members[CHOOSE i \in nats : c.args[i].id = id].data[1]]

-----------------------------------------------------------------------------
(* free_ds: the blocks freed                                               *)

RECURSIVE FreeAny(_, _), FreeItems(_, _), FreeArgs(_, _, _, _, _)

\* Mutant of FreeField: the array itself is forgotten.
FreesItemsOnly(arg, ds, T, env) ==
    LET type == Create(arg.type, T)
    IN  IF ~Present(arg, env) THEN 0
        ELSE CASE arg.kind = "nat"   -> 1
               [] arg.kind = "array" -> FreeItems(ds.members, type)
               [] OTHER              -> FreeAny(ds, type)

\* gen_field_free_ds()
FreeField(arg, ds, T, env) ==
    LET type == Create(arg.type, T)
    IN  IF ~Present(arg, env) THEN 0
        ELSE CASE arg.kind = "nat"   -> 1
               [] arg.kind = "array" -> FreeItems(ds.members, type) + 1
               [] OTHER              -> FreeAny(ds, type)

FreeItems(items, type) ==
    IF items = <<>> THEN 0 ELSE FreeAny(Head(items), type) + FreeItems(Tail(items), type)

FreeArgs(args, members, T, env, freed) ==
    IF args = <<>> THEN freed
    ELSE FreeArgs(Tail(args), Tail(members), T, env,
                  freed + FreeField(Head(args), Head(members), T, env))

\* gen_constructor_free_ds()
FreeConstructor(c, ds, T) ==
    CASE c.id \in Strings -> 2
      [] c.id \in Primitives \ Strings -> 1
      [] OTHER -> 1 + FreeArgs(c.args, ds.members, T, NumbersOf(c, ds), 0)

\* gen_type_free_ds(), gen_free_ds_source()
FreeAny(ds, T) == FreeConstructor(Which(ds, T), ds, T)

-----------------------------------------------------------------------------
(* store_ds: the words written                                             *)

RECURSIVE StoreAny(_, _), StoreItems(_, _), StoreArgs(_, _, _, _)

\* out_string() of fewer than 254 bytes.
StoreString(bytes) ==
    LET at(k) == IF k = 0 THEN Len(bytes) ELSE IF k <= Len(bytes) THEN bytes[k] ELSE 0
    IN  [i \in 1..StringWords(Len(bytes)) |->
            at(4 * i - 4) + 256 * at(4 * i - 3) + 65536 * at(4 * i - 2)
                          + 16777216 * at(4 * i - 1)]

\* gen_field_store_ds()
StoreField(arg, ds, T, env) ==
    LET type == Create(arg.type, T)
    IN  IF ~Present(arg, env) THEN <<>>
        ELSE CASE arg.kind = "nat"   -> <<env[arg.id]>>
               [] arg.kind = "array" -> StoreItems(ds.members, type)
               [] OTHER              -> StoreAny(ds, type)

StoreItems(items, type) ==
    IF items = <<>> THEN <<>> ELSE StoreAny(Head(items), type) \o StoreItems(Tail(items), type)

StoreArgs(args, members, T, env) ==
    IF args = <<>> THEN <<>>
    ELSE StoreField(Head(args), Head(members), T, env)
             \o StoreArgs(Tail(args), Tail(members), T, env)

\* gen_constructor_store_ds()
StoreConstructor(c, ds, T) ==
    CASE c.id \in Strings -> StoreString(ds.data)
      [] c.id \in Primitives \ Strings -> ds.data
      [] OTHER -> StoreArgs(c.args, ds.members, T, NumbersOf(c, ds))

\* gen_type_store_ds()
StoreAny(ds, T) ==
    LET c == Which(ds, T)
    IN  (IF T.bare THEN <<>> ELSE <<c.code>>) \o StoreConstructor(c, ds, T)
=============================================================================
