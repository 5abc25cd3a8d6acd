---------------------------- MODULE SerializerText ----------------------------
(***************************************************************************)
(* The other half of generator/generate.c: fetch prints a value as text and *)
(* store reads such a text and writes the words.  A text is a sequence of   *)
(* tokens <<kind, value>>: a "sym" (a parenthesis, a name), a "num" or a    *)
(* "str" in quotes, which is never taken for a name.  The layout of         *)
(* multiline_output is left out.                                            *)
(***************************************************************************)
EXTENDS Serializer

Sym(s) == <<"sym", s>>
Num(n) == <<"num", n>>
Str(bytes) == <<"str", bytes>>

-----------------------------------------------------------------------------
(* fetch: the position after the value and the text printed                *)

Printed(at, text) == [at |-> at, text |-> text]
Unprintable == Printed(Refused, <<>>)

\* What was printed before, and then p.
After(text, p) == IF p.at = Refused THEN Unprintable ELSE Printed(p.at, text \o p.text)

PrintPrimitive(id, b, at) ==
    LET token(f) == IF id = "string" THEN Str(f.ds.data) ELSE Num(f.ds.data)
        print(f) == IF f.at = Aborted THEN Unprintable ELSE Printed(f.at, <<token(f)>>)
    IN  print(FetchPrimitive(id, b, at))

RECURSIVE PrintAny(_, _, _, _), PrintItems(_, _, _, _, _), PrintArgs(_, _, _, _, _, _, _)

\* gen_field_fetch(): names says whether field names are printed.
PrintField(arg, b, at, T, env, empty, names) ==
    LET type == Create(arg.type, T)
        name == IF names /\ ~empty /\ arg.id # "" THEN <<Sym(arg.id), Sym(":")>> ELSE <<>>
    IN  IF ~Present(arg, env) THEN Printed(at, <<>>)
        ELSE CASE arg.kind = "nat"   -> After(name, PrintPrimitive("int", b, at))
               [] arg.kind = "array" ->
                      LET items == PrintItems(Count(arg, env), b, at, type, names)
                      IN  After(name \o <<Sym("[")>>,
                                [items EXCEPT !.text = Append(@, Sym("]"))])
               [] OTHER -> After(name, PrintAny(b, at, type, names))

PrintArgs(args, b, at, T, env, empty, names) ==
    IF args = <<>> THEN Printed(at, <<>>)
    ELSE LET arg     == Head(args)
             rest(p) == IF p.at = Refused THEN Unprintable
                        ELSE After(p.text, PrintArgs(Tail(args), b, p.at, T,
                                   IF arg.kind = "nat" THEN arg.id :> b[at + 1] @@ env ELSE env,
                                   empty, names))
         IN  rest(PrintField(arg, b, at, T, env, empty, names))

PrintItems(n, b, at, type, names) ==
    IF n <= 0 THEN Printed(at, <<>>)
    ELSE LET rest(p) == IF p.at = Refused THEN Unprintable
                        ELSE After(p.text, PrintItems(n - 1, b, p.at, type, names))
         IN  rest(PrintAny(b, at, type, names))

\* gen_constructor_fetch()
PrintConstructor(c, b, at, T, names) ==
    LET empty == IsEmpty(T.name)
    IN  IF ~Makes(c, T) THEN Unprintable
        ELSE IF c.id \in Primitives THEN PrintPrimitive(c.id, b, at)
        ELSE After(IF empty THEN <<>> ELSE <<Sym(c.id)>>,
                   PrintArgs(c.args, b, at, T, <<>>, empty, names))

\* A value is in parentheses unless its type is empty.
InParentheses(p, T) ==
    IF IsEmpty(T.name) \/ p.at = Refused THEN p
    ELSE Printed(p.at, <<Sym("(")>> \o p.text \o <<Sym(")")>>)

PrintFirst(found, b, at, T, names) ==
    IF found = {} THEN Unprintable
    ELSE InParentheses(PrintConstructor(FirstOf(found, T), b, at, T, names), T)

\* gen_type_fetch(), gen_fetch_source()
PrintAny(b, at, T, names) ==
    IF T.bare THEN PrintFirst(Accepting(b, at, T), b, at, T, names)
    ELSE PrintFirst(Coded(b, at, T), b, at + 1, T, names)

-----------------------------------------------------------------------------
(* store: the tokens left and the words written                            *)

Read(rest, out) == [ok |-> TRUE, rest |-> rest, out |-> out]
Unreadable == [ok |-> FALSE, rest |-> <<>>, out |-> <<>>]

First(rest) == IF rest = <<>> THEN <<"end", 0>> ELSE Head(rest)

\* What was written before, and then r.
Then(out, r) == IF r.ok THEN Read(r.rest, out \o r.out) ELSE Unreadable

\* expect_token()
Expect(rest, s) == IF First(rest) = Sym(s) THEN Read(Tail(rest), <<>>) ELSE Unreadable

ReadPrimitive(id, rest) ==
    LET tok == First(rest)
    IN  CASE id = "string" /\ tok[1] = "str" -> Read(Tail(rest), StoreString(tok[2]))
          [] id # "string" /\ tok[1] = "num" -> Read(Tail(rest), tok[2])
          [] OTHER -> Unreadable

RECURSIVE ReadAny(_, _), ReadItems(_, _, _), ReadArgs(_, _, _, _, _)

\* The name of a field may stand before it.
AfterName(arg, rest, empty) ==
    IF arg.id # "" /\ ~empty /\ First(rest) = Sym(arg.id) THEN Expect(Tail(rest), ":")
    ELSE Read(rest, <<>>)

\* gen_field_store()
ReadField(arg, rest, T, env, empty) ==
    LET type  == Create(arg.type, T)
        named == AfterName(arg, rest, empty)
    IN  CASE ~Present(arg, env) -> Read(rest, <<>>)
          [] Present(arg, env) /\ ~named.ok -> Unreadable
          [] OTHER ->
              CASE arg.kind = "nat"   -> ReadPrimitive("int", named.rest)
                [] arg.kind = "array" ->
                     LET open  == Expect(named.rest, "[")
                         items == IF open.ok THEN ReadItems(Count(arg, env), open.rest, type)
                                  ELSE Unreadable
                     IN  IF items.ok THEN Then(items.out, Expect(items.rest, "]"))
                         ELSE Unreadable
                [] OTHER -> ReadAny(named.rest, type)

ReadArgs(args, rest, T, env, empty) ==
    IF args = <<>> THEN Read(rest, <<>>)
    ELSE LET arg == Head(args)
             r   == ReadField(arg, rest, T, env, empty)
         IN  IF ~r.ok THEN Unreadable
             ELSE Then(r.out, ReadArgs(Tail(args), r.rest, T,
                       IF arg.kind = "nat" THEN arg.id :> r.out[1] @@ env ELSE env, empty))

ReadItems(n, rest, type) ==
    IF n <= 0 THEN Read(rest, <<>>)
    ELSE LET r == ReadAny(rest, type)
         IN  IF r.ok THEN Then(r.out, ReadItems(n - 1, r.rest, type)) ELSE Unreadable

\* gen_constructor_store()
ReadConstructor(c, rest, T) ==
    IF ~Makes(c, T) THEN Unreadable
    ELSE IF c.id \in Primitives THEN ReadPrimitive(c.id, rest)
    ELSE ReadArgs(c.args, rest, T, <<>>, IsEmpty(T.name))

\* gen_type_store(), gen_store_source(): the name of the constructor says which
\* one it is; a boxed value begins with its code.
ReadAny(rest, T) ==
    LET open  == Expect(rest, "(")
        named == {i \in DOMAIN Schema[T.name] :
                      open.ok /\ First(open.rest) = Sym(Schema[T.name][i].id)}
        c     == Schema[T.name][IF IsEmpty(T.name) THEN 1 ELSE CHOOSE i \in named : TRUE]
        code  == IF T.bare THEN <<>> ELSE <<c.code>>
    IN  IF IsEmpty(T.name) THEN Then(code, ReadConstructor(c, rest, T))
        ELSE IF named = {} THEN Unreadable
        ELSE LET r == ReadConstructor(c, Tail(open.rest), T)
             IN  IF r.ok THEN Then(code \o r.out, Expect(r.rest, ")")) ELSE Unreadable
=============================================================================
