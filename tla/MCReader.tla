------------------------------ MODULE MCReader ------------------------------
(* Texts for Reader: written from forms in several layouts, or any          *)
(* characters whatever.  A form here is what somebody writes: k, name, sub. *)
(* Files for Loader: one that loads itself, in two directories, and one     *)
(* that loads a library.                                                   *)
EXTENDS Reading

CONSTANT MaxText    \* length of the texts of any characters

F(k, name, sub) == [k |-> k, name |-> name, sub |-> sub]

A == F("sym", <<"a">>, << >>)
B == F("sym", <<"b", "n">>, << >>)
Member == F("sym", <<"a", ".", "b", ".", "n">>, << >>)
Text1 == F("str", <<"a", "nl", "quote", "esc", ")", " ", "hex">>, << >>)

Simple == {A, B, Member, Text1, F("list", << >>, << >>)}

Compound(S) ==
    {F("list", << >>, <<x>>) : x \in S} \cup {F("list", << >>, <<x, y>>) : x, y \in S}
    \cup {F("quote", << >>, <<x>>) : x \in S}
    \cup {F("dotted", << >>, <<x, y>>) : x, y \in S}
    \cup {F("assign", << >>, <<x, y>>) : x \in {A, Member}, y \in S}

Nested ==
    {F("list", << >>, <<x, y>>) : x \in Compound({A, Text1}), y \in Compound({A, Text1})}
    \cup {F("quote", << >>, <<x>>) : x \in Compound({A, Member})}
    \cup {F("dotted", << >>, <<x, y>>) : x \in {A}, y \in Compound({A, Member})}
    \cup {F("assign", << >>, <<x, y>>) : x \in {A, Member}, y \in Compound({A, Text1})}

\* What the reader is to make of a form.
RECURSIVE Meaning(_)
Meaning(f) ==
    LET m == [i \in 1 .. Len(f.sub) |-> Meaning(f.sub[i])]
        quote(d) == List(<<Sym(<<"quote">>), d>>)
        ate(d, k) == List(<<Sym(<<"ate">>), d, quote(k)>>)
    IN  CASE f.k = "str" -> Str(f.name)
          [] f = Member -> ate(ate(Sym(<<"a">>), Sym(<<"b">>)), Sym(<<"n">>))
          [] f.k = "sym" /\ f # Member -> Sym(f.name)
          [] f.k = "list" -> List(m)
          [] f.k = "quote" -> quote(m[1])
          [] f.k = "dotted" ->
                [List(<<m[1]>> \o m[2].items) EXCEPT
                    !.tail = IF m[2].kind = "list" THEN m[2].tail ELSE <<m[2]>>]
          [] f.k = "assign" ->
                IF m[1].kind = "sym" THEN List(<<Sym(<<"setq">>), m[1], m[2]>>)
                ELSE List(<<Sym(<<"atput">>), m[1].items[2], m[1].items[3], m[2]>>)

Escaped(c) == IF c \in {"quote", "esc"} THEN <<"esc", c>>
              ELSE IF c = "nl" THEN <<"esc", "n">>
              ELSE IF c = "hex" THEN <<"esc", "x", "0", "b">> ELSE <<c>>

\* What is written between two forms; nothing at all after a parenthesis or quote
\* when the layout is tight.
Layouts == {"tight", "spaced", "lines", "comments"}

Between(f, layout) ==
    CASE layout = "tight" ->
            IF f.k \in {"list", "dotted", "assign", "str"} THEN << >> ELSE <<" ">>
      [] layout = "spaced" -> <<" ", " ">>
      [] layout = "lines" -> <<"nl", " ">>
      [] layout = "comments" -> <<" ", ";", "(", "a", "nl">>

Inside(layout) == IF layout = "tight" THEN << >> ELSE Between(A, layout)

RECURSIVE Written(_, _)
Written(f, layout) ==
    LET w(i) == Written(f.sub[i], layout)
        then(i) == w(i) \o Between(f.sub[i], layout)
        dot == <<".", " ">>
    IN  CASE f.k = "sym" -> f.name
          [] f.k = "str" -> <<"quote">> \o FlattenSeq([i \in 1 .. Len(f.name) |-> Escaped(f.name[i])])
                                        \o <<"quote">>
          [] f.k = "quote" -> <<"'">> \o w(1)
          [] f.k = "list" -> <<"(">> \o Inside(layout)
                \o FlattenSeq([i \in 1 .. Len(f.sub) |->
                        IF i = Len(f.sub) THEN w(i) \o Inside(layout) ELSE then(i)])
                \o <<")">>
          [] f.k = "dotted" -> <<"(">> \o Inside(layout) \o then(1) \o dot \o w(2) \o <<")">>
          [] f.k = "assign" -> <<"(">> \o then(1) \o <<":=", " ">> \o w(2) \o Inside(layout) \o <<")">>

Chars == {"a", "n", "(", ")", "'", ".", ":=", ";", "quote", "esc", "x", "0", " ", "nl"}

Intended ==
    {[first |-> << >>, rest |-> Written(f, l) \o <<"nl">>, line |-> b, due |-> <<Meaning(f)>>] :
        f \in Simple \cup Compound(Simple) \cup Nested, l \in Layouts, b \in BOOLEAN}
    \cup
    {[first |-> << >>, rest |-> Written(f, l) \o Between(f, l) \o Written(g, l) \o <<"nl">>,
      line |-> FALSE, due |-> <<Meaning(f), Meaning(g)>>] :
        f, g \in Simple \cup Compound({A}), l \in Layouts}

\* Lines of any characters, and then a form.
AfterLine ==
    {[first |-> t \o <<"nl">>, rest |-> Written(f, "spaced") \o <<"nl">>, line |-> TRUE,
      due |-> <<Meaning(f)>>] :
        t \in UNION {[1 .. n -> Chars \ {"nl"}] : n \in 1 .. MaxText},
        f \in {A, F("list", << >>, <<A, Text1>>)}}

AnyText ==
    {[first |-> t, rest |-> << >>, line |-> FALSE, due |-> << >>] :
        t \in UNION {[1 .. n -> Chars] : n \in 1 .. MaxText}}

\* Characters given by their codes, or what looks like them, in a file and in a line.
Codes == {"0", "a", "b", "n", "quote"}

AnyCode ==
    {[first |-> <<"quote", "esc", "x">> \o t, rest |-> << >>, line |-> FALSE, due |-> << >>] :
        t \in UNION {[1 .. n -> Codes] : n \in 0 .. MaxText}}
    \cup
    {[first |-> <<"(", "quote", "esc", "x">> \o t \o <<"nl">>, rest |-> <<"a", "nl">>,
      line |-> TRUE, due |-> <<Sym(<<"a">>)>>] :
        t \in UNION {[1 .. n -> Codes] : n \in 0 .. MaxText}}

MCInputs == Intended \cup AfterLine \cup AnyText \cup AnyCode

MCPath == <<"dir", "cwd">>

MCOnDisk == [f \in {"dir", "cwd"} \X {"f", "l"} |->
    CASE f = <<"dir", "f">> -> {"none", "c2"}
      [] f = <<"cwd", "f">> -> {"c1"}
      [] f = <<"cwd", "l">> -> {"lib", "noinit"}
      [] f = <<"dir", "l">> -> {"none"}]

MCLoadsOf == [c1 |-> <<"f">>, c2 |-> <<"l">>, lib |-> << >>, noinit |-> << >>]

=============================================================================
