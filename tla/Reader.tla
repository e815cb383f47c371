------------------------------- MODULE Reader -------------------------------
(***************************************************************************)
(* sx_read (src/src/main.c) and the loops around it: one character at a    *)
(* time, from a file or from lines that somebody types.  The C recursion   *)
(* is ctx.  Numbers are left out; ":=" is one character here.  Putting a    *)
(* character back is not taking it.                                        *)
(***************************************************************************)
EXTENDS Integers, Sequences, SequencesExt

CONSTANT Inputs   \* the texts: [first, rest, line, due], see ReadsBack

ASSUME ReaderAssumption ==
    \A i \in Inputs : i.first \in Seq(STRING) /\ i.rest \in Seq(STRING)

VARIABLES
    input,    \* the text that is read
    at,       \* the next character
    ctx,      \* lists and quotes that are open: kind, items, tail
    lex,      \* where the C code is
    tok,      \* the buffer: a symbol or string so far
    val,      \* the form just read, when lex = "value"
    depth,    \* INFP->depth
    values,   \* the forms read since the last error
    lost      \* where reading went on after the first error, or 0

rvars == <<input, at, ctx, lex, tok, val, depth, values, lost>>

Text == input.first \o input.rest
AtEnd == at > Len(Text)
Char == Text[at]

Space == {" ", "nl"}

HexDigits == {"0", "a", "b"}   \* b stands for all others

Quoted == {"string", "escape", "hex", "hex 0", "hex 1"}   \* within quotation marks

Sym(n) == [kind |-> "sym", name |-> n, items |-> << >>, tail |-> << >>]
Str(s) == [kind |-> "str", name |-> s, items |-> << >>, tail |-> << >>]
List(s) == [kind |-> "list", name |-> << >>, items |-> s, tail |-> << >>]

NoForm == List(<< >>)   \* nil

Quote(d) == List(<<Sym(<<"quote">>), d>>)
Ate(d, key) == List(<<Sym(<<"ate">>), d, Quote(key)>>)

Take(l) ==
    /\ at' = at + 1 /\ lex' = l
    /\ UNCHANGED <<input, ctx, tok, val, depth, values, lost>>

-----------------------------------------------------------------------------
\* Mutant: the parentheses that were open are still counted.
Reset_depth(next) ==
    /\ at' = next /\ lex' = "skip" /\ ctx' = << >> /\ tok' = << >>
    /\ values' = << >> /\ lost' = IF lost = 0 THEN next ELSE lost
    /\ UNCHANGED <<input, val, depth>>

\* frame_input_reset: rep reads on with a new line.
Reset(next) ==
    /\ at' = next /\ lex' = "skip" /\ ctx' = << >> /\ tok' = << >>
    /\ values' = << >> /\ lost' = IF lost = 0 THEN next ELSE lost
    /\ depth' = 0
    /\ UNCHANGED <<input, val>>

\* Mutant: the rest of the line is read after an error.
LineAfter_same(n) == n

\* The line after the one of which the characters before n have been taken.
LineAfter(n) ==
    CHOOSE k \in n .. Len(Text) + 1 :
        /\ k = Len(Text) + 1 \/ Text[k - 1] = "nl"
        /\ \A j \in n .. k - 1 : Text[j - 1] # "nl"

\* A syntax error, or the end of input, after the characters before n.  It ends
\* the reading of a file.
Error(n) ==
    IF input.line THEN Reset(LineAfter(n))
    ELSE /\ lex' = "failed" /\ at' = n
         /\ UNCHANGED <<input, ctx, tok, val, depth, values, lost>>

\* sx_read answers FALSE: that is the end, but within a form it is an error.
EndOfText ==
    IF ctx # << >> THEN Error(at)
    ELSE lex' = "stop" /\ UNCHANGED <<input, at, ctx, tok, val, depth, values, lost>>

Open(kind, l) ==
    /\ ctx' = Append(ctx, [kind |-> kind, items |-> << >>, tail |-> << >>]) /\ depth' = depth + 1
    /\ lex' = l /\ at' = at + 1 /\ UNCHANGED <<input, tok, val, values, lost>>

\* The head of sx_read.
Skip ==
    /\ lex = "skip"
    /\ IF AtEnd THEN EndOfText
       ELSE \/ Char \in Space /\ Take("skip")
            \/ Char = ";" /\ Take("comment")
            \/ Char = "(" /\ Open("list", "elem")
            \/ Char = "'" /\ Open("quote", "skip")
            \/ Char = ")" /\ Error(at + 1)
            \/ /\ Char = "quote" /\ lex' = "string" /\ at' = at + 1
               /\ tok' = << >> /\ depth' = depth + 1
               /\ UNCHANGED <<input, ctx, val, values, lost>>
            \/ /\ Char \notin Space \cup {";", "(", "'", ")", "quote"} /\ lex' = "token"
               /\ tok' = << >> /\ UNCHANGED <<input, at, ctx, val, depth, values, lost>>

\* Mutant: the loop does not look for the end of the text.
Comment_noeof ==
    /\ lex = "comment"
    /\ IF AtEnd THEN UNCHANGED rvars ELSE Take(IF Char = "nl" THEN "skip" ELSE "comment")

Comment ==
    /\ lex = "comment"
    /\ IF AtEnd THEN EndOfText ELSE Take(IF Char = "nl" THEN "skip" ELSE "comment")

ReadValue(d) ==
    val' = d /\ lex' = "value" /\ tok' = << >> /\ UNCHANGED <<input, values, lost>>

\* sx_read_parse_assign.
IsAssignment(l) == Len(l.items) = 3 /\ l.tail = << >> /\ l.items[2] = Sym(<<":=">>)

IsMember(d) == Len(d.items) = 3 /\ d.tail = << >> /\ d.items[1] = Sym(<<"ate">>)

Assigned(d, v) ==
    IF d.kind = "sym" THEN List(<<Sym(<<"setq">>), d, v>>)
    ELSE List(<<Sym(<<"atput">>), d.items[2], d.items[3], v>>)

Closed == ctx' = Front(ctx) /\ depth' = depth - 1

CloseList ==
    LET d == [List(Last(ctx).items) EXCEPT !.tail = Last(ctx).tail]
    IN  \/ ~IsAssignment(d) /\ ReadValue(d) /\ Closed /\ at' = at + 1
        \/ /\ IsAssignment(d) /\ (d.items[1].kind = "sym" \/ IsMember(d.items[1]))
           /\ ReadValue(Assigned(d.items[1], d.items[3])) /\ Closed /\ at' = at + 1
        \/ /\ IsAssignment(d) /\ d.items[1].kind # "sym" /\ ~IsMember(d.items[1])
           /\ Error(at + 1)

\* The loop over the elements of a list.
Elem ==
    /\ lex = "elem"
    /\ IF AtEnd THEN Error(at)
       ELSE \/ Char \in Space /\ Take("elem")
            \/ Char = ";" /\ Take("inner comment")
            \/ Char = ")" /\ CloseList
            \/ /\ Char = "."
               /\ IF Last(ctx).items = << >> THEN Error(at + 1)
                  ELSE /\ ctx' = [ctx EXCEPT ![Len(ctx)].kind = "dotted"]
                       /\ lex' = "skip" /\ at' = at + 1
                       /\ UNCHANGED <<input, tok, val, depth, values, lost>>
            \/ /\ Char \notin Space \cup {";", ")", "."} /\ lex' = "skip"
               /\ UNCHANGED <<input, at, ctx, tok, val, depth, values, lost>>

\* What comes after the dot and its form is a parenthesis.
Close ==
    /\ lex = "close"
    /\ IF AtEnd THEN Error(at)
       ELSE \/ Char = ";" /\ Take("inner comment")
            \/ Char = ")" /\ CloseList
            \/ Char \notin {";", ")"} /\ Error(at + 1)

\* sx_read_getc_skip_comments does not look for the end of the text.
InnerComment ==
    /\ lex = "inner comment"
    /\ IF AtEnd THEN UNCHANGED rvars
       ELSE Take(IF Char # "nl" THEN "inner comment"
                 ELSE IF Last(ctx).kind = "dotted" THEN "close" ELSE "elem")

\* sym_obj_parse: a.b.c is what c of what b of a is.
Members(t) ==
    LET dots == {0, Len(t) + 1} \cup {k \in 1 .. Len(t) : t[k] = "."}
        Next(k) == Min({j \in dots : j > k})
        starts == SetToSortSeq(dots \ {Len(t) + 1}, <)
    IN  [k \in 1 .. Len(starts) |-> Sym(SubSeq(t, starts[k] + 1, Next(starts[k]) - 1))]

SymObj(t) == LET m == Members(t) IN FoldLeft(Ate, Head(m), Tail(m))

IsSymObj(t) == \A k \in 1 .. Len(Members(t)) : Members(t)[k].name # << >>

EndToken(next) ==
    \/ IsSymObj(tok) /\ ReadValue(SymObj(tok)) /\ at' = next /\ UNCHANGED <<ctx, depth>>
    \/ ~IsSymObj(tok) /\ Error(next)

\* sx_read_str.
Token ==
    /\ lex = "token"
    /\ IF AtEnd THEN Error(at)
       ELSE \/ Char \in Space /\ EndToken(at + 1)
            \/ Char = ")" /\ depth = 0 /\ Error(at + 1)
            \/ Char = ")" /\ depth # 0 /\ EndToken(at)
            \/ /\ Char \notin Space \cup {")"} /\ tok' = Append(tok, Char) /\ at' = at + 1
               /\ UNCHANGED <<input, ctx, lex, val, depth, values, lost>>

EndString ==
    ReadValue(Str(tok)) /\ at' = at + 1 /\ depth' = depth - 1 /\ UNCHANGED ctx

InString(c, l) ==
    /\ tok' = Append(tok, c) /\ lex' = l /\ at' = at + 1
    /\ UNCHANGED <<input, ctx, val, depth, values, lost>>

String ==
    /\ lex = "string"
    /\ IF AtEnd THEN Error(at)
       ELSE \/ Char = "quote" /\ EndString
            \/ Char = "esc" /\ Take("escape")
            \/ Char \notin {"quote", "esc"} /\ InString(Char, "string")

Escape ==
    /\ lex = "escape"
    /\ IF AtEnd THEN Error(at)
       ELSE \/ Char = "x" /\ Take("hex")
            \/ Char = "n" /\ InString("nl", "string")
            \/ Char \notin {"x", "n"} /\ InString(Char, "string")

\* The two digits of a character's code.  0 is the end of the string, like the quote, 0a a
\* newline; any other code is "hex".
Hex ==
    /\ lex \in {"hex", "hex 0", "hex 1"}
    /\ IF AtEnd THEN Error(at)
       ELSE \/ Char \notin HexDigits /\ Error(at + 1)
            \/ lex = "hex" /\ Char \in HexDigits /\ Take(IF Char = "0" THEN "hex 0" ELSE "hex 1")
            \/ lex = "hex 0" /\ Char = "0" /\ EndString
            \/ lex = "hex 0" /\ Char = "a" /\ InString("nl", "string")
            \/ lex = "hex 0" /\ Char \in HexDigits \ {"0", "a"} /\ InString("hex", "string")
            \/ lex = "hex 1" /\ Char \in HexDigits /\ InString("hex", "string")

\* A form goes into the list or quote around it, or to rep or load_file.
Deliver ==
    /\ lex = "value"
    /\ \/ /\ ctx = << >> /\ values' = Append(values, val) /\ lex' = "skip"
          /\ UNCHANGED <<ctx, val, depth>>
       \/ /\ ctx # << >> /\ Last(ctx).kind = "list" /\ lex' = "elem"
          /\ ctx' = [ctx EXCEPT ![Len(ctx)].items = Append(@, val)]
          /\ UNCHANGED <<values, val, depth>>
       \/ /\ ctx # << >> /\ Last(ctx).kind = "dotted" /\ lex' = "close"
          /\ ctx' = [ctx EXCEPT ![Len(ctx)].items = @ \o val.items,
                                ![Len(ctx)].tail = IF val.kind = "list" THEN val.tail ELSE <<val>>]
          /\ UNCHANGED <<values, val, depth>>
       \/ /\ ctx # << >> /\ Last(ctx).kind = "quote"
          /\ val' = Quote(val) /\ Closed /\ UNCHANGED <<lex, values>>
    /\ UNCHANGED <<input, at, tok, lost>>

ReaderInit ==
    /\ input \in Inputs
    /\ at = 1 /\ ctx = << >> /\ lex = "skip" /\ tok = << >> /\ val = NoForm
    /\ depth = 0 /\ values = << >> /\ lost = 0

Stopped == lex \in {"stop", "failed"} /\ UNCHANGED rvars

ReaderStep ==
    \/ Skip \/ Comment \/ Elem \/ Close \/ InnerComment \/ Token \/ String \/ Escape
    \/ Hex \/ Deliver

ReaderNext == ReaderStep \/ Stopped

ReaderSpec == ReaderInit /\ [][ReaderNext]_rvars

-----------------------------------------------------------------------------
\* The type of the state.  The depth, by which a parenthesis is told from one that
\* closes nothing and the prompt is chosen, is that of the forms that are open, also
\* after errors in the middle of them.
ReaderTypeOK ==
    /\ at \in 1 .. Len(Text) + 1 /\ lost \in 0 .. Len(Text) + 1
    /\ \A k \in 1 .. Len(ctx) : ctx[k].kind \in {"list", "dotted", "quote"}
    /\ lex # "failed" => depth = Len(ctx) + (IF lex \in Quoted THEN 1 ELSE 0)
    /\ lex = "close" => Last(ctx).kind = "dotted"

\* A text gives the forms it was written for, with blanks, lines or comments between
\* them, or nothing after a parenthesis or quotation mark (but nothing is written before
\* the parenthesis that closes a dotted pair: two blanks there are an error).  What
\* somebody has typed before at rep's prompt, if there is an error in it, makes no
\* difference to the lines that follow.
ReadsBack ==
    lex \in {"stop", "failed"} =>
        /\ input.first = << >> => lex = "stop" /\ lost = 0 /\ values = input.due
        /\ input.line /\ lost \in 1 .. Len(input.first) + 1 => values = input.due

\* A text has been read, or the reader waits for the end of a comment within a
\* list though there is no more text.
Ended == lex \in {"stop", "failed"} \/ (lex = "inner comment" /\ AtEnd)

=============================================================================
