------------------------------- MODULE Script -------------------------------
(***************************************************************************)
(* exec_queries: an SQL script is split into queries (split_queries), which *)
(* are sent one by one, the data of COPY ... FROM STDIN included, within    *)
(* the program's transaction or one of its own. The program writes its      *)
(* script as lexical pieces, so that what split_queries must find is        *)
(* known without lexing; split_queries sees their characters only. "C"      *)
(* stands for "copy ", "S" for " stdin", and a query with "b" is refused.   *)
(***************************************************************************)
EXTENDS Integers, Sequences, SequencesExt, FiniteSetsExt

CONSTANT MaxPieces      \* bound on the pieces of a script

VARIABLES
    pieces,     \* the script, as the program means it
    text,       \* its characters
    meant,      \* history: the statements its pieces make
    out         \* what exec_queries did with it, or Pending
vars == <<pieces, text, meant, out>>

(***************************************************************************)
(* The pieces of a script and their characters.                             *)
(***************************************************************************)
Chars == [ word      |-> <<"a">>,
           bad       |-> <<"b">>,
           space     |-> <<" ">>,
           semicolon |-> <<";">>,
           string    |-> <<"'", ";", "'", "'", "$", "'">>,
           ident     |-> <<"\"", "-", "-", "'", "\"">>,
           dollar    |-> <<"$", "$", ";", "'", "$", "$">>,
           tagged    |-> <<"$", "t", "$", "$", ";", "-", "-", "$", "t", "$">>,
           comment   |-> <<"-", "-", ";", "'", "$", "\n">>,
           copy      |-> <<"C", "S", ";", "\n", "x", "'", "\n", "\\", "x", "\n", "\\", ".">>,
           badcopy   |-> <<"C", "b", "S", ";", "\n", "x", "\r", "\\", ".">>,
           csvcopy   |-> <<"C", "S", "a">>,
           lastcopy  |-> <<"C", "b", "S">> ]
Kinds == DOMAIN Chars

(***************************************************************************)
(* split_queries                                                            *)
(***************************************************************************)
\* md::trim
trim(q) == LET solid == {k \in 1..Len(q) : q[k] \notin {" ", "\n", "\r"}}
           IN IF solid = {} THEN <<>> ELSE SubSeq(q, Min(solid), Max(solid))
IsCopy(q) == q # <<>> /\ q[1] = "C" /\ Last(q) = "S"

Start == [qry |-> <<>>, queries |-> <<>>, mode |-> "text", tag |-> <<>>, skip |-> 0]
Add(s, c) == [s EXCEPT !.qry = Append(@, c)]
Flush(s) == [s EXCEPT !.qry = <<>>,
                      !.queries = IF trim(s.qry) = <<>> THEN @ ELSE Append(@, trim(s.qry))]

\* Inside '...' or "...": a doubled quote is an escaped one.
Quoted(s, c, next, quote) ==
    CASE c # quote -> Add(s, c)
      [] c = quote /\ next = quote -> [Add(Add(s, c), c) EXCEPT !.skip = 1]
      [] OTHER -> [Add(s, c) EXCEPT !.mode = "text"]

\* Inside $tag$ ... $tag$.
Dollar_AnyTag(s, t, i) == IF t[i] = "$" THEN [Add(s, "$") EXCEPT !.mode = "text"] ELSE Add(s, t[i])
Dollar(s, t, i) ==
    IF SubSeq(t, i, i + Len(s.tag) - 1) # s.tag THEN Add(s, t[i])
    ELSE [s EXCEPT !.qry = @ \o s.tag, !.skip = Len(s.tag) - 1, !.mode = "text"]

\* The data of COPY, up to a line with \. ; it is a query of its own, even
\* when it is empty.
CopyData(s, c, next, third) ==
    IF c \in {"\n", "\r"} /\ next = "\\" /\ third = "."
    THEN [Start EXCEPT !.queries = Append(s.queries, trim(s.qry)), !.skip = 2]
    ELSE Add(s, c)

Plain(s, c, next) ==
    CASE c = "-" /\ next = "-" -> [s EXCEPT !.mode = "comment"]
      [] c = "$" -> [Add(s, c) EXCEPT !.mode = "tag", !.tag = <<c>>]
      [] c \in {"'", "\""} -> [Add(s, c) EXCEPT !.mode = c]
      [] c = ";" -> [Flush(s) EXCEPT !.mode = IF IsCopy(trim(s.qry)) THEN "copy" ELSE "text"]
      [] OTHER -> Add(s, c)

\* One round of the loop. The last character is taken as it is in every mode;
\* a round that has skipped it leaves the last query behind.
Round(s, t, i) ==
    LET c == t[i]
        At(k) == IF k <= Len(t) THEN t[k] ELSE "\\0"
    IN CASE s.skip > 0 -> [s EXCEPT !.skip = @ - 1]
         [] s.skip = 0 /\ s.mode = "tag" ->
                [Add(s, c) EXCEPT !.tag = Append(@, c), !.mode = IF c = "$" THEN "dollar" ELSE @]
         [] s.skip = 0 /\ s.mode # "tag" /\ i = Len(t) -> Flush(IF c = ";" THEN s ELSE Add(s, c))
         [] OTHER ->
              CASE s.mode = "comment" -> [s EXCEPT !.mode = IF c = "\n" THEN "text" ELSE @]
                [] s.mode \in {"'", "\""} -> Quoted(s, c, At(i + 1), s.mode)
                [] s.mode = "dollar" -> Dollar(s, t, i)
                [] s.mode = "copy" -> CopyData(s, c, At(i + 1), At(i + 2))
                [] OTHER -> Plain(s, c, At(i + 1))

\* The state of the loop after each character.
Rounds(t) ==
    LET after[i \in 0..Len(t)] == IF i = 0 THEN Start ELSE Round(after[i - 1], t, i)
    IN after
split_queries(t) == Rounds(t)[Len(t)].queries

(***************************************************************************)
(* exec_queries. The server's verdict on a query has the numbers of         *)
(* ExecStatusType; the test of its bits also lets an error pass for a copy. *)
(***************************************************************************)
COMMAND_OK == 1
COPY_IN == 4
FATAL_ERROR == 7
Verdict(q, tx) == IF tx = "failed" \/ "b" \in Range(q) THEN FATAL_ERROR
                  ELSE IF q[1] = "C" /\ "S" \in Range(q) THEN COPY_IN
                  ELSE COMMAND_OK
Sent(x, q) == [x EXCEPT !.tx = IF Verdict(q, @) = FATAL_ERROR THEN "failed" ELSE @,
                        !.done = IF Verdict(q, x.tx) = FATAL_ERROR THEN @ ELSE Append(@, q)]

\* One round of the loop over the queries.
exec_query(x, q) ==
    LET status == Verdict(q, x.tx) IN
    IF x.thrown THEN x
    ELSE IF x.copying
    THEN IF x.tx = "failed" THEN [x EXCEPT !.thrown = TRUE]
         ELSE [x EXCEPT !.copying = FALSE, !.done = Append(@, q)]
    ELSE LET copying == status >= COPY_IN /\ IsCopy(q)
         IN [Sent(x, q) EXCEPT !.copying = copying,
                               !.thrown = ~copying /\ status # COMMAND_OK]

\* begin() when the program has no transaction, the queries, commit(). A
\* COMMIT of a failed transaction succeeds, and rolls back.
commit_Always(x) == [x EXCEPT !.tx = "committed"]
commit(x) == IF x.thrown THEN x ELSE [x EXCEPT !.tx = IF @ = "open" THEN "committed" ELSE "rolled back"]
Begun == [tx |-> "open", copying |-> FALSE, thrown |-> FALSE, done |-> <<>>]
exec_all(qs) ==
    LET after[k \in 0..Len(qs)] == IF k = 0 THEN Begun ELSE exec_query(after[k - 1], qs[k])
    IN after[Len(qs)]
exec_queries(t, local_trans) ==
    LET x == exec_all(split_queries(t))
    IN IF local_trans THEN commit(x) ELSE x

(***************************************************************************)
(* The program writes a script and has it executed.                         *)
(***************************************************************************)
Pending == [called |-> FALSE, local |-> FALSE, queries |-> <<>>, result |-> Begun]

\* What the pieces mean, in statements and not in characters: the statements
\* that are complete and the one that is not.
Open == [cur |-> <<>>, all |-> <<>>]
Complete(m, qs) == [cur |-> <<>>, all |-> m.all \o qs]
Close(m) == Complete(m, IF trim(m.cur) = <<>> THEN <<>> ELSE <<trim(m.cur)>>)
Meant(m, p) ==
    CASE p = "semicolon" -> Close(m)
      [] p = "comment" -> m
      [] p = "copy" -> Complete(m, << <<"C", "S">>, <<"x", "'", "\n", "\\", "x">> >>)
      [] p = "badcopy" -> Complete(m, << <<"C", "b", "S">>, <<"x">> >>)
      [] OTHER -> [m EXCEPT !.cur = @ \o Chars[p]]
Statements == Close(meant).all

\* COPY begins a statement, and without data it can only be the last.
EndsWith(kinds) == pieces # <<>> /\ Last(pieces) \in kinds
CanFollow(p) ==
    /\ ~EndsWith({"lastcopy"})
    /\ p \in {"copy", "badcopy", "csvcopy", "lastcopy"} => trim(meant.cur) = <<>>

Init == pieces = <<>> /\ text = <<>> /\ meant = Open /\ out = Pending
Write(p) ==
    /\ ~out.called /\ Len(pieces) < MaxPieces
    /\ CanFollow(p)
    /\ pieces' = Append(pieces, p)
    /\ text' = text \o Chars[p]
    /\ meant' = Meant(meant, p)
    /\ UNCHANGED out
Execute(local) ==
    /\ ~out.called
    /\ out' = [called |-> TRUE, local |-> local, queries |-> split_queries(text),
               result |-> exec_queries(text, local)]
    /\ UNCHANGED <<pieces, text, meant>>
Next == (\E p \in Kinds : Write(p)) \/ (\E local \in BOOLEAN : Execute(local))
Spec == Init /\ [][Next]_vars

-----------------------------------------------------------------------------
(* Properties                                                              *)

\* The queries that split_queries cuts from the characters are the statements
\* of the script, whatever quotes, comments and COPY data contain; only a
\* script that ends with a dollar quote loses its last statement.
SplitsScript ==
    out.called =>
        out.queries = IF EndsWith({"dollar", "tagged"}) THEN Front(Statements) ELSE Statements

Returns ==
    out.called /\ ~out.result.thrown /\ ~EndsWith({"lastcopy"}) =>
        /\ out.result.done = out.queries
        /\ out.result.tx = IF out.local THEN "committed" ELSE "open"

Throws ==
    out.called /\ (out.result.thrown \/ EndsWith({"lastcopy"})) =>
        /\ IsPrefix(out.result.done, out.queries)
        /\ out.result.tx # "committed"

\* When exec_queries returns, every query was accepted, in order, COPY data
\* included, and a transaction of its own is committed; when it throws, what
\* was accepted is a beginning of the script and nothing is committed. The
\* exception is a script that ends in a COPY the server refuses: it returns,
\* and nothing is committed.
AllOrNothing == Returns /\ Throws
=============================================================================
