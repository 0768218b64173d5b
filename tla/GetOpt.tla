------------------------------- MODULE GetOpt -------------------------------
(***************************************************************************)
(* The getopt that argtable3 brings along (getopt_long.c).  Its globals    *)
(* and static variables are the record g: the copy of argv it rearranges,  *)
(* from 0 on, optind, place (what is left of the argument being read),     *)
(* nonopt_start, nonopt_end, optarg and optopt.  An argument is a sequence *)
(* of symbols: "-", "=", letters of short options, names of long ones and  *)
(* pieces of values.                                                       *)
(***************************************************************************)
EXTENDS Integers, Sequences, SequencesExt

CONSTANT Abbreviations   \* pairs of a proper beginning of a name and the name

NULL == {}
NoIndex == -1

RECURSIVE gcd(_, _)
gcd(a, b) == IF a % b = 0 THEN b ELSE gcd(b, a % b)

\* Mutant: the blocks are exchanged in one cycle.
permute_args_OneCycle(start, end, optend, argv) ==
  LET nnonopts == end - start
      nopts == optend - end
      Move(s, j) == LET pos == IF s.pos >= end THEN s.pos - nnonopts ELSE s.pos + nopts
                    IN  [pos |-> pos, a |-> [s.a EXCEPT ![pos] = s.a[end], ![end] = s.a[pos]]]
  IN  FoldLeft(Move, [pos |-> end, a |-> argv], [j \in 1..(optend - start) |-> j]).a

\* The block from start to before end changes places with the one from end to before
\* optend, in cycles of single moves.
permute_args(start, end, optend, argv) ==
  LET nnonopts == end - start
      nopts == optend - end
      ncycle == gcd(nnonopts, nopts)
      Move(cstart, s, j) ==
        LET pos == IF s.pos >= end THEN s.pos - nnonopts ELSE s.pos + nopts
        IN  [pos |-> pos, a |-> [s.a EXCEPT ![pos] = s.a[cstart], ![cstart] = s.a[pos]]]
      Cycle(a, i) ==
        LET cstart == end + i - 1
        IN  FoldLeft(LAMBDA s, j : Move(cstart, s, j), [pos |-> cstart, a |-> a],
                     [j \in 1..((optend - start) \div ncycle) |-> j]).a
  IN  FoldLeft(Cycle, argv, [i \in 1..ncycle |-> i])

\* The long options in the order of the table, with the index of their entry.
LongOptions(table) ==
  FlattenSeq([t \in DOMAIN table |-> [i \in DOMAIN table[t].long |-> <<table[t].long[i], t>>]])

\* The entry a name or the beginning of one stands for: {} unknown, or ambiguous
\* because a second name has begun with it before the name itself was found.
MatchLong(table, name) ==
  LET options == LongOptions(table)
      exact == {i \in DOMAIN options : options[i][1] = name}
      first == IF exact = {} THEN Len(options) + 1 ELSE CHOOSE i \in exact : \A j \in exact : i <= j
      partial == {i \in 1..first - 1 : <<name, options[i][1]>> \in Abbreviations}
  IN  IF \E i, j \in partial : i # j THEN {}
      ELSE IF exact # {} THEN {options[first][2]}
      ELSE {options[i][2] : i \in partial}

\* place is the argument behind its dashes.  The name is empty if it starts with "=".
parse_long_options(table, g, place) ==
  LET name == IF place = <<>> \/ place[1] = "=" THEN "" ELSE place[1]
      equals == {i \in DOMAIN place : place[i] = "="}
      given == {SubSeq(place, i + 1, Len(place)) : i \in equals}
      match == MatchLong(table, name)
      read == [g EXCEPT !.optind = @ + 1, !.place = <<>>]
      Bad(code, opt, h) == [g |-> [h EXCEPT !.optopt = opt], ret |-> <<code>>]
  IN  IF match = {} THEN Bad("?", NULL, read)
      ELSE
      LET t == CHOOSE i \in match : TRUE
          Found(h) == [g |-> h, ret |-> <<"long", t>>]
      IN  CASE table[t].arg = "none" -> IF given # {} THEN Bad(":", NULL, read) ELSE Found(read)
            [] table[t].arg = "optional" -> Found([read EXCEPT !.optarg = given])
            [] OTHER -> IF given # {} THEN Found([read EXCEPT !.optarg = given])
                        ELSE IF read.optind \notin DOMAIN g.argv THEN Bad(":", NULL, read)
                        ELSE Found([read EXCEPT !.optarg = {g.argv[read.optind]}, !.optind = @ + 1])

\* A letter of a short option, the first of those left in place.
ShortOption(table, g) ==
  LET c == g.place[1]
      rest == Tail(g.place)
      entries == {t \in DOMAIN table : c \in table[t].short}
      arg == table[CHOOSE t \in entries : \A u \in entries : t <= u].arg
      stepped == [g EXCEPT !.place = rest, !.optind = IF rest = <<>> THEN @ + 1 ELSE @]
      read == [g EXCEPT !.place = <<>>, !.optind = @ + 1]
  IN  IF entries = {} THEN [g |-> [stepped EXCEPT !.optopt = {c}], ret |-> <<"?">>]
      ELSE IF arg = "none" THEN [g |-> stepped, ret |-> <<"short", c>>]
      ELSE IF rest # <<>> THEN [g |-> [read EXCEPT !.optarg = {rest}], ret |-> <<"short", c>>]
      ELSE IF arg = "optional" THEN [g |-> read, ret |-> <<"short", c>>]
      ELSE IF read.optind \notin DOMAIN g.argv
        THEN [g |-> [read EXCEPT !.optopt = {c}], ret |-> <<":">>]
      ELSE [g |-> [read EXCEPT !.optarg = {g.argv[read.optind]}, !.optind = @ + 1],
            ret |-> <<"short", c>>]

Option(table, g) ==
  IF g.place[1] = "-" THEN parse_long_options(table, g, Tail(g.place)) ELSE ShortOption(table, g)

\* The arguments skipped go behind the options that have been read, up to optind.
Permuted(g) == [g EXCEPT !.argv = permute_args(g.ns, g.ne, g.optind, g.argv)]
Exchange(g) ==
  IF g.ne = NoIndex THEN [g EXCEPT !.ns = NoIndex]
  ELSE [Permuted(g) EXCEPT !.optind = @ - (g.ne - g.ns), !.ns = NoIndex, !.ne = NoIndex]
EndOfArgs(g) ==
  IF g.ne = NoIndex /\ g.ns # NoIndex THEN [g EXCEPT !.optind = g.ns, !.ns = NoIndex] ELSE Exchange(g)

Skipped(g) ==
  LET h == IF g.ns = NoIndex THEN [g EXCEPT !.ns = g.optind]
           ELSE IF g.ne # NoIndex
             THEN [Permuted(g) EXCEPT !.ns = g.optind - (g.ne - g.ns), !.ne = NoIndex]
           ELSE g
  IN  [h EXCEPT !.optind = @ + 1]

IsOption(arg) == Len(arg) > 1 /\ arg[1] = "-"

\* One turn of getopt_internal from the label start, with optarg cleared.  It ends
\* with what the function returns, or with "again" for the jump back.
getopt_internal(table, posixly_correct, g0) ==
  LET g == [g0 EXCEPT !.optarg = NULL]
      arg == g.argv[g.optind]
      h == IF g.ns # NoIndex /\ g.ne = NoIndex THEN [g EXCEPT !.ne = g.optind] ELSE g
  IN  IF g.place # <<>> THEN Option(table, g)
      ELSE IF g.optind \notin DOMAIN g.argv THEN [g |-> EndOfArgs(g), ret |-> <<"end">>]
      ELSE IF ~IsOption(arg)
        THEN IF posixly_correct THEN [g |-> g, ret |-> <<"end">>]
             ELSE [g |-> Skipped(g), ret |-> <<"again">>]
      ELSE IF arg = <<"-", "-">>
        THEN [g |-> Exchange([h EXCEPT !.optind = @ + 1]), ret |-> <<"end">>]
      ELSE Option(table, [h EXCEPT !.place = Tail(arg)])
====
