------------------------------ MODULE ArgParse ------------------------------
(***************************************************************************)
(* arg_parse of argtable3 (argtable3.c): the options with getopt, turn by  *)
(* turn, then the arguments that are left, then the counts.  A program may *)
(* parse the same arguments again.                                         *)
(***************************************************************************)
EXTENDS GetOpt, ArgScan

CONSTANTS
  CommandLines, \* pairs of an argtable (a sequence of entries) and the arguments
  MaxErrors,    \* maxcount of arg_end
  MaxParses     \* bound on the parses of one program

VARIABLES
  table, argv, posix,   \* given
  pc,                   \* where arg_parse is
  g,                    \* getopt
  stored,               \* for each entry what it has stored
  errors,               \* of arg_end: code, argument
  tabindex, tentative,  \* of arg_parse_untagged
  parses                \* what the parses have brought

vars == <<table, argv, posix, pc, g, stored, errors, tabindex, tentative, parses>>
given == <<table, argv, posix>>

Entries == DOMAIN table
argc == Len(argv)
NoArg == <<>>

\* arg_reset, before or after a parse: every count is 0.
Reset == [t \in Entries |-> <<>>]
\* The copy of argv, which getopt may rearrange, and optind = 0: getopt starts anew.
Fresh == [argv |-> [i \in 0..argc - 1 |-> argv[i + 1]], optind |-> 1, place |-> <<>>,
          ns |-> NoIndex, ne |-> NoIndex, optarg |-> NULL, optopt |-> NULL]

Init ==
  /\ \E line \in CommandLines : table = line[1] /\ argv = line[2]
  /\ posix \in BOOLEAN
  /\ pc = "idle"
  /\ g = Fresh
  /\ stored = Reset
  /\ errors = <<>>
  /\ tabindex = 1 /\ tentative = NULL
  /\ parses = <<>>

arg_register_error(list, code, arg) ==
  IF Len(list) < MaxErrors THEN Append(list, <<code, arg>>)
  ELSE [list EXCEPT ![MaxErrors] = <<"LIMIT", NoArg>>]

\* Mutant: what an earlier parse has stored is kept.
arg_parse_NoReset ==
  /\ pc = "idle" /\ Len(parses) < MaxParses
  /\ stored' = stored /\ errors' = <<>>
  /\ g' = Fresh
  /\ pc' = IF argc = 0 THEN "check" ELSE "tagged"
  /\ UNCHANGED <<given, tabindex, tentative, parses>>

arg_parse ==
  /\ pc = "idle" /\ Len(parses) < MaxParses
  /\ stored' = Reset /\ errors' = <<>>
  /\ g' = Fresh
  /\ pc' = IF argc = 0 THEN "check" ELSE "tagged"
  /\ UNCHANGED <<given, tabindex, tentative, parses>>

\* The first entry with this letter.
find_shortoption(c) ==
  CHOOSE t \in Entries : c \in table[t].short /\ \A u \in 1..t - 1 : c \notin table[u].short

\* An option found: its value is scanned and an error of that registered.
ScanInto(t, argval, list) ==
  LET r == scanfn(table[t], stored[t], argval)
  IN  /\ stored' = [stored EXCEPT ![t] = r.stored]
      /\ errors' = IF r.e = "" THEN list
                   ELSE arg_register_error(list, r.e, FlattenSeq(SetToSeq(argval)))

\* The loop of arg_parse_tagged: one turn of getopt and what its result asks for.
arg_parse_tagged ==
  /\ pc = "tagged"
  /\ LET r == getopt_internal(table, posix, g)
         before == r.g.argv[r.g.optind - 1]
         empty == r.g.optarg = {NoArg}
     IN  /\ g' = r.g
         /\ CASE r.ret[1] \in {"again", "end"} -> UNCHANGED <<stored, errors>>
              [] r.ret[1] = "long" ->
                   ScanInto(r.ret[2], r.g.optarg,
                            IF empty THEN arg_register_error(errors, "MISSARG", before) ELSE errors)
              [] r.ret[1] = "short" -> ScanInto(find_shortoption(r.ret[2]), r.g.optarg, errors)
              [] r.ret[1] = "?" ->
                   /\ errors' = IF r.g.optopt = NULL THEN arg_register_error(errors, "LONGOPT", before)
                                ELSE arg_register_error(errors, "UNKNOWN", SetToSeq(r.g.optopt))
                   /\ UNCHANGED stored
              [] r.ret[1] = ":" ->
                   /\ errors' = arg_register_error(errors, "MISSARG", before)
                   /\ UNCHANGED stored
         /\ pc' = IF r.ret[1] = "end" THEN "untagged" ELSE "tagged"
  /\ tabindex' = 1 /\ tentative' = NULL
  /\ UNCHANGED <<given, parses>>

\* The loop of arg_parse_untagged: an argument is tried with one entry after the
\* other that has no options.
arg_parse_untagged ==
  /\ pc = "untagged" /\ tabindex \in Entries
  /\ LET entry == table[tabindex]
         arg == g.argv[g.optind]
         r == scanfn(entry, stored[tabindex], {arg})
     IN  IF g.optind >= argc
           THEN pc' = "check" /\ UNCHANGED <<g, stored, tabindex, tentative>>
         ELSE IF entry.short # {} \/ entry.long # <<>>
           THEN tabindex' = tabindex + 1 /\ UNCHANGED <<pc, g, stored, tentative>>
         ELSE IF r.e = ""
           THEN /\ stored' = [stored EXCEPT ![tabindex] = r.stored]
                /\ g' = [g EXCEPT !.optind = @ + 1]
                /\ tentative' = NULL
                /\ UNCHANGED <<pc, tabindex>>
         ELSE /\ tabindex' = tabindex + 1
              /\ tentative' = {<<r.e, arg>>}
              /\ UNCHANGED <<pc, g, stored>>
  /\ UNCHANGED <<given, errors, parses>>

\* Mutant: what follows the last refusal is not looked at.
UntaggedRest_Silent ==
  /\ pc = "untagged" /\ tabindex \notin Entries
  /\ errors' = FoldLeft(LAMBDA list, e : arg_register_error(list, e[1], e[2]), errors, SetToSeq(tentative))
  /\ g' = [g EXCEPT !.optind = argc]
  /\ pc' = "check"
  /\ UNCHANGED <<given, stored, tabindex, tentative, parses>>

\* Behind the last entry: the last refusal, then everything nobody has taken.
UntaggedRest ==
  /\ pc = "untagged" /\ tabindex \notin Entries
  /\ LET refused == SetToSeq(tentative)
         from == g.optind + Len(refused)
         rest == [i \in 1..(argc - from) |-> <<"NOMATCH", g.argv[from + i - 1]>>]
     IN  /\ errors' = FoldLeft(LAMBDA list, e : arg_register_error(list, e[1], e[2]), errors, refused \o rest)
         /\ g' = [g EXCEPT !.optind = Max({argc, from})]
  /\ pc' = "check"
  /\ UNCHANGED <<given, stored, tabindex, tentative, parses>>

arg_parse_check ==
  /\ pc = "check"
  /\ LET Check(list, t) ==
           IF checkfn(table[t], stored[t]) = "" THEN list
           ELSE arg_register_error(list, checkfn(table[t], stored[t]), NoArg)
     IN  errors' = IF errors = <<>> THEN FoldLeft(Check, errors, [t \in Entries |-> t]) ELSE errors
  /\ pc' = "parsed"
  /\ parses' = Append(parses, <<stored, errors'>>)
  /\ UNCHANGED <<given, g, stored, tabindex, tentative>>

ParseAgain == pc = "parsed" /\ pc' = "idle" /\ UNCHANGED <<given, g, stored, errors, tabindex, tentative, parses>>

ArgNext ==
  \/ arg_parse \/ arg_parse_tagged \/ arg_parse_untagged \/ UntaggedRest \/ arg_parse_check
  \/ ParseAgain
-----------------------------------------------------------------------------
\* What the arguments mean, in their order, without moving any.  A group is the
\* arguments one option consists of, then the rest after "--".
TakesNext(arg) ==
  LET letters == SubSeq(arg, 2, Len(arg))
      kind(c) == {table[t].arg : t \in {u \in Entries : c \in table[u].short}}
  IN  IF arg[2] = "-" THEN Len(arg) = 3 /\ \E t \in MatchLong(table, arg[3]) : table[t].arg = "required"
      ELSE /\ "required" \in kind(Last(letters))
           /\ \A i \in 1..Len(letters) - 1 : "required" \notin kind(letters[i])

\* How many options an argument stands for.
UsesOf(arg) ==
  LET stops == {i \in 2..Len(arg) : \E t \in Entries : arg[i] \in table[t].short /\ table[t].arg = "required"}
  IN  IF arg[2] = "-" THEN 1 ELSE (IF stops = {} THEN Len(arg) ELSE CHOOSE i \in stops : \A j \in stops : i <= j) - 1

RECURSIVE Split(_)
Split(args) ==
  LET none == [options |-> <<>>, others |-> <<>>, uses |-> 0]
  IN  IF args = <<>> THEN none
      ELSE IF ~IsOption(args[1])
        THEN IF posix THEN [none EXCEPT !.others = args]
             ELSE LET r == Split(Tail(args)) IN [r EXCEPT !.others = <<args[1]>> \o @]
      ELSE IF args[1] = <<"-", "-">> THEN [none EXCEPT !.options = <<args[1]>>, !.others = Tail(args)]
      ELSE LET n == IF TakesNext(args[1]) /\ Len(args) > 1 THEN 2 ELSE 1
               r == Split(SubSeq(args, n + 1, Len(args)))
           IN  [r EXCEPT !.options = SubSeq(args, 1, n) \o @, !.uses = UsesOf(args[1]) + @]

\* The rearranged arguments after the loop of arg_parse_tagged: the options with their
\* values in front, the others behind, both in the order they were given, and optind
\* at the first of the others (permute_args moves them in cycles, several times).
OptionsFirst ==
  pc = "untagged" /\ tabindex = 1
    /\ (\A t \in Entries : table[t].short = {} /\ table[t].long = <<>> => stored[t] = <<>>) =>
    LET split == Split(Tail(argv))
    IN  /\ [i \in 1..argc |-> g.argv[i - 1]] = <<argv[1]>> \o split.options \o split.others
        /\ g.optind = 1 + Len(split.options)

\* A parse that reports no error has stored a value for every option and every other
\* argument, once, the ones of options with the entries that have options, and every
\* count is within its bounds (arg_parse_tagged, arg_parse_untagged, arg_parse_check).
EveryArgumentUsed ==
  pc = "parsed" /\ errors = <<>> =>
    LET split == Split(IF argc = 0 THEN <<>> ELSE Tail(argv))
        untagged == {t \in Entries : table[t].short = {} /\ table[t].long = <<>>}
        Count(ts) == FoldLeft(LAMBDA n, t : n + (IF t \in ts THEN Len(stored[t]) ELSE 0), 0, [t \in Entries |-> t])
    IN  /\ \A t \in Entries : Len(stored[t]) \in table[t].min..table[t].max
        /\ Count(untagged) = Len(split.others)
        /\ Count(Entries \ untagged) = split.uses

\* No argument is lost, moved to the wrong side or taken twice (getopt_long.c,
\* argtable3.c).
ArgumentsExact == OptionsFirst /\ EveryArgumentUsed

\* What an entry has stored is within the range of its type and its count within
\* its maximum, at any time; a number is what its text says, with its suffix.
ValuesInRange ==
  \A t \in Entries :
    /\ Len(stored[t]) <= table[t].max
    /\ table[t].type = "int" =>
         \A i \in DOMAIN stored[t] : \A x \in {stored[t][i][k] : k \in DOMAIN stored[t][i]} :
           x \in INT_MIN..INT_MAX
    /\ table[t].type = "file" =>
         \A i \in DOMAIN stored[t] : LET f == stored[t][i] IN
           f # <<>> => /\ IsSuffix(f[2], f[1]) /\ IsSuffix(f[3], f[2])
                       /\ f[3] # <<>> => f[3] # f[2] /\ f[3][1] = "." /\ Len(f[3]) > 1

\* Parsing the same arguments again brings the same values and the same errors: neither
\* the statics of getopt nor the entries nor the moved arguments of the first parse matter.
ParsesAgree == \A i, j \in DOMAIN parses : parses[i] = parses[j]
====
