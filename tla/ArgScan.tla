------------------------------ MODULE ArgScan ------------------------------
(***************************************************************************)
(* How the entries of an argtable read their values (arg_lit.c, arg_str.c, *)
(* arg_int.c, arg_dbl.c, arg_file.c).  A value is a sequence of symbols: a *)
(* file name, of words, "/" and "."; a number, one whose parts are given   *)
(* by Numbers.  An entry is a record of its options, its type and the      *)
(* bounds min and max on its count; what it has stored is a sequence as    *)
(* long as its count.                                                      *)
(***************************************************************************)
EXTENDS Integers, Sequences, SequencesExt

\* The parts of the texts strtol accepts: sign and inner sign (behind a prefix), 1 or
\* -1, prefix "", "X", "O" or "B", absolute value and suffix.  INT_MAX and the number
\* 1024 are smaller than they are.
CONSTANTS Numbers, INT_MAX, Kilo

INT_MIN == -INT_MAX - 1

\* The quotient of C, towards zero.
Quotient(a, b) == IF a >= 0 THEN a \div b ELSE -((-a) \div b)

\* An entry as arg_litn, arg_strn, arg_intn, arg_dbln and arg_filen make it.
NewEntry(type, short, long, min, max) ==
  [type |-> type, short |-> short, long |-> long, min |-> min,
   max |-> IF max < min THEN min ELSE max,
   arg |-> IF type = "lit" THEN "none" ELSE "required"]

Scanned(stored) == [e |-> "", stored |-> stored]
Refused(e, stored) == [e |-> e, stored |-> stored]

arg_lit_scanfn(entry, stored, argval) ==
  IF Len(stored) < entry.max THEN Scanned(Append(stored, <<>>)) ELSE Refused("MAXCOUNT", stored)

\* A value that is not given is counted and leaves what is stored alone: here <<>>.
Counted(entry, stored, argval, Scan(_)) ==
  IF Len(stored) = entry.max THEN Refused("MAXCOUNT", stored)
  ELSE IF argval = {} THEN Scanned(Append(stored, <<>>))
  ELSE Scan(CHOOSE v \in argval : TRUE)

arg_str_scanfn(entry, stored, argval) ==
  Counted(entry, stored, argval, LAMBDA v : Scanned(Append(stored, v)))

\* The number in a text with the prefix 0X, {} if it has another one.
strtol0X(n, X) == {n.sign * n.inner * n.val : x \in {n.prefix} \cap {X}}

\* Mutant: the limit is looked at before the suffix only.
Multiplied_Unchecked(val, factor) == {val * factor}

\* With a suffix: {} is an overflow.
Multiplied(val, factor) ==
  IF val > INT_MAX \div factor \/ val < Quotient(INT_MIN, factor) THEN {} ELSE {val * factor}

arg_int_scanfn(entry, stored, argval) ==
  Counted(entry, stored, argval,
    LAMBDA v :
      IF v \notin DOMAIN Numbers THEN Refused("BADINT", stored)
      ELSE
      LET n == Numbers[v]
          val == CHOOSE x \in UNION {strtol0X(n, X) : X \in {"X", "O", "B", ""}} : TRUE
          factor == CASE n.suffix = "KB" -> Kilo [] n.suffix = "MB" -> Kilo * Kilo
                      [] n.suffix = "GB" -> Kilo * Kilo * Kilo [] OTHER -> 1
          product == IF factor = 1 THEN {val} ELSE Multiplied(val, factor)
      IN  IF n.suffix \notin {"", "KB", "MB", "GB"} THEN Refused("BADINT", stored)
          ELSE IF val \notin INT_MIN..INT_MAX \/ product = {} THEN Refused("OVERFLOW", stored)
          ELSE Scanned(Append(stored, <<CHOOSE x \in product : TRUE>>)))

\* strtod: a value it does not read to the end is refused; the empty one is 0.
arg_dbl_scanfn(entry, stored, argval) ==
  Counted(entry, stored, argval,
    LAMBDA v : IF v = <<>> \/ (v \in DOMAIN Numbers /\ Numbers[v].suffix = "")
               THEN Scanned(Append(stored, v)) ELSE Refused("BADDOUBLE", stored))

LastOf(s, symbol) == Max({0} \cup {i \in DOMAIN s : s[i] = symbol})

arg_basename(name) ==
  LET base == SubSeq(name, LastOf(name, "/") + 1, Len(name))
  IN  IF base \in {<<".">>, <<".", ".">>} THEN <<>> ELSE base

arg_extension(base) ==
  LET dot == LastOf(base, ".")
  IN  IF dot \in {0, 1, Len(base)} THEN <<>> ELSE SubSeq(base, dot, Len(base))

arg_file_scanfn(entry, stored, argval) ==
  Counted(entry, stored, argval,
    LAMBDA v : Scanned(Append(stored, <<v, arg_basename(v), arg_extension(arg_basename(v))>>)))

scanfn(entry, stored, argval) ==
  CASE entry.type = "lit" -> arg_lit_scanfn(entry, stored, argval)
    [] entry.type = "str" -> arg_str_scanfn(entry, stored, argval)
    [] entry.type = "int" -> arg_int_scanfn(entry, stored, argval)
    [] entry.type = "dbl" -> arg_dbl_scanfn(entry, stored, argval)
    [] entry.type = "file" -> arg_file_scanfn(entry, stored, argval)

checkfn(entry, stored) == IF Len(stored) < entry.min THEN "MINCOUNT" ELSE ""
====
