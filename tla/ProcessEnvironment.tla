-------------------------- MODULE ProcessEnvironment --------------------------
(***************************************************************************)
(* What a program is given by Pexec0 (src/gemdos/gemdos_p.c) and finds with*)
(* getenv (src/gemdos/tbgemdos.c).  Pexec0 hands GEMDOS one block of       *)
(* strings, each ended by a zero byte: the parent's environment, ARGV=, the*)
(* path, the arguments, and an empty string.  A copy of the arguments cut  *)
(* to the length of a command tail goes to programs that do not know ARGV. *)
(*                                                                         *)
(* The arguments are measured in a first pass over the script's table and  *)
(* copied in a second, with Lua objects created before, between and during *)
(* the passes: a finalizer may write to the table there.                   *)
(*                                                                         *)
(* A string is the sequence of its bytes; the five of "ARGV=" are one here.*)
(* The child is external: it reads the block by the ARGV convention.       *)
(***************************************************************************)
EXTENDS Integers, SequencesExt

CONSTANTS
  Byte,          \* bytes, and "ARGV="
  EnvString,     \* strings an environment can hold
  MaxEnv,        \* strings in an environment (a bound)
  Value,         \* what a table of arguments can hold: byte strings, or NIL
  MaxArgs,       \* arguments (a bound)
  TailMax,       \* bytes of the arguments in the tail: 125
  MaxRewrites,   \* writes of finalizers to the table during the call (a bound)
  EnvName,       \* names of variables that are looked up
  NIL            \* a value that is no string

ASSUME SizesAreNumbers ==
  {MaxEnv, MaxArgs, TailMax, MaxRewrites} \subseteq Nat

NUL == "0"
SPACE == " "
EQ == "="
ARGV == <<"ARGV=">>
Path == <<"p">>

ASSUME StringsAreBytes ==
  /\ {NUL, SPACE, EQ} \subseteq Byte
  /\ EnvString \cup (Value \ {NIL}) \cup {ARGV, Path} \subseteq Seq(Byte)

\* GEMDOS ends a string with a zero byte, and an environment with an empty
\* string.  What stands after ARGV= is no part of it: the start-up code of the
\* parent took its own arguments from there.
ASSUME EnvironmentHoldsStrings ==
  \A s \in EnvString : s \notin {<<>>, ARGV} /\ NUL \notin ToSet(s)

\* Variables have names.
ASSUME NamesAreNames ==
  EnvName \subseteq Seq(Byte \ {NUL, EQ}) \ {<<>>}

VARIABLES
  envp,          \* the strings of the parent's environment
  table,         \* the script's table of arguments
  given,         \* history: that table when it was called
  rewrites,      \* how often a finalizer wrote to it since
  pc,            \* "measure", "copy", "child"; "raised", or "overrun"
  key,           \* the key the pass is at
  total,         \* bytes the first pass counted
  copied,        \* bytes the second pass has copied
  tail,          \* the command tail, without its length byte and terminator
  block          \* the environment block of the child

vars == <<envp, table, given, rewrites, pc, key, total, copied, tail, block>>

Init ==
  /\ envp \in BoundedSeq(EnvString, MaxEnv)
  /\ table \in BoundedSeq(Value, MaxArgs)
  /\ given = table
  /\ rewrites = 0
  /\ pc = "measure"
  /\ key = 1
  /\ total = 0
  /\ copied = <<>>
  /\ tail = <<>>
  /\ block = <<>>
-------------------------------------------------------------------------------
(* Building the block.                                                     *)

\* Strings one after another, each with its zero byte.
Joined(strings) == FlattenSeq([i \in DOMAIN strings |-> Append(strings[i], NUL)])

PushGemdosEnvString == Joined(envp)

\* Faulty: the terminators are not counted.
MeasureWithoutNul ==
  /\ pc = "measure" /\ key <= Len(given)
  /\ IF table[key] \in {NIL, <<>>}
     THEN pc' = "raised" /\ UNCHANGED <<key, total>>
     ELSE /\ total' = total + Len(table[key])
          /\ key' = key + 1
          /\ UNCHANGED pc
  /\ UNCHANGED <<envp, table, given, rewrites, copied, tail, block>>

\* PushArgsString, first pass: an empty argument, or none, is an error.
Measure ==
  /\ pc = "measure" /\ key <= Len(given)
  /\ IF table[key] \in {NIL, <<>>}
     THEN pc' = "raised" /\ UNCHANGED <<key, total>>
     ELSE /\ total' = total + Len(table[key]) + 1
          /\ key' = key + 1
          /\ UNCHANGED pc
  /\ UNCHANGED <<envp, table, given, rewrites, copied, tail, block>>

\* The buffer is allocated with the size measured.
Allocate ==
  /\ pc = "measure" /\ key > Len(given)
  /\ pc' = "copy" /\ key' = 1
  /\ UNCHANGED <<envp, table, given, rewrites, total, copied, tail, block>>

\* Second pass: the value is not looked at again.  What no longer is a string,
\* or goes beyond the buffer, is memory the program should not touch.
Copy ==
  /\ pc = "copy" /\ key <= Len(given)
  /\ IF table[key] = NIL \/ Len(copied) + Len(table[key]) + 1 > total
     THEN pc' = "overrun" /\ UNCHANGED <<key, copied>>
     ELSE /\ copied' = copied \o Append(table[key], NUL)
          /\ key' = key + 1
          /\ UNCHANGED pc
  /\ UNCHANGED <<envp, table, given, rewrites, total, tail, block>>

\* The string pushed has the size measured; what was not copied is whatever
\* the buffer held.
ArgsString == copied \o [i \in 1..(total - Len(copied)) |-> "?"]

\* Faulty: the tail stops at the first argument.
TailOfFirst(args) ==
  SubSeq(args, 1, SelectInSeq(args, LAMBDA b : b = NUL) - 1)

\* Up to TailMax bytes, with a space for each zero byte.
TailOf(args) ==
  [i \in 1..Min({TailMax, Len(args)}) |-> IF args[i] = NUL THEN SPACE ELSE args[i]]

\* Faulty: ARGV= is pushed without its zero byte.
PexecOpenArgv ==
  /\ pc = "copy" /\ key > Len(given)
  /\ tail' = TailOf(ArgsString)
  /\ block' = PushGemdosEnvString \o Joined(<<ARGV \o Path>>) \o ArgsString \o <<NUL>>
  /\ pc' = "child"
  /\ UNCHANGED <<envp, table, given, rewrites, key, total, copied>>

\* Five strings are joined and GEMDOS starts the child.  Without a table of
\* arguments this is what an empty one gives.
l_Pexec0 ==
  /\ pc = "copy" /\ key > Len(given)
  /\ tail' = TailOf(ArgsString)
  /\ block' = PushGemdosEnvString \o Joined(<<ARGV, Path>>) \o ArgsString \o <<NUL>>
  /\ pc' = "child"
  /\ UNCHANGED <<envp, table, given, rewrites, key, total, copied>>

\* A finalizer assigns to the table.
Rewrite ==
  /\ pc \in {"measure", "copy"} /\ rewrites < MaxRewrites
  /\ \E k \in DOMAIN table, v \in Value : table' = [table EXCEPT ![k] = v]
  /\ rewrites' = rewrites + 1
  /\ UNCHANGED <<envp, given, pc, key, total, copied, tail, block>>

Next == Measure \/ Allocate \/ Copy \/ l_Pexec0 \/ Rewrite

Spec == Init /\ [][Next]_vars
-------------------------------------------------------------------------------
(* Looking up variables.                                                   *)

\* What stands before the first "=", and after it.
Name(string) == SubSeq(string, 1, SelectInSeq(string, LAMBDA b : b = EQ) - 1)
Content(string) ==
  SubSeq(string, SelectInSeq(string, LAMBDA b : b = EQ) + 1, Len(string))

IsVariable(string) == SelectInSeq(string, LAMBDA b : b = EQ) > 1

\* Faulty: what follows the name is not compared.
GetEnvPrefix(name, strings) ==
  LET first == SelectInSeq(strings, LAMBDA s : IsPrefix(name, s))
  IN  IF first = 0 THEN NIL
      ELSE SubSeq(strings[first], Len(name) + 2, Len(strings[first]))

\* The first string that begins with the name and "=".
GetEnvStr(name, strings) ==
  LET first == SelectInSeq(strings, LAMBDA s : IsPrefix(Append(name, EQ), s))
  IN  IF first = 0 THEN NIL
      ELSE SubSeq(strings[first], Len(name) + 2, Len(strings[first]))

\* All variables, a later one of the same name in place of an earlier.
GetEnvTbl(strings) ==
  LET variables == {i \in DOMAIN strings : IsVariable(strings[i])}
  IN  [name \in {Name(strings[i]) : i \in variables} |->
         Content(strings[Max({i \in variables : Name(strings[i]) = name})])]
-------------------------------------------------------------------------------
(* The child.                                                              *)

\* The k-th smallest of a set of numbers.
Kth(S, k) == CHOOSE e \in S : Cardinality({i \in S : i <= e}) = k

\* Where the pieces of bytes end: before a separator, and at the end.
Ends(bytes, separator) ==
  {i \in 1..(Len(bytes) + 1) : i = Len(bytes) + 1 \/ bytes[i] = separator}

Pieces(bytes, separator) ==
  LET ends == Ends(bytes, separator)
  IN  [k \in 1..Cardinality(ends) |->
         SubSeq(bytes, IF k = 1 THEN 1 ELSE Kth(ends, k - 1) + 1, Kth(ends, k) - 1)]

Before(strings, string) ==
  SubSeq(strings, 1, SelectInSeq(strings, LAMBDA s : s = string) - 1)

\* An empty string ends the block.
ChildStrings == Before(Pieces(block, NUL), <<>>)

\* Strings up to ARGV= are the environment, those after it the arguments.
ChildEnv == Before(ChildStrings, ARGV)
ChildArgv ==
  SubSeq(ChildStrings, Len(ChildEnv) + 2, Len(ChildStrings))

\* A program that does not know ARGV finds its arguments between the spaces of
\* the tail; what follows the last space is an argument unless it is empty.
TailWords ==
  LET pieces == Pieces(tail, SPACE)
  IN  IF pieces[Len(pieces)] = <<>> THEN Front(pieces) ELSE pieces
-------------------------------------------------------------------------------
(* Properties.                                                             *)

\* No argument holds the byte.
Without(byte) == \A k \in DOMAIN given : byte \notin ToSet(given[k])

\* The child finds the path and exactly the arguments given, and inherits the
\* environment, when no argument holds a zero byte and no finalizer interfered.
ChildGetsWhatWasGiven ==
  pc = "child" /\ rewrites = 0 /\ Without(NUL) =>
    ChildArgv = <<Path>> \o given /\ ChildEnv = envp

\* The two passes agree: only a finalizer that writes to the table between
\* them can make the copy leave its buffer or leave a part of it unwritten.
CopyIsAsMeasured ==
  rewrites = 0 =>
    pc # "overrun" /\ (pc = "child" => Len(copied) = total)

\* A program that knows only the tail reads the same arguments, the last one
\* it reads perhaps cut, and all of them when they fit, unless one holds a space
\* or a zero byte.
TailIsCutList ==
  pc = "child" /\ rewrites = 0 /\ Without(NUL) /\ Without(SPACE) =>
    LET n == Len(TailWords)
    IN  /\ n <= Len(given)
        /\ \A k \in 1..n :
             IF k < n THEN TailWords[k] = given[k] ELSE IsPrefix(TailWords[k], given[k])
        /\ total <= TailMax => TailWords = given

\* getenv tells of a name what its first variable holds, and its table what the
\* last does; neither takes a variable for one whose name begins alike, nor has
\* anything for a name that is not set.  So they differ only on a name set twice.
TableAgreesWithGetenv ==
  LET all == GetEnvTbl(envp)
  IN  \A name \in EnvName :
        LET its == {i \in DOMAIN envp : IsVariable(envp[i]) /\ Name(envp[i]) = name}
        IN  IF its = {}
            THEN GetEnvStr(name, envp) = NIL /\ name \notin DOMAIN all
            ELSE /\ GetEnvStr(name, envp) = Content(envp[Min(its)])
                 /\ name \in DOMAIN all /\ all[name] = Content(envp[Max(its)])
===============================================================================
