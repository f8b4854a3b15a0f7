------------------------------- MODULE Files -------------------------------
(***************************************************************************)
(* The builtins that look at the file system: cd, ls, and cat and wc of a  *)
(* file, executed by the shell itself.  What outlasts a command is the     *)
(* working directory and the number of descriptors that are still free.    *)
(*                                                                         *)
(* A path is a record of its leading '/' and of the texts between its      *)
(* '/'s, "" where two of them meet or the path ends in one.  The tokens    *)
(* are those main() leaves behind its expansion: a variable is still in    *)
(* one of them only if the value of another variable ends in a '$'.  The   *)
(* empty path also stands for a missing argument and for one too many.     *)
(***************************************************************************)
EXTENDS Integers, Sequences, FiniteSets, Bags, SequencesExt, FiniteSetsExt

CONSTANTS
  Trees,      \* file systems: [dirs |-> set of nodes, text |-> contents of the files]
  MaxFree,    \* descriptors the shell may still open
  Chunk,      \* BUFFERSIZE - 1
  MaxStr,     \* MAX_STR_LEN, the most display_message() writes
  Value,      \* the path each variable stands for
  Number,     \* atoi() of the tokens made of digits only
  strstr,     \* for each substring the names it is found in
  PathOf,     \* the path a token of ls stands for
  Paths,      \* arguments of cd, cat and wc
  LsArgs      \* arguments of ls

Root == <<>>
NoNode == <<"none">>
NoText == ""
NL == "newline"
Space == "space"
Nul == "nul"

Nodes(t) == t.dirs \cup DOMAIN t.text

Path == [abs : BOOLEAN, parts : Seq(STRING)]
Rel(parts) == [abs |-> FALSE, parts |-> parts]

ASSUME TreesAssumption ==
  \A t \in Trees : /\ Root \in t.dirs /\ t.dirs \cap DOMAIN t.text = {} /\ NoNode \notin Nodes(t)
                   /\ Nodes(t) \subseteq Seq(STRING) /\ IsFiniteSet(Nodes(t))
                   /\ \A x \in Nodes(t) \ {Root} : Front(x) \in t.dirs /\ Last(x) \notin {".", ".."}
                   /\ \A f \in DOMAIN t.text : t.text[f] \in Seq(STRING)

(* A path that begins with an empty text begins with a '/'. *)
ASSUME PathsAssumption ==
  /\ NoText \notin DOMAIN Value /\ \A v \in DOMAIN Value : Value[v] \in Path
  /\ \A p \in Paths : p \in Path /\ (~p.abs /\ p.parts # <<>> => p.parts[1] # NoText)

(* Words that begin like an option. *)
OptionLike == {"--f", "--d", "--rec", "--recs"}

(* No option is a number.  A number beyond the range of int may come out   *)
(* negative.                                                               *)
ASSUME LsAssumption ==
  /\ LsArgs \subseteq Seq(STRING)
  /\ DOMAIN Number \cap OptionLike = {} /\ \A n \in DOMAIN Number : Number[n] \in Int

ASSUME SizesAssumption == MaxFree \in Nat /\ Chunk \in Nat \ {0} /\ MaxStr \in Nat

VARIABLES
  tree,   \* the file system
  cwd,    \* the working directory
  free,   \* descriptors that can still be opened
  cmd,    \* history: the command that has just returned, or "none"
  ret,    \* what it returned
  out,    \* what it printed
  was     \* history: cwd and free when it was called

vars == <<tree, cwd, free, cmd, ret, out, was>>

Idle == [name |-> "none", arg |-> <<>>]

Commands ==
  {Idle} \cup [name : {"cd", "cat", "wc"}, arg : Paths] \cup [name : {"ls"}, arg : LsArgs]

TypeOK ==
  /\ tree \in Trees
  /\ cwd \in tree.dirs
  /\ free \in 0 .. MaxFree
  /\ cmd \in Commands /\ ret \in {0, -1}
  /\ was \in [cwd : tree.dirs, free : 0 .. MaxFree]

Init ==
  /\ tree \in Trees
  /\ cwd = Root /\ free = MaxFree
  /\ cmd = Idle /\ ret = 0 /\ out = EmptyBag
  /\ was = [cwd |-> cwd, free |-> free]

---------------------------------------------------------------------------
(* The kernel. *)

(* One component of a path in the tree t, seen from node x. *)
Component(t, x, c) ==
  IF x \notin t.dirs THEN NoNode
  ELSE IF c \in {NoText, "."} THEN x
  ELSE IF c = ".." THEN (IF x = Root THEN Root ELSE Front(x))
  ELSE IF Append(x, c) \in Nodes(t) THEN Append(x, c)
  ELSE NoNode

Walk(t, x, s) ==
  LET w[k \in 0 .. Len(s)] == IF k = 0 THEN x ELSE Component(t, w[k - 1], s[k])
  IN  w[Len(s)]

(* The node p leads to from directory d.  No path is empty: chdir(""),     *)
(* opendir("") and fopen("") fail.                                         *)
Lookup(t, d, p) ==
  IF ~p.abs /\ p.parts = <<>> THEN NoNode
  ELSE Walk(t, IF p.abs THEN Root ELSE d, p.parts)

Below(t, x) == {Last(y) : y \in {z \in Nodes(t) \ {Root} : Front(z) = x}}

Entries(t, x) == {".", ".."} \cup Below(t, x)

---------------------------------------------------------------------------
(* Paths. *)

IsVar(c) == c \in DOMAIN Value
HasVar(p) == \E k \in DOMAIN p.parts : IsVar(p.parts[k])

(* The places of the pieces strtok(path, "/") finds: none is empty. *)
strtok(p) == {k \in DOMAIN p.parts : p.parts[k] # NoText}

(* A piece with a '$' is expanded. *)
Piece(c) == IF IsVar(c) THEN Value[c] ELSE Rel(<<c>>)

(* The pieces joined by '/', some of the n places having none.  An empty   *)
(* piece in front of another one leaves a path that begins with the '/'    *)
(* between them.                                                           *)
Join(abs, n, pieces) ==
  LET at    == DOMAIN pieces
      first == pieces[Min(at)]
  IN
  [abs   |-> \/ abs
             \/ at # {} /\ (first.abs \/ (first.parts = <<>> /\ at # {Min(at)})),
   parts |-> FlattenSeq([k \in 1 .. n |-> IF k \in at THEN pieces[k].parts ELSE <<>>])]

(* x_faulty is a variant of x with a plausible programming error;          *)
(* PROJECT.json says which property each one breaks.                       *)
Dots_faulty(p) ==
  IF p.parts = <<"...">> THEN [p EXCEPT !.parts = <<"..", "..", "..">>] ELSE p

(* cd knows "..." and "....". *)
Dots(p) ==
  IF p = Rel(<<"...">>) THEN Rel(<<"..", "..">>)
  ELSE IF p = Rel(<<"....">>) THEN Rel(<<"..", "..", "..">>)
  ELSE p

cd_path(p) ==
  Join(p.abs, Len(p.parts), [k \in strtok(p) |-> Dots(Piece(p.parts[k]))])

(* cat and wc split a path with a '$' only, and drop its first '/'. *)
file_path(p) ==
  IF HasVar(p) THEN Join(FALSE, Len(p.parts), [k \in strtok(p) |-> Piece(p.parts[k])]) ELSE p

---------------------------------------------------------------------------
(* ls *)

Info == [has_path |-> 0, path |-> ".", has_rec |-> 0, has_substring |-> 0, has_depth |-> 0,
         depth |-> -1, substring |-> "none", valid |-> 1]

NoSubstring(info, s) ==
  s \in OptionLike \cup {NoText} \/ (info.has_substring = 1 /\ info.substring # s)

(* One turn of the loop over the tokens; "return" ends it. *)
parse_turn(tokens, st) ==
  LET i     == st.i
      info  == st.info
      end   == Len(tokens) + 1
      Stop(new) == [i |-> end, info |-> new]
      Invalid   == Stop([info EXCEPT !.valid = 0])
  IN
  CASE i = end -> st
    [] i # end /\ tokens[i] = "--f" ->
         IF i + 1 = end \/ NoSubstring(info, tokens[i + 1]) THEN Invalid
         ELSE [i |-> i + 2, info |-> [info EXCEPT !.has_substring = 1, !.substring = tokens[i + 1]]]
    [] i # end /\ tokens[i] = "--d" ->
         IF i + 1 = end \/ tokens[i + 1] \notin DOMAIN Number THEN Invalid
         ELSE [i |-> i + 2, info |-> [info EXCEPT !.has_depth = 1, !.depth = Number[tokens[i + 1]]]]
    [] i # end /\ tokens[i] = "--rec" -> [i |-> i + 1, info |-> [info EXCEPT !.has_rec = 1]]
    [] OTHER ->
         IF info.has_path > 0 THEN Stop([info EXCEPT !.has_path = @ + 1, !.valid = 0])
         ELSE [i |-> i + 1, info |-> [info EXCEPT !.has_path = 1, !.path = tokens[i]]]

parse_ls(tokens) ==
  LET st[k \in 0 .. Len(tokens)] ==
        IF k = 0 THEN [i |-> 1, info |-> Info] ELSE parse_turn(tokens, st[k - 1])
  IN  st[Len(tokens)].info

(* The entries of a directory that are printed. *)
Printed(t, x, info) ==
  IF info.has_substring = 1 THEN Entries(t, x) \cap strstr[info.substring] ELSE Entries(t, x)

Deeper_faulty(remain) == remain

(* The depth for the directories below. *)
Deeper(remain) == remain - 1

(* The loop over the entries of a directory: the ones that are printed,    *)
(* and what is below each entry but "." and "..".                          *)
ListDirectory(printed, below) ==
  MapThenFoldSet(LAMBDA a, b : a (+) b, SetToBag(printed), LAMBDA e : below[e],
                 LAMBDA S : CHOOSE e \in S : TRUE, DOMAIN below)

(* Every directory on the way down is open, so fds shrinks with the depth; *)
(* without a descriptor opendir() fails, and nothing is said.              *)
recursive_ls(t, start, info, free_fds) ==
  LET ls[c \in [path : Nodes(t), remain_depth : Int, fds : 0 .. free_fds]] ==
        LET remain == IF info.has_depth = 0 THEN -1 ELSE c.remain_depth
            call(e) == [path |-> Append(c.path, e), remain_depth |-> Deeper(remain), fds |-> c.fds - 1]
        IN
        IF remain = 0 \/ c.path \notin t.dirs \/ c.fds = 0 THEN EmptyBag
        ELSE ListDirectory(Printed(t, c.path, info),
                           [e \in Entries(t, c.path) \ {".", ".."} |-> ls[call(e)]])
  IN  ls[[path |-> start, remain_depth |-> info.depth, fds |-> free_fds]]

(* What a command leaves behind. *)
Returns(name, arg, r, o) ==
  /\ cmd' = [name |-> name, arg |-> arg]
  /\ ret' = r /\ out' = o
  /\ was' = [cwd |-> cwd, free |-> free]
  /\ UNCHANGED tree

bn_ls(tokens) ==
  LET info == parse_ls(tokens)
      x    == Lookup(tree, cwd, PathOf[info.path])
      bad  == \/ info.has_path > 1 \/ info.valid # 1
              \/ info.has_rec = 0 /\ info.has_depth = 1
              \/ x \notin tree.dirs \/ free = 0
  IN
  /\ cmd = Idle
  /\ \/ bad /\ Returns("ls", tokens, -1, EmptyBag)
     \/ /\ ~bad /\ info.has_rec = 1
        /\ Returns("ls", tokens, 0, recursive_ls(tree, x, info, free - 1))
     \/ /\ ~bad /\ info.has_rec = 0
        /\ Returns("ls", tokens, 0, SetToBag(Printed(tree, x, info)))
  /\ UNCHANGED <<cwd, free>>

---------------------------------------------------------------------------
(* cd, cat and wc *)

bn_cd(p) ==
  LET x == Lookup(tree, cwd, cd_path(p)) IN
    /\ cmd = Idle
    /\ \/ x \in tree.dirs /\ cwd' = x /\ Returns("cd", p, 0, EmptyBag)
       \/ x \notin tree.dirs /\ UNCHANGED cwd /\ Returns("cd", p, -1, EmptyBag)
    /\ UNCHANGED free

Opens_faulty(x) == x \in Nodes(tree)

(* A directory can be opened, and reading it fails at once. *)
Opens(x) == x \in Nodes(tree) /\ free > 0

Text(t, x) == IF x \in DOMAIN t.text THEN t.text[x] ELSE <<>>

(* What is written: up to the first '\0', and MAX_STR_LEN characters. *)
display_message(s) ==
  SubSeq(s, 1, Min({Len(s), MaxStr} \cup {k - 1 : k \in {l \in DOMAIN s : s[l] = Nul}}))

(* Length of what fgets() returns, at characters from the beginning. *)
FgetsLength(s, at) == Min({Chunk, Len(s) - at} \cup {k \in 1 .. Len(s) - at : s[at + k] = NL})

(* One turn of the loop of cat. *)
CatTurn(s, st) ==
  LET end == st.at + FgetsLength(s, st.at) IN
    IF st.at = Len(s) THEN st
    ELSE [at |-> end, out |-> st.out \o display_message(SubSeq(s, st.at + 1, end))]

CatOutput(s) ==
  LET c[k \in 0 .. Len(s)] == IF k = 0 THEN [at |-> 0, out |-> <<>>] ELSE CatTurn(s, c[k - 1])
  IN  c[Len(s)].out

bn_cat(p) ==
  LET x == Lookup(tree, cwd, file_path(p)) IN
    /\ cmd = Idle
    /\ \/ Opens(x) /\ Returns("cat", p, 0, CatOutput(Text(tree, x)))
       \/ ~Opens(x) /\ Returns("cat", p, -1, EmptyBag)
    /\ UNCHANGED <<cwd, free>>

Count_faulty(n, ch) ==
  [chars |-> n.chars + 1,
   lines |-> IF ch = NL THEN n.lines + 1 ELSE n.lines,
   words |-> IF ch \notin {NL, Space} /\ n.in_word = 0 THEN n.words + 1 ELSE n.words,
   in_word |-> IF ch = Space THEN 0 ELSE 1]

(* One turn of the loop of wc. *)
Count(n, ch) ==
  [chars |-> n.chars + 1,
   lines |-> IF ch = NL THEN n.lines + 1 ELSE n.lines,
   words |-> IF ch \notin {NL, Space} /\ n.in_word = 0 THEN n.words + 1 ELSE n.words,
   in_word |-> IF ch \in {NL, Space} THEN 0 ELSE 1]

WcCounts(s) ==
  LET n[k \in 0 .. Len(s)] ==
        IF k = 0 THEN [chars |-> 0, lines |-> 0, words |-> 0, in_word |-> 0] ELSE Count(n[k - 1], s[k])
  IN  n[Len(s)]

(* wc does not close the file. *)
bn_wc(p) ==
  LET x == Lookup(tree, cwd, file_path(p))
      n == WcCounts(Text(tree, x))
  IN
  /\ cmd = Idle
  /\ \/ /\ Opens(x) /\ free' = free - 1
        /\ Returns("wc", p, 0, <<n.words, n.chars, n.lines>>)
     \/ /\ ~Opens(x) /\ UNCHANGED free
        /\ Returns("wc", p, -1, EmptyBag)
  /\ UNCHANGED cwd

Prompt ==
  /\ cmd # Idle
  /\ cmd' = Idle /\ ret' = 0 /\ out' = EmptyBag /\ was' = [cwd |-> cwd, free |-> free]
  /\ UNCHANGED <<tree, cwd, free>>

Next ==
  \/ \E p \in Paths : bn_cd(p) \/ bn_cat(p) \/ bn_wc(p)
  \/ \E tokens \in LsArgs : bn_ls(tokens)
  \/ Prompt

Spec == Init /\ [][Next]_vars

---------------------------------------------------------------------------
(* Properties. *)

(* Where a part of the argument of cd leads: dots are directories to go up. *)
Up(x, n) == IF n > Len(x) THEN Root ELSE SubSeq(x, 1, Len(x) - n)

Leads(t, x, c) ==
  CASE Piece(c) = Rel(<<"...">>)  /\ x \in t.dirs -> Up(x, 2)
    [] Piece(c) = Rel(<<"....">>) /\ x \in t.dirs -> Up(x, 3)
    [] OTHER -> Walk(t, x, Piece(c).parts)

Journey(t, start, s) ==
  LET j[k \in 0 .. Len(s)] == IF k = 0 THEN start ELSE Leads(t, j[k - 1], s[k])
  IN  j[Len(s)]

(* cd arrives where its argument says, part by part, each "..." two and    *)
(* each "...." three directories up from wherever the path has got to by   *)
(* then, from the root if the path or its first variable begins with a '/';*)
(* and it stays where it is, with an error, if there is no such directory  *)
(* (builtins.c:317-405).  A variable may stand for one part or for several,*)
(* but not for nothing at all.                                             *)
CdArrives ==
  cmd.name = "cd" /\ (\A v \in DOMAIN Value \cap ToSet(cmd.arg.parts) : Value[v] # Rel(<<>>)) =>
    LET s     == cmd.arg.parts
        above == cmd.arg.abs \/ (s # <<>> /\ Piece(s[1]).abs)
        x     == Journey(tree, IF above THEN Root ELSE was.cwd, s)
        there == x \in tree.dirs /\ (above \/ s # <<>>)
    IN cwd = (IF there THEN x ELSE was.cwd) /\ ret = (IF there THEN 0 ELSE -1)

(* The positions of an option, the arguments of ls that make sense, in any *)
(* order, and what they ask for.                                           *)
At(a, option) == {k \in DOMAIN a : a[k] = option}
PathsIn(a) ==
  {k \in DOMAIN a : a[k] \notin {"--f", "--d", "--rec"} /\ (k > 1 => a[k - 1] \notin {"--f", "--d"})}

WellFormed(a) ==
  /\ \A k \in At(a, "--f") : k < Len(a) /\ a[k + 1] \notin OptionLike \cup {NoText}
  /\ \A k, l \in At(a, "--f") : a[l + 1] = a[k + 1]
  /\ \A k \in At(a, "--d") : k < Len(a) /\ a[k + 1] \in DOMAIN Number
  /\ At(a, "--d") # {} => At(a, "--rec") # {}
  /\ Cardinality(PathsIn(a)) <= 1

(* "check if depth is given as positive integer" (builtins.c:267). *)
Sensible(a) == WellFormed(a) /\ \A k \in At(a, "--d") : Number[a[k + 1]] > 0

StartOf(a) == PathOf[IF PathsIn(a) = {} THEN "." ELSE a[CHOOSE k \in PathsIn(a) : TRUE]]
Wanted(t, a) == IF At(a, "--f") = {} THEN UNION {Entries(t, x) : x \in t.dirs}
                ELSE strstr[a[Max(At(a, "--f")) + 1]]

(* "if rec && !depth, traverse until the end" (builtins.c:102). *)
Levels(t, a) ==
  IF At(a, "--rec") = {} THEN 1
  ELSE IF At(a, "--d") = {} THEN Cardinality(t.dirs)
  ELSE Number[a[Max(At(a, "--d")) + 1]]

(* The directories ls is asked to look into, and the number of times it    *)
(* should print a name.                                                    *)
LookedInto(t, a, start) ==
  {x \in t.dirs : IsPrefix(start, x) /\ Len(x) - Len(start) < Levels(t, a)}
Due(t, a, start, n) ==
  Cardinality({x \in LookedInto(t, a, start) : n \in Entries(t, x) \cap Wanted(t, a)})

(* Every directory on the way down is open at the same time, and with      *)
(* --rec the first one twice.                                              *)
Enough(t, a, start, fds) ==
  At(a, "--rec") # {} => \A x \in LookedInto(t, a, start) : Len(x) - Len(start) + 2 <= fds

AllNames(t) == UNION {Entries(t, x) : x \in t.dirs}
Shown(n) == IF BagIn(n, out) THEN out[n] ELSE 0

(* ls accepts its options in any order and refuses every line that is not  *)
(* well formed; it prints the name of every entry of every directory down  *)
(* to the depth asked for that contains the substring, once, whether or    *)
(* not the directories above contain it; with too few descriptors for the  *)
(* depth names may be missing, but none is made up (builtins.c:96-315).    *)
(* Nothing is said of depths that are no positive integers.                *)
ListingExact ==
  cmd.name = "ls" /\ (WellFormed(cmd.arg) => Sensible(cmd.arg)) =>
    LET a     == cmd.arg
        start == Lookup(tree, cwd, StartOf(a))
        ok    == Sensible(a) /\ start \in tree.dirs /\ was.free > 0
    IN /\ ret = IF ok THEN 0 ELSE -1
       /\ ok => \A n \in AllNames(tree) :
                  /\ Shown(n) <= Due(tree, a, start, n)
                  /\ Enough(tree, a, start, was.free) => Shown(n) = Due(tree, a, start, n)
       /\ ~ok => out = EmptyBag

(* The number of characters of its line that are in front of place k.      *)
LineBefore(s, k) == k - 1 - Max({0} \cup {l \in 1 .. k - 1 : s[l] = NL})

(* cat prints a text without '\0' as it is, if no line has more characters *)
(* than display_message() writes, the newline included; wc counts words,   *)
(* characters and newlines as their definitions say (builtins.c:408-586,   *)
(* io_helpers.c:13).                                                       *)
OutputExact ==
  cmd.name \in {"cat", "wc"} /\ ret = 0 /\ ~HasVar(cmd.arg) =>
    LET s == Text(tree, Lookup(tree, cwd, cmd.arg))
        Gap(k) == s[k] \in {NL, Space}
        Starts == {k \in DOMAIN s : ~Gap(k) /\ (k > 1 => Gap(k - 1))}
    IN /\ cmd.name = "cat" /\ Nul \notin ToSet(s)
            /\ (\A k \in DOMAIN s : LineBefore(s, k) < MaxStr) => out = s
       /\ cmd.name = "wc" =>
            out = <<Cardinality(Starts), Len(s), Cardinality({k \in DOMAIN s : s[k] = NL})>>
============================================================================
