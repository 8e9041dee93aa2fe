----------------------------- MODULE ShellParser ----------------------------
(***************************************************************************)
(* The parser of the shell (sh.c): recursive descent over a line of        *)
(* characters, with positions in the line for the strings of a command, as *)
(* the code keeps pointers into its buffer.  "w" stands for any character  *)
(* of a word and "_" for white space.  A panic is a result that is not ok. *)
(* The reference is a grammar: the set of the commands a line denotes.     *)
(***************************************************************************)
EXTENDS Integers, Sequences, FiniteSets, FiniteSetsExt

CONSTANTS MAXARGS, MaxLine

Symbols == {"<", "|", ">", "&", ";", "(", ")"}
Chars   == Symbols \cup {"w", "_"}

ASSUME ParserAssumption == MAXARGS \in Nat \ {0} /\ MaxLine \in Nat

VARIABLE line   \* the buffer up to its NUL

\* *s.
CharAt(s) == IF s <= Len(line) THEN line[s] ELSE "NUL"

\* The first position from s on that is not of the set C of characters.
SkipAll(s, C) == Min({k \in s .. Len(line) + 1 : CharAt(k) \notin C})

WordEnd(s) == SkipAll(s, {"w"})

TokenEnd(q) == CASE CharAt(q) = "NUL" -> q
                 [] CharAt(q) = "w"   -> WordEnd(q)
                 [] CharAt(q) = ">"   -> IF CharAt(q + 1) = ">" THEN q + 2 ELSE q + 1
                 [] OTHER             -> q + 1

Gettoken(s) ==
  LET q == SkipAll(s, {"_"})
      e == TokenEnd(q)
  IN [ret |-> IF CharAt(q) = "w" THEN "a"
              ELSE IF CharAt(q) = ">" /\ e = q + 2 THEN "+" ELSE CharAt(q),
      q |-> q, eq |-> e, s |-> SkipAll(e, {"_"})]

Peek(s, toks) == CharAt(SkipAll(s, {"_"})) \in toks

Parsed(s, cmd) == [ok |-> TRUE, s |-> s, cmd |-> cmd]
Panic == [ok |-> FALSE]

\* execcmd(), redircmd(), pipecmd(), listcmd() and backcmd().
Execcmd(argv) == [type |-> "EXEC", argv |-> argv]
Redircmd(c, q, eq, fd) == [type |-> "REDIR", cmd |-> c, file |-> <<q, eq>>, fd |-> fd]
Pipecmd(l, r) == [type |-> "PIPE", left |-> l, right |-> r]
Listcmd(l, r) == [type |-> "LIST", left |-> l, right |-> r]
Backcmd(c) == [type |-> "BACK", cmd |-> c]

RECURSIVE Parseline(_), Parsepipe(_), Parseredirs(_, _), Parseargs(_, _, _), Backs(_, _)
RECURSIVE Wrapped(_, _), MoreArgs(_, _), Piped(_), Listed(_)

FileToken(t) == t.ret = "a"

\* parseredirs(): the redirections from s on, after those of rs.
Parseredirs(s, rs) ==
  IF ~Peek(s, {"<", ">"}) THEN Parsed(s, rs)
  ELSE LET op == Gettoken(s)
           f  == Gettoken(op.s)
       IN IF ~FileToken(f) THEN Panic
          ELSE Parseredirs(f.s, Append(rs, [q |-> f.q, eq |-> f.eq,
                                            fd |-> IF op.ret = "<" THEN 0 ELSE 1]))

\* The command c in its redirections, the last of them outermost.
Wrapped(c, rs) ==
  IF rs = << >> THEN c
  ELSE LET r == rs[Len(rs)]
       IN Redircmd(Wrapped(c, SubSeq(rs, 1, Len(rs) - 1)), r.q, r.eq, r.fd)

\* c with the redirections r that follow it.
Redirected(c, r) == IF r.ok THEN Parsed(r.s, Wrapped(c.cmd, r.cmd)) ELSE Panic

BlockEnd(c) == IF ~c.ok THEN Panic ELSE IF ~Peek(c.s, {")"}) THEN Panic
               ELSE Redirected(c, Parseredirs(Gettoken(c.s).s, << >>))
Parseblock(s) == BlockEnd(Parseline(Gettoken(s).s))

\* The loop of parseexec(), and how it goes on after the redirections r.
MoreArgs(r, argv) == IF r.ok THEN Parseargs(r.s, argv, r.cmd) ELSE Panic
Parseargs(s, argv, rs) ==
  LET t == Gettoken(s)
  IN IF Peek(s, {"|", ")", "&", ";"}) \/ t.ret = "NUL"
     THEN Parsed(s, Wrapped(Execcmd(argv), rs))
     ELSE IF t.ret # "a" \/ Len(argv) + 1 >= MAXARGS THEN Panic
     ELSE MoreArgs(Parseredirs(t.s, rs), Append(argv, <<t.q, t.eq>>))

Parseexec(s) == IF Peek(s, {"("}) THEN Parseblock(s)
                ELSE MoreArgs(Parseredirs(s, << >>), << >>)

\* parsepipe() and parseline() on what follows their first part l.
PipeOf(l, r) == IF r.ok THEN Parsed(r.s, Pipecmd(l.cmd, r.cmd)) ELSE Panic
Piped(l) == IF ~l.ok THEN Panic ELSE IF ~Peek(l.s, {"|"}) THEN l
            ELSE PipeOf(l, Parsepipe(Gettoken(l.s).s))
Parsepipe(s) == Piped(Parseexec(s))

\* The loop of parseline() over "&".
Backs(s, c) == IF Peek(s, {"&"}) THEN Backs(Gettoken(s).s, Backcmd(c)) ELSE Parsed(s, c)
BacksOn(p) == IF p.ok THEN Backs(p.s, p.cmd) ELSE Panic

ListOf(l, r) == IF r.ok THEN Parsed(r.s, Listcmd(l.cmd, r.cmd)) ELSE Panic
Listed(l) == IF ~l.ok THEN Panic ELSE IF ~Peek(l.s, {";"}) THEN l
             ELSE ListOf(l, Parseline(Gettoken(l.s).s))
Parseline(s) == Listed(BacksOn(Parsepipe(s)))

\* Mutant: what is left over is ignored.
Leftovers_Ignored(s) == FALSE
Leftovers(s) == SkipAll(s, {"_"}) # Len(line) + 1

NoLeftovers(c) == IF ~c.ok THEN Panic ELSE IF Leftovers(c.s) THEN Panic ELSE c
Parsecmd == NoLeftovers(Parseline(1))

\* The strings of a command, and where nulterminate() puts a NUL.
RECURSIVE Strings(_)
Strings(c) == CASE c.type = "EXEC"  -> {c.argv[i] : i \in DOMAIN c.argv}
                [] c.type = "REDIR" -> Strings(c.cmd) \cup {c.file}
                [] c.type = "BACK"  -> Strings(c.cmd)
                [] OTHER            -> Strings(c.left) \cup Strings(c.right)

NulAt(x) == x[2]
Nulterminate(c) ==
  [k \in 1 .. Len(line) + 1 |->
     IF k \in {NulAt(x) : x \in Strings(c)} THEN "NUL" ELSE CharAt(k)]

-----------------------------------------------------------------------------
\* A line is typed.
ParserInit == line = << >>
ParserNext == Len(line) < MaxLine /\ \E c \in Chars : line' = Append(line, c)

ParserSpec == ParserInit /\ [][ParserNext]_line

-----------------------------------------------------------------------------
(* The grammar, over the tokens of the line.                               *)

Run(i) == CHOOSE k \in 0 .. i - 1 :
            /\ \A j \in i - k .. i - 1 : line[j] = ">"
            /\ i - k - 1 >= 1 => line[i - k - 1] # ">"
Starts == {i \in 1 .. Len(line) :
             CASE line[i] = "_" -> FALSE
               [] line[i] = "w" -> i = 1 \/ line[i - 1] # "w"
               [] line[i] = ">" -> Run(i) % 2 = 0
               [] OTHER         -> TRUE}
Ends(i) == CASE line[i] = "w" -> Min({j \in i + 1 .. Len(line) + 1 : CharAt(j) # "w"})
             [] line[i] = ">" /\ CharAt(i + 1) = ">" -> i + 2
             [] OTHER -> i + 1

After(t, T) == {u \in T : u > t}
FileOf(t, T) == {u \in After(t, T) : \A v \in After(t, T) : u <= v}

Redirs(T) == {t \in T : line[t] \in {"<", ">"}}
FileNames(T)  == UNION {FileOf(t, T) : t \in Redirs(T)}
Args(T)   == {t \in T \ FileNames(T) : line[t] = "w"}
Sorted(S) == CHOOSE f \in [1 .. Cardinality(S) -> S] : \A x, y \in DOMAIN f : x < y => f[x] < f[y]
InRedirs(c, T) ==
  LET rs == Sorted(Redirs(T))
      f(k) == CHOOSE t \in FileOf(rs[k], T) : TRUE
  IN Wrapped(c, [k \in DOMAIN rs |-> [q |-> f(k), eq |-> Ends(f(k)),
                                      fd |-> IF line[rs[k]] = "<" THEN 0 ELSE 1]])
RedirsOk(T) == \A t \in Redirs(T) : FileOf(t, T) # {} /\ \A u \in FileOf(t, T) : line[u] = "w"

RECURSIVE ExecsOf(_), PipesOf(_), BacksOf(_), LinesOf(_)
Before(m, T) == {t \in T : t < m}

\* exec ::= (redir | word)* | "(" line ")" redir*
ExecsOf(T) ==
  {InRedirs(Execcmd([k \in 1 .. Cardinality(Args(T)) |->
                       <<Sorted(Args(T))[k], Ends(Sorted(Args(T))[k])>>]), T) :
     x \in IF /\ \A t \in T : line[t] \in {"w", "<", ">"}
              /\ RedirsOk(T) /\ Cardinality(Args(T)) < MAXARGS THEN {0} ELSE {}}
  \cup UNION {{InRedirs(c, After(m, T)) :
                 c \in IF /\ line[Min(T)] = "(" /\ RedirsOk(After(m, T))
                          /\ After(m, T) = Redirs(After(m, T)) \cup FileNames(After(m, T))
                       THEN LinesOf(Before(m, T) \ {Min(T)}) ELSE {}} :
              m \in {t \in T : line[t] = ")"}}
\* pipe ::= exec | exec "|" pipe
PipesOf(T) ==
  ExecsOf(T) \cup UNION {{Pipecmd(l, r) : l \in ExecsOf(Before(m, T)), r \in PipesOf(After(m, T))} :
                         m \in {t \in T : line[t] = "|"}}
\* back ::= pipe "&"*
BacksOf(T) ==
  IF T # {} /\ line[Max(T)] = "&" THEN {Backcmd(c) : c \in BacksOf(T \ {Max(T)})} ELSE PipesOf(T)
\* line ::= back | back ";" line
LinesOf(T) ==
  BacksOf(T) \cup UNION {{Listcmd(l, r) : l \in BacksOf(Before(m, T)), r \in LinesOf(After(m, T))} :
                         m \in {t \in T : line[t] = ";"}}

-----------------------------------------------------------------------------
(* Properties.                                                             *)

\* The strings of c are words in the line nulterminate() leaves.
StringsKept(c) ==
  \A x \in Strings(c) : /\ \A k \in x[1] .. x[2] - 1 : Nulterminate(c)[k] = "w"
                        /\ Nulterminate(c)[x[2]] = "NUL"

\* parsecmd() accepts exactly the lines of the grammar and builds the one command
\* the grammar gives the line, with strings that are still those words in the line
\* nulterminate() leaves: it writes its NULs into the text they point to.
ParsesGrammar ==
  LET p == Parsecmd
  IN /\ LinesOf(Starts) = IF p.ok THEN {p.cmd} ELSE {}
     /\ p.ok => StringsKept(p.cmd)
=============================================================================
