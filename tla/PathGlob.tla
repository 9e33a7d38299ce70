------------------------------ MODULE PathGlob ------------------------------
(***************************************************************************)
(* policy.Match (policy/config.go): whether a pattern of the policy file   *)
(* matches the path of a changed file.  A pattern is tried as it is with   *)
(* path.Match and then, byte by byte, translated into a regular            *)
(* expression.  Both are sequences of tokens here: "*" is any text without *)
(* a slash, "?" one character that is none, "**" any text, "**/" any       *)
(* directories or nothing, and everything else is a character.             *)
(* Patterns without brackets, backslashes and spaces, one character longer *)
(* at each step.                                                           *)
(***************************************************************************)
EXTENDS Integers, Sequences, SequencesExt

CONSTANTS
  Chars,       \* characters of patterns, the slash among them
  Utf8,        \* the characters that the bytes of each character are, one by one
  Names,       \* paths of changed files
  MaxPattern   \* bound: characters of a pattern

\* "**" and "**/" are tokens.
ASSUME CharsAssumption ==
  /\ {"*", "?", "/"} \subseteq Chars
  /\ {"**", "**/"} \cap Chars = {}

\* A character of one byte is that byte; wildcards and slashes are.
ASSUME Utf8Assumption ==
  /\ \A c \in Chars :
       /\ Len(Utf8[c]) \in Nat \ {0}
       /\ Len(Utf8[c]) = 1 => Utf8[c] = <<c>>
  /\ \A c \in {"*", "?", "/"} : Len(Utf8[c]) = 1

\* Paths as GitHub gives them, from the root of the repository.
ASSUME NamesAssumption ==
  \A name \in Names :
    /\ name \in Seq({name[i] : i \in DOMAIN name}) \ {<<>>}
    /\ name[1] # "/" /\ name[Len(name)] # "/"

ASSUME BoundAssumption == MaxPattern \in Nat

VARIABLE pattern

Init == pattern = <<>>

Next == Len(pattern) < MaxPattern /\ \E c \in Chars : pattern' = Append(pattern, c)

Spec == Init /\ [][Next]_pattern

-----------------------------------------------------------------------------
\* strings.Trim(s, "/").
Trim(s) ==
  LET inner == {i \in DOMAIN s : s[i] # "/"} IN
  IF inner = {} THEN <<>> ELSE SubSeq(s, Min(inner), Max(inner))

\* The name goes on with the text at k.
Reads(name, k, text) ==
  k \in 1 .. Len(name) + 1 - Len(text) /\ \A i \in 1 .. Len(text) : name[k + i - 1] = text[i]

\* Positions of the name from which a token leads to one of those in to.
Before(name, to, token, spelling) ==
  CASE token = "*"   -> UNION {{k \in 1 .. m : \A i \in k .. m - 1 : name[i] # "/"} : m \in to}
    [] token = "?"   -> {m - 1 : m \in {n \in to : n > 1 /\ name[n - 1] # "/"}}
    [] token = "**"  -> UNION {1 .. m : m \in to}
    [] token = "**/" -> to \cup UNION {1 .. m - 1 : m \in {n \in to : n > 1 /\ name[n - 1] = "/"}}
    [] OTHER         -> LET text == spelling[token] IN
                        {m - Len(text) : m \in {n \in to : Reads(name, n - Len(text), text)}}

\* Mutant of Stars: "**/" needs a directory.
StarsNeedDirectory(p, i) ==
  IF i = Len(p) \/ p[i + 1] # "*" THEN "*" ELSE "**"

\* What the stars at position i of the pattern stand for.
Stars(p, i) ==
  IF i = Len(p) \/ p[i + 1] # "*" THEN "*"
  ELSE IF i + 1 < Len(p) /\ p[i + 2] = "/" THEN "**/" ELSE "**"

\* The token that each position begins, if one begins there.
globRegex(p) == [i \in DOMAIN p |-> IF p[i] = "*" THEN Stars(p, i) ELSE p[i]]

\* Mutant of Width: the slash that "**/" stands for is read again.
WidthOfStars(token) == IF token \in {"**", "**/"} THEN 2 ELSE 1

Width(token) == CASE token = "**" -> 2 [] token = "**/" -> 3 [] OTHER -> 1

\* For each position of the pattern, where the rest of it matches the rest of
\* the name.
MatchesFrom(tokens, name, spelling) ==
  LET from[i \in 1 .. Len(tokens) + 1] ==
        IF i > Len(tokens) THEN {Len(name) + 1}
        ELSE Before(name, from[i + Width(tokens[i])], tokens[i], spelling)
  IN from

Itself == [c \in Chars |-> <<c>>]

\* In the regular expression a character of several bytes is several others.
Match(text, path) ==
  LET p == Trim(text) name == Trim(path) IN
  /\ text # <<>>
  /\ \/ 1 \in MatchesFrom(p, name, Itself)[1]
     \/ 1 \in MatchesFrom(globRegex(p), name, Utf8)[1]

-----------------------------------------------------------------------------
(* What a pattern means, segment by segment.                               *)

Starts(s) == {1} \cup {i + 1 : i \in {k \in DOMAIN s : s[k] = "/"}}

SegmentEnd(s, i) == Min({k \in i .. Len(s) + 1 : k = Len(s) + 1 \/ s[k] = "/"})

Segment(s, i) == SubSeq(s, i, SegmentEnd(s, i) - 1)

\* Positions of a segment from which a character of a pattern leads to one of
\* those in to.
BeforeIn(s, to, c) ==
  IF c = "*" THEN UNION {1 .. m : m \in to}
  ELSE {m - 1 : m \in {n \in to : n > 1 /\ c \in {"?", s[n - 1]}}}

\* For each character of p, where the rest of it fits the rest of the segment.
SegmentFitsFrom(p, s) ==
  LET fits[i \in 1 .. Len(p) + 1] ==
        IF i > Len(p) THEN {Len(s) + 1} ELSE BeforeIn(s, fits[i + 1], p[i])
  IN fits

AnyDirs == <<"*", "*">>

\* For each segment of p, the segments of s that it and all behind it fit:
\* "**" is any directories on the way and anything at the end.
FitsFrom(p, s) ==
  LET fits[i \in 1 .. Len(p) + 2] ==
        IF i > Len(p) + 1 THEN {Len(s) + 2}
        ELSE LET rest == fits[SegmentEnd(p, i) + 1] IN
             IF Segment(p, i) = AnyDirs THEN UNION {{k \in Starts(s) : k <= m} : m \in rest}
             ELSE {k \in Starts(s) : /\ 1 \in SegmentFitsFrom(Segment(p, i), Segment(s, k))[1]
                                     /\ SegmentEnd(s, k) + 1 \in rest}
  IN fits

Fits(text, path) == 1 \in FitsFrom(Trim(text), path)[1]

DoubleStars(text) == {i \in 1 .. Len(text) - 1 : text[i] = "*" /\ text[i + 1] = "*"}

\* "**" only as a whole segment.
Regular(text) ==
  \A i \in Starts(Trim(text)) :
    DoubleStars(Segment(Trim(text), i)) # {} => Segment(Trim(text), i) = AnyDirs

Wide(text) == {i \in DOMAIN text : Len(Utf8[text[i]]) > 1}

\* The name has the characters that the bytes of one of the pattern are.
Garbled(text, name) ==
  \E i \in Wide(text) : \E k \in DOMAIN name : Reads(name, k, Utf8[text[i]])

-----------------------------------------------------------------------------
(* Properties.                                                             *)

\* A pattern in which "**" stands only for directories matches no path but those
\* whose segments fit it, although Match looks at no segments and tries two other
\* languages: what is ignored or risky is what the policy says, at the root, in
\* a directory and directories below.  It matches all of these unless it has both
\* "**" and a character of several bytes: globRegex takes it apart.
MatchesSegments ==
  Regular(pattern) =>
    \A name \in Names :
      ~ Garbled(pattern, name) =>
        /\ Match(pattern, name) => Fits(pattern, name)
        /\ Wide(pattern) = {} \/ DoubleStars(pattern) = {} =>
             (Fits(pattern, name) => Match(pattern, name))

\* Patterns with "**" inside a segment have no such meaning, but a second star
\* never hides a file: where a single "*" is doubled, whatever follows it, the
\* pattern matches all that it matched before.
MoreStarsMatchMore ==
  \A i \in {k \in DOMAIN pattern : pattern[k] = "*"} :
    {i - 1, i} \cap DoubleStars(pattern) = {} =>
      \A name \in Names :
        Match(pattern, name) => Match(InsertAt(pattern, i, "*"), name)
=============================================================================
