------------------------------- MODULE FileNames -------------------------------
(***************************************************************************)
(* Names of files and the patterns of a configuration: the matcher of      *)
(* plugin/file/file_name_matcher.c, the names of directories of            *)
(* common/platform/posix/file_posix.c and what file_plugin.c and           *)
(* common/file.c make of a name before it is used.                         *)
(*                                                                         *)
(* A name, or a pattern, is the sequence of its characters.  In a pattern  *)
(* `?' stands for a character other than the separator, `*' for any number *)
(* of these, `**' before a separator or at the end for any number of any   *)
(* characters, and `\' takes the special meaning from the next character.  *)
(***************************************************************************)
EXTENDS Naturals, Sequences, SequencesExt

Sep == "/"
Special == {"*", "?"}
Escape == "\\"

Upto(s, k) == SubSeq(s, 1, k)

(* What is in a sequence at the positions to keep.                         *)
Gathered(s, keep) ==
  LET kept[k \in 0..Len(s)] ==
        IF k = 0 THEN << >> ELSE IF k \in keep THEN Append(kept[k - 1], s[k]) ELSE kept[k - 1]
  IN  kept[Len(s)]

-----------------------------------------------------------------------------
(* The matcher                                                             *)

(* The first position of a pattern, from j on, that is not an asterisk.    *)
AfterStars(p, j) == Min({k \in j..(Len(p) + 1) : k = Len(p) + 1 \/ p[k] # "*"})

(* Asterisks before position r match separators if there are several, and  *)
(* the end or a separator, escaped or not, is next.  The test of what is   *)
(* before them always succeeds: prev_p is less than pattern.               *)
CrossesSeparators(p, stars, r) ==
  LET rest == SubSeq(p, r, Len(p))
  IN  stars > 1 /\ (rest = << >> \/ IsPrefix(<<Sep>>, rest) \/ IsPrefix(<<Escape, Sep>>, rest))

(* file_name_matches: the rest of the name from i on is matched by the rest*)
(* of the pattern from j on, as m has it of what is after j.  An asterisk  *)
(* matches up to position k of the name; a separator that follows a single *)
(* one is the first of the name.  A character that is escaped stands for   *)
(* itself, a pattern that ends with the escape matches nothing.            *)
RestMatches(n, p, j, i, m) ==
  IF j > Len(p) THEN i > Len(n)
  ELSE IF p[j] = "*"
    THEN \E r \in {AfterStars(p, j)} : \E across \in {CrossesSeparators(p, r - j, r)} :
           IF r > Len(p) THEN across \/ \A k \in i..Len(n) : n[k] # Sep
           ELSE \/ across /\ p[r] = Sep /\ m[r + 1][i]
                \/ \E k \in i..Len(n) :
                     /\ across \/ \A l \in i..(k - 1) : n[l] # Sep
                     /\ IF ~ across /\ p[r] = Sep THEN n[k] = Sep /\ m[r + 1][k + 1]
                                                  ELSE m[r][k]
  ELSE /\ i <= Len(n)
       /\ IF p[j] = Escape THEN j < Len(p) /\ n[i] = p[j + 1] /\ m[j + 2][i + 1]
          ELSE (IF p[j] = "?" THEN n[i] # Sep ELSE n[i] = p[j]) /\ m[j + 1][i + 1]

Matches(n, p) ==
  LET m[j \in 1..(Len(p) + 1)] == [i \in 1..(Len(n) + 1) |-> RestMatches(n, p, j, i, m)]
  IN  m[1][1]

(* The number of escapes directly before position k.                       *)
EscapesBefore(p, k) ==
  Cardinality({i \in 1..(k - 1) : \A j \in i..(k - 1) : p[j] = Escape})

(* The position of the first character that is special, 0 if there is none.*)
FirstUnescapedSpecialChar(p) ==
  LET special == {k \in DOMAIN p : p[k] \in Special /\ EscapesBefore(p, k) % 2 = 0}
  IN  IF special = {} THEN 0 ELSE Min(special)

(* An escape at the end that is not escaped takes unescape_pattern past the*)
(* end of the pattern.                                                     *)
ReadsPastEnd(p) == EscapesBefore(p, Len(p) + 1) % 2 = 1

(* The pattern without its escapes, if it can be read.                     *)
UnescapePattern(p) ==
  Gathered(p, {k \in DOMAIN p : p[k] # Escape \/ EscapesBefore(p, k) % 2 = 1})

-----------------------------------------------------------------------------
(* What a pattern stands for                                               *)

(* A pattern as a sequence of tokens: a character, "one" character,        *)
(* "some" characters but no separator, "any" characters, or any            *)
(* directories, "dirs".                                                    *)
Token(k, c) == [kind |-> k, char |-> c]

Tokens(p) ==
  LET several(j) == AfterStars(p, j) > j + 1
      tokens[j \in 1..(Len(p) + 2)] ==
        IF j > Len(p) THEN << >>
        ELSE IF p[j] = Escape
          THEN <<IF j < Len(p) THEN Token("char", p[j + 1]) ELSE Token("never", Escape)>> \o tokens[j + 2]
        ELSE IF p[j] = "?" THEN <<Token("one", "?")>> \o tokens[j + 1]
        ELSE IF p[j] # "*" THEN <<Token("char", p[j])>> \o tokens[j + 1]
        ELSE LET r == AfterStars(p, j)
             IN  IF several(j) /\ r <= Len(p) /\ p[r] = Sep THEN <<Token("dirs", "*")>> \o tokens[r + 1]
                 ELSE IF several(j) /\ (r > Len(p) \/ Head(tokens[r]) = Token("char", Sep))
                   THEN <<Token("any", "*")>> \o tokens[r]
                 ELSE <<Token("some", "*")>> \o tokens[r]
  IN  tokens[1]

StandsFor(t, s) ==
  \/ t.kind = "char" /\ s = <<t.char>>
  \/ t.kind = "one" /\ Len(s) = 1 /\ s # <<Sep>>
  \/ t.kind = "some" /\ ~ Contains(s, Sep)
  \/ t.kind = "any"
  \/ t.kind = "dirs" /\ (s = << >> \/ Last(s) = Sep)

(* The name can be cut into one piece for each token: the positions where  *)
(* the pieces so far may end are followed through the pattern.             *)
Designates(p, n) ==
  LET Ends(S, t) == {j \in 0..Len(n) : \E i \in S : i <= j /\ StandsFor(t, SubSeq(n, i + 1, j))}
  IN  Len(n) \in FoldLeft(Ends, {0}, Tokens(p))

-----------------------------------------------------------------------------
(* Names                                                                   *)

(* Every separator that follows another one is left out.                   *)
RemoveDuplicateDirSeps(n) ==
  Gathered(n, {k \in DOMAIN n : k > 1 /\ n[k] = Sep => n[k - 1] # Sep})

IsFileNameAbsolute(n) == n # << >> /\ Head(n) = Sep

(* The name of a file as the file system knows it: a separator before each *)
(* component, and none at the end.                                         *)
IsName(n) ==
  /\ n \in Seq(ToSet(n)) /\ IsFileNameAbsolute(n)
  /\ \A i \in 2..Len(n) : n[i] = Sep => i < Len(n) /\ n[i - 1] # Sep

(* cleanse_file_name: nothing for a name that is not absolute.             *)
Cleansed(n) ==
  LET m == RemoveDuplicateDirSeps(n)
  IN  IF ~ IsFileNameAbsolute(n) THEN << >>
      ELSE IF Len(m) > 1 /\ Last(m) = Sep THEN Front(m)
      ELSE m

(* The position of the last character that is not the separator.           *)
LastNot(n) == Len(n) - (IF \E i \in DOMAIN n : n[i] # Sep
                          THEN Min({k \in 0..(Len(n) - 1) : n[Len(n) - k] # Sep})
                          ELSE Len(n))

(* The position of the last separator before the last component.           *)
LastSlash(n) == Max({0} \union {i \in 1..LastNot(n) : n[i] = Sep})

DirName(n) ==
  LET dir == Upto(n, LastSlash(n) - 1)
  IN  IF n = << >> THEN <<".">>
      ELSE IF LastNot(n) = 0 THEN <<Sep>>
      ELSE IF LastSlash(n) = 0 THEN <<".">>
      ELSE IF LastNot(dir) = 0 THEN <<Sep>>
      ELSE Upto(n, LastNot(dir))

(* Of a name without a directory everything is left, separators at the end *)
(* included.                                                               *)
BaseName(n) ==
  IF n = << >> THEN <<".">>
  ELSE IF LastNot(n) = 0 THEN <<Sep>>
  ELSE IF LastSlash(n) = 0 THEN n
  ELSE SubSeq(n, LastSlash(n) + 1, LastNot(n))

(* yella_get_dirs: the directories a name is in, from the first on.        *)
GetDirs(n) ==
  LET above[k \in 0..Len(n)] ==
        LET dir == DirName(Upto(n, k))
        IN  IF dir \in {<<".">>, <<Sep>>} THEN << >> ELSE Append(above[Len(dir)], dir)
  IN  above[Len(n)]

(* The entry of a directory, as the directory iterator calls it.           *)
EntryName(dir, name) == (IF Last(dir) = Sep THEN dir ELSE Append(dir, Sep)) \o name

================================================================================
