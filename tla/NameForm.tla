------------------------------ MODULE NameForm ------------------------------
(***************************************************************************)
(* The normal form of names (internal/path/nfc.go): isNFC, which decides   *)
(* without normalising whether a name is in Unicode form NFC, against what *)
(* the standard's decomposition, reordering and composition make of it.    *)
(* A name grows rune by rune.  The tables are those of nfc_tables.go, cut  *)
(* down to a set of runes closed under them: a letter, three marks of two  *)
(* classes, their composites, a singleton and one Hangul syllable.         *)
(***************************************************************************)
EXTENDS Integers, Sequences, SequencesExt

CONSTANT MaxRunes      \* bound: the length of a name

VARIABLE text

Letter == {\h41}
Marks == {\h302, \h323, \h30A}
Composites == {\hC2, \h1EA0, \h1EAC, \hC5}
Singletons == {\h212B}
Jamo == {\h1100, \h1161, \h11A8}
Syllables == {\hAC00, \hAC01}
Runes == Letter \cup Marks \cup Composites \cup Singletons \cup Jamo \cup Syllables

(* nfc_tables.go *)
nfcCCC(r) == IF r = \h323 THEN 220 ELSE IF r \in Marks THEN 230 ELSE 0
nfcQCNo == Singletons
nfcCompose == {<<\h41, \h302, \hC2>>, <<\h41, \h323, \h1EA0>>, <<\h41, \h30A, \hC5>>,
               <<\h1EA0, \h302, \h1EAC>>}

hangulSBase == \hAC00
hangulLBase == \h1100
hangulVBase == \h1161
hangulTBase == \h11A7
hangulLCount == 19
hangulVCount == 21
hangulTCount == 28
hangulSCount == hangulLCount * hangulVCount * hangulTCount

(* The composite of a pair, or 0. *)
composeHangul(a, b) ==
  IF a - hangulLBase \in 0..(hangulLCount - 1) /\ b - hangulVBase \in 0..(hangulVCount - 1)
  THEN hangulSBase + ((a - hangulLBase) * hangulVCount + b - hangulVBase) * hangulTCount
  ELSE IF /\ a - hangulSBase \in 0..(hangulSCount - 1)
          /\ (a - hangulSBase) % hangulTCount = 0
          /\ b - hangulTBase \in 1..(hangulTCount - 1)
  THEN a + (b - hangulTBase)
  ELSE 0

composePair(a, b) ==
  IF composeHangul(a, b) # 0 THEN composeHangul(a, b)
  ELSE LET hit == {e \in nfcCompose : e[1] = a /\ e[2] = b}
       IN  IF hit = {} THEN 0 ELSE (CHOOSE e \in hit : TRUE)[3]

(* Mutant of isBlocked: a mark of the same class does not block. *)
isBlockedByHigher(classes, cc) == \E c \in classes : c = 0 \/ c > cc

isBlocked(classes, cc) == \E c \in classes : c = 0 \/ c >= cc

(* One rune of isNFC: the verdict so far, the last starter, the classes of *)
(* the marks since, and the class of the rune before.                      *)
Scan0 == [ok |-> TRUE, starter |-> -1, since |-> {}, last |-> 0]

isNFCRune(s, r) ==
  LET cc == nfcCCC(r)
      composes == s.starter # -1 /\ composePair(s.starter, r) # 0 /\ ~ isBlocked(s.since, cc)
  IN  [ok      |-> /\ s.ok /\ r \notin nfcQCNo /\ ~ composes
                   /\ ~ (s.last > cc /\ cc # 0),
       starter |-> IF cc = 0 THEN r ELSE s.starter,
       since   |-> IF cc = 0 \/ s.starter = -1 THEN {} ELSE s.since \cup {cc},
       last    |-> cc]

isNFC(t) == FoldLeft(isNFCRune, Scan0, t).ok

NameInit == text = <<>>

Type(r) == Len(text) < MaxRunes /\ text' = Append(text, r)

NameNext == \E r \in Runes : Type(r)

NameSpec == NameInit /\ [][NameNext]_text

-----------------------------------------------------------------------------
(* The reference: Unicode Standard, sections 3.6, 3.11 and 3.12.           *)
Full(r) ==                                   \* full canonical decomposition
  CASE r = \hC2              -> <<\h41, \h302>>
    [] r = \h1EA0            -> <<\h41, \h323>>
    [] r = \h1EAC            -> <<\h41, \h323, \h302>>
    [] r \in {\hC5, \h212B}  -> <<\h41, \h30A>>
    [] r = \hAC00            -> <<\h1100, \h1161>>
    [] r = \hAC01            -> <<\h1100, \h1161, \h11A8>>
    [] OTHER                 -> <<r>>

(* A mark moves in front of the marks of higher class before it. *)
InsertMark(t, r) ==
  LET cc == nfcCCC(r)
      stops == {i \in DOMAIN t : cc = 0 \/ nfcCCC(t[i]) <= cc}
      at == IF stops = {} THEN 0 ELSE CHOOSE i \in stops : \A j \in stops : j <= i
  IN  SubSeq(t, 1, at) \o <<r>> \o SubSeq(t, at + 1, Len(t))

NFD(t) == FoldLeft(InsertMark, <<>>, FlattenSeq([i \in DOMAIN t |-> Full(t[i])]))

(* The last starter takes in a rune that nothing between blocks. *)
ComposeRune(t, r) ==
  LET starters == {i \in DOMAIN t : nfcCCC(t[i]) = 0}
      s == CHOOSE i \in starters : \A j \in starters : j <= i
      between == {nfcCCC(t[i]) : i \in (s + 1)..Len(t)}
  IN  IF /\ starters # {} /\ composePair(t[s], r) # 0
         /\ \A c \in between : c # 0 /\ c < nfcCCC(r)
      THEN [t EXCEPT ![s] = composePair(t[s], r)]
      ELSE Append(t, r)

NFC(t) == FoldLeft(ComposeRune, <<>>, NFD(t))

(* Names of at most MaxRunes runes. *)
NameTypeOK == text \in Seq(Runes) /\ Len(text) <= MaxRunes

(* A name in normal form is never refused (G-NORM), and what it is         *)
(* normalised to is accepted: a peer that normalises can always be served. *)
NormalIsAccepted == isNFC(NFC(text)) /\ (NFC(text) = text => isNFC(text))

(* Among names spelled without precomposed runes isNFC decides exactly.    *)
DecomposedIsExact ==
  ToSet(text) \cap (Composites \cup Syllables) = {} => (isNFC(text) <=> NFC(text) = text)

(* "Unicode scalar sequence is not NFC (reject; do not silently normalize)"*)
(* (IP-S-0001): an accepted name is its own normal form.                   *)
AcceptedIsNormal == isNFC(text) => NFC(text) = text
=============================================================================
