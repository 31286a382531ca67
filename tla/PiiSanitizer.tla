---------------------------- MODULE PiiSanitizer ----------------------------
(***************************************************************************)
(* Detection and masking of personal data in a text (preprocessing/pii.py) *)
(* and the provider texts' way through it (sanitizers.py, then the         *)
(* preprocessing of the dataset).                                          *)
(*                                                                         *)
(* A text is a sequence of characters of a few kinds:                      *)
(*   a    a letter                  d    a digit                           *)
(*   l    a keyword as "login"      w    the letters "www" (or "https")    *)
(*   @ .  an at sign, a full stop   _    white space                       *)
(*   < >  angle brackets            &    one level of HTML encoding of     *)
(*   *    a placeholder                  the character after it            *)
(*   n    the entity of a space by its name, "&nbsp;"                      *)
(*   N    the same name in capitals, which is no entity                    *)
(*   I ^  a capital that is a letter and a mark when it is small (U+0130)  *)
(* so "&d" is the entity of a digit and "&&d" the entity encoded again.    *)
(* Each of the five patterns keeps its borders, which are what decides     *)
(* whether masking one match lets another come out; lengths are reduced: a *)
(* phone has three digits, an address two, a domain may be one label.      *)
(***************************************************************************)
EXTENDS Integers, Sequences, FiniteSets, FiniteSetsExt

Characters == {"a", "d", "l", "w", "@", ".", "_", "<", ">", "&", "n", "N", "I", "^"}
Placeholder == "*"
Categories == {"email", "fr_phone", "ipv4", "url", "obvious_identifier"}

At(text, i) == IF i \in DOMAIN text THEN text[i] ELSE "end"

(* A walk over the positions 1..n: the parts of the visited ones, in order. *)
Walk(n, part, next) ==
  LET From[i \in 1..(n + 1)] == IF i > n THEN <<>> ELSE part[i] \o From[next[i]]
  IN From[1]

Visited(next) == Range(Walk(Len(next), [i \in DOMAIN next |-> <<i>>], next))

(* The elements of text at the positions that are kept. *)
Keep(text, positions) ==
  Walk(Len(text), [i \in DOMAIN text |-> IF i \in positions THEN <<text[i]>> ELSE <<>>],
       [i \in DOMAIN text |-> i + 1])

(* From left to right, each stretch to the first of its ends becomes mark. *)
Substitute(text, ends, mark) ==
  LET next == [i \in DOMAIN text |-> IF ends[i] = {} THEN i + 1 ELSE Min(ends[i]) + 1]
  IN Keep([i \in DOMAIN text |-> IF ends[i] = {} THEN text[i] ELSE mark], Visited(next))

(* html.unescape takes one level away from every encoded character, and    *)
(* makes a space of the name of one.                                       *)
Normalize(text) ==
  Keep([i \in DOMAIN text |-> IF text[i] = "n" /\ At(text, i - 1) # "&" THEN "_" ELSE text[i]],
       {i \in DOMAIN text : ~(text[i] = "&" /\ At(text, i + 1) \in Characters \ {"&"})})

(* text.lower(): all other letters are the same to the patterns.           *)
Lower(text) ==
  Walk(Len(text), [i \in DOMAIN text |-> CASE text[i] = "N" -> <<"n">>
                                            [] text[i] = "I" -> <<"a", "^">>
                                            [] OTHER -> <<text[i]>>],
       [i \in DOMAIN text |-> i + 1])

-----------------------------------------------------------------------------
Letters == {"a", "l", "w", "I"}
Word == Letters \cup {"d"}
Local == Word \cup {".", "&"}  \* in the local part of an address

(* For each category, the ends of the matches that start at i.             *)
EmailEnds(text, i) ==
  {j \in (i + 2)..Len(text) :
     /\ At(text, i - 1) \notin Local /\ text[i] \in Word
     /\ \E k \in (i + 1)..(j - 1) :
          /\ text[k] = "@" /\ text[k - 1] \in Word
          /\ \A p \in i..(k - 1) : text[p] \in Local
          /\ \A p \in (k + 1)..j : text[p] \in Word \cup {"."}
          /\ \A p \in k..(j - 1) : text[p] \in {"@", "."} => text[p + 1] \in Word
     /\ text[j] \in Letters /\ At(text, j + 1) \notin Word}

PhoneEnds(text, i) ==
  {j \in (i + 2)..Len(text) :
     /\ At(text, i - 1) # "d" /\ text[i] = "d"
     /\ \E k \in (i + 1)..(j - 1) :
          /\ text[k] = "d"
          /\ \A p \in (i + 1)..(j - 1) : p # k => text[p] \in {"_", "."}
     /\ text[j] = "d" /\ At(text, j + 1) # "d"}

Ipv4Ends(text, i) ==
  {j \in (i + 2)..Len(text) :
     /\ At(text, i - 1) \notin Word /\ text[i] = "d" /\ text[i + 1] = "."
     /\ j = i + 2 /\ text[j] = "d" /\ At(text, j + 1) \notin Word}

UrlEnds(text, i) ==
  {j \in (i + 2)..Len(text) :
     /\ At(text, i - 1) \notin Word /\ text[i] = "w" /\ text[i + 1] = "."
     /\ \A p \in (i + 2)..j : text[p] \notin {"_", "<", ">"}}

IdentifierEnds(text, i) ==
  {j \in (i + 1)..Len(text) :
     /\ At(text, i - 1) \notin Word /\ text[i] = "l" /\ text[i + 1] \notin Word
     /\ \E k \in (i + 1)..j :
          /\ \A p \in (i + 1)..(k - 1) : text[p] = "_"
          /\ \A p \in k..j : text[p] \in Word \cup {".", "@"}}

Ends(category, text, i) ==
  CASE category = "email" -> EmailEnds(text, i)
    [] category = "fr_phone" -> PhoneEnds(text, i)
    [] category = "ipv4" -> Ipv4Ends(text, i)
    [] category = "url" -> UrlEnds(text, i)
    [] category = "obvious_identifier" -> IdentifierEnds(text, i)

(* pattern.finditer: from left to right, greedy, without overlaps. *)
FindIter(category, text) ==
  LET next == [i \in DOMAIN text |->
                 IF Ends(category, text, i) = {} THEN i + 1 ELSE Max(Ends(category, text, i)) + 1]
  IN {[start |-> i, end |-> next[i] - 1, category |-> category] :
        i \in {v \in Visited(next) : Ends(category, text, v) # {}}}

(* detect_pii: the matches in the text it normalizes itself. *)
DetectPii(text) == UNION {FindIter(c, Normalize(text)) : c \in Categories}

(* Fault: the loop of the replacement ends after its first match. *)
ReplaceFirstMatch(text, matches) ==
  IF matches = {} THEN text
  ELSE LET first == CHOOSE m \in matches : \A n \in matches : m.start <= n.start
       IN SubSeq(text, 1, first.start - 1) \o <<Placeholder>>
            \o SubSeq(text, first.end + 1, Len(text))

(* Matches in the order of start and end; one that starts inside the one  *)
(* replaced before it is skipped, and what is left of it stays.            *)
ReplaceNonOverlapping(text, matches) ==
  Substitute(text, [i \in DOMAIN text |-> {m.end : m \in {n \in matches : n.start = i}}],
             Placeholder)

(* sanitize_text normalizes, and applies to the result the offsets of the  *)
(* detector, which has normalized once more.                               *)
SanitizeText(text) ==
  LET normalized == Normalize(text)
  IN ReplaceNonOverlapping(normalized, DetectPii(normalized))

-----------------------------------------------------------------------------
(* Neither a space nor a bracket is one while it is encoded. *)
Unencoded(text, c) == {i \in DOMAIN text : text[i] = c /\ At(text, i - 1) # "&"}
Solid(text) == DOMAIN text \ Unencoded(text, "_")

Strip(text) ==
  Keep(text, {i \in DOMAIN text : \E j, k \in Solid(text) : j <= i /\ i <= k})

(* </?[A-Z][^>]*> is replaced by a space. *)
StripTags(text) ==
  Substitute(text,
    [i \in DOMAIN text |->
       IF i \in Unencoded(text, "<") /\ At(text, i + 1) \in Letters
       THEN {j \in Unencoded(text, ">") : j > i + 1} ELSE {}],
    "_")

(* sanitize_provider_text: tags go after the masking, so that an address   *)
(* in angle brackets is masked and not dropped.                            *)
SanitizeProviderText(text) == Strip(StripTags(SanitizeText(Normalize(Strip(text)))))

(* Fault: the preprocessing trusts the provider sanitizer. *)
GuardedTextOnce(text) == SanitizeProviderText(text)

(* What the ingestion checks and stores: the text of a provider, sanitized *)
(* again by the preprocessing.                                             *)
GuardedText(text) == SanitizeText(SanitizeProviderText(text))

(* assert_no_residual_pii passes. *)
NoResidualPii(text) == DetectPii(text) = {}
=============================================================================
