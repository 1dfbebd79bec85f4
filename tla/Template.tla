------------------------------ MODULE Template ------------------------------
(***************************************************************************)
(* FormatTemplate (util/util.go), which makes the name of the output file  *)
(* from --output and the metadata of the video: while there is a "%(key)s" *)
(* in the text, all its occurrences are replaced by the value of the key,  *)
(* which somebody else chose and which may hold anything, keys included.   *)
(*                                                                         *)
(* A text is a sequence of tokens: "%(" and ")s", words, which are what    *)
(* the regular expression takes for (part of) a key, and "/", for all that *)
(* sanitizeFilename replaces.  Words next to each other make no other key. *)
(* Both callers pass filename = true.                                      *)
(***************************************************************************)
EXTENDS Integers, Sequences, SequencesExt

CONSTANTS
  Key,        \* the keys there are values for
  Erased,     \* those replaced by nothing in file names
  Word,       \* all words: the keys, "_", other ones
  Lower,      \* strings.ToLower: each word in lower case
  Templates,  \* values of --output
  Values,     \* what the metadata may be: functions from keys to texts
  MaxLength   \* bound: texts longer than that are not looked at further

Token == Word \cup {"%(", ")s", "/"}

ASSUME KeysAssumption == Erased \subseteq Key /\ Key \cup {"_"} \subseteq Word
ASSUME LowerAssumption == Lower \in [Word -> Word]
ASSUME WordAssumption == Word \cap {"%(", ")s", "/"} = {}
ASSUME TemplatesAssumption == Templates \subseteq Seq(Token)
ASSUME ValuesAssumption == Values \subseteq [Key -> Seq(Token)]

VARIABLES
  template,    \* the text, as far as it is expanded
  given,       \* --output
  formatVals,  \* the values of the keys
  result       \* "none" while FormatTemplate runs, then "ok" or "error"

templateVars == <<template, given, formatVals, result>>

TemplateTypeOK ==
  /\ given \in Templates
  /\ template \in Seq(Token)
  /\ formatVals \in Values
  /\ result \in {"none", "ok", "error"}

TemplateInit ==
  /\ given \in Templates
  /\ template = given
  /\ formatVals \in Values
  /\ result = "none"

(* A mutant: values go into the file name as they are. *)
sanitizeFilename_Not(v) == v

sanitizeFilename(v) == [i \in DOMAIN v |-> IF v[i] = "/" THEN "_" ELSE v[i]]

(* The words that are keys, in whatever case. *)
KeyWord == {w \in Word : Lower[w] \in Key}

(* What such a word is replaced by in a file name. *)
Value(w) ==
  IF Lower[w] \in Erased THEN <<>> ELSE sanitizeFilename(formatVals[Lower[w]])

----------------------------------------------------------------------------
(* The loop *)

(* The "%(...)s" in a text, as their first and last token. *)
Matches(text) ==
  {m \in (1 .. Len(text)) \X (1 .. Len(text)) :
     /\ m[1] + 1 < m[2]
     /\ text[m[1]] = "%(" /\ text[m[2]] = ")s"
     /\ \A i \in m[1] + 1 .. m[2] - 1 : text[i] \in Word}

(* FindStringSubmatch returns the first of them. *)
Match == CHOOSE m \in Matches(template) : \A n \in Matches(template) : m[1] =< n[1]
Found == SubSeq(template, Match[1] + 1, Match[2] - 1)

(* strings.ReplaceAll.  What it replaces begins with "%(" and goes on      *)
(* without one, so that no two places overlap.                             *)
At(i) ==
  i + Len(Found) + 1 =< Len(template)
  /\ SubSeq(template, i, i + Len(Found) + 1) = <<"%(">> \o Found \o <<")s">>

Covered(i) == \E j \in i - Len(Found) - 1 .. i : j >= 1 /\ At(j)

(* A mutant: all the keys in the text are replaced, not only this one.     *)
Replaced_EveryKey(value) ==
  FlattenSeq([i \in 1 .. Len(template) |->
                IF \E m \in Matches(template) : i = m[1] THEN value
                ELSE IF \E m \in Matches(template) : i \in m[1] .. m[2] THEN <<>>
                ELSE <<template[i]>>])

(* A mutant: ReplaceAll looks for the key in lower case, too, and does not *)
(* find it.                                                                *)
Replaced_Nothing(value) == template

Replaced(value) ==
  FlattenSeq([i \in 1 .. Len(template) |->
                IF At(i) THEN value
                ELSE IF Covered(i) THEN <<>> ELSE <<template[i]>>])

Known == Len(Found) = 1 /\ Found[1] \in KeyWord

Replace ==
  /\ result = "none" /\ Matches(template) # {} /\ Known
  /\ Len(template) =< MaxLength
  /\ template' = Replaced(Value(Found[1]))
  /\ UNCHANGED <<given, formatVals, result>>

(* "Unknown format key" *)
UnknownKey ==
  /\ result = "none" /\ Matches(template) # {} /\ ~Known
  /\ result' = "error"
  /\ UNCHANGED <<template, given, formatVals>>

ReturnText ==
  /\ result = "none" /\ Matches(template) = {}
  /\ result' = "ok"
  /\ UNCHANGED <<template, given, formatVals>>

(* The function has returned, or the text has outgrown the bound.          *)
Over ==
  /\ result # "none" \/ Len(template) > MaxLength
  /\ UNCHANGED templateVars

TemplateNext == Replace \/ UnknownKey \/ ReturnText \/ Over

TemplateSpec == TemplateInit /\ [][TemplateNext]_templateVars

FairSpec == TemplateSpec /\ WF_templateVars(TemplateNext)

----------------------------------------------------------------------------
(* Properties *)

(* The keys that the value of one brings into the text.                    *)
Brings(w) == {k \in KeyWord : \E i \in DOMAIN Value(w) : Value(w)[i] = k}

(* A text without half a key: each "%(" begins one, each ")s" ends one.    *)
WellFormed(text) ==
  \A i \in DOMAIN text :
    /\ text[i] = "%(" => i + 2 =< Len(text) /\ text[i + 1] \in Word /\ text[i + 2] = ")s"
    /\ text[i] = ")s" => i > 2 /\ text[i - 2] = "%("

(* What a reader of the usage expects: each key replaced by its value, once. *)
Expansion(text) ==
  LET from[i \in 1 .. Len(text) + 1] ==
        IF i > Len(text) THEN <<>>
        ELSE IF text[i] = "%(" THEN Value(text[i + 1]) \o from[i + 3]
        ELSE <<text[i]>> \o from[i + 1]
  IN  from[1]

Plain(text) == \A i \in DOMAIN text : text[i] \notin {"%(", ")s"}

(* With values that hold no part of a key the loop, which replaces all of  *)
(* one key, then all of the next, comes to the same as replacing each key  *)
(* in its place; the only error is a key of the template that is unknown.  *)
Expanded ==
  WellFormed(given) /\ (\A k \in KeyWord : Plain(Value(k))) =>
    LET known == \A i \in DOMAIN given : given[i] = "%(" => given[i + 1] \in KeyWord
    IN  /\ result = "ok" => known /\ template = Expansion(given)
        /\ result = "error" => ~known

Slashes(text) == Cardinality({i \in DOMAIN text : text[i] = "/"})

(* A text up to its last separator. *)
Directory(text) ==
  SubSeq(text, 1, Max({0} \cup {i \in DOMAIN text : text[i] = "/"}))

(* Whatever the values hold, those that are themselves templates included, *)
(* they bring in and take away no separator, and if --output names a       *)
(* directory without a key in it, the file is saved in that one.           *)
SavedWhereAsked ==
  /\ Slashes(template) = Slashes(given)
  /\ Plain(Directory(given)) => Directory(template) = Directory(given)

(* FormatTemplate returns, also when values bring in other keys, as long   *)
(* as they do not do so in a circle: a title with "%(title)s" in it, or    *)
(* "%(TITLE)s", is replaced for ever.                                      *)
Acyclic == \A K \in SUBSET KeyWord : K # {} => \E k \in K : Brings(k) \cap K = {}
Returns ==
  Acyclic /\ WellFormed(given) /\ (\A k \in KeyWord : WellFormed(Value(k)))
    ~> result # "none"
=============================================================================
