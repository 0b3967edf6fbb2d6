------------------------------ MODULE RouteText ------------------------------
(***************************************************************************)
(* The text of routes, subscriptions and configs: a sequence of parts, cut *)
(* at the route delimiter.  format_dynamic() (emitter/producer.py) fills   *)
(* the parts written {name} with fields of an event, each of which may     *)
(* itself contain the delimiter, and so be several parts.                  *)
(***************************************************************************)
EXTENDS Naturals, Sequences, SequencesExt

CONSTANTS
    Part,           \* what a delimiter separates
    BracedName      \* the name in each part written {name}

Text   == Seq(Part)
Braced == DOMAIN BracedName

ASSUME BracedAssumption == Braced \subseteq Part

\* text.format(**fields); it raises unless every name is a field.
CanFormat(text, fields) == \A p \in ToSet(text) \cap Braced : BracedName[p] \in DOMAIN fields

Format(text, fields) ==
    FlattenSeq([i \in DOMAIN text |->
        IF text[i] \in Braced THEN fields[BracedName[text[i]]] ELSE <<text[i]>>])

\* Route and config alike: every attribute that is text is formatted.
CanFormatDynamic(texts, fields) == \A text \in ToSet(texts) : CanFormat(text, fields)

FormatDynamic(texts, fields) == [i \in DOMAIN texts |-> Format(texts[i], fields)]

===============================================================================
