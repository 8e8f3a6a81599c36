----------------------------- MODULE TextReaders -----------------------------
(***************************************************************************)
(* The two components that read text, beside each other: a behaviour is    *)
(* either one of the parser on one text or one of the configuration.       *)
(***************************************************************************)
EXTENDS Configuration, JsonParser

\* Which of the two is at work; the other stays in one of its initial states.
VARIABLE reader

ReadersInit ==
  /\ \/ reader = "Manager" /\ text = <<>>
     \/ reader = "JsonParser" /\ file = <<>>
  /\ Init
  /\ InitParse

ReadersNext ==
  /\ \/ reader = "Manager" /\ Next /\ UNCHANGED jsonVars
     \/ reader = "JsonParser" /\ NextParse /\ UNCHANGED vars
  /\ UNCHANGED reader

ReadersSpec == ReadersInit /\ [][ReadersNext]_<<vars, jsonVars, reader>>

\* Both readers' variables have their types. No text takes the parser's stack
\* beyond the depth it allows, and no url in use has a port out of range.
TypesOK == TypeOK /\ JsonTypeOK
=============================================================================
