---------------------------- MODULE ConfigReader ----------------------------
(* The handles of Config with the reader of Json: a model gives Read the   *)
(* value Parse.                                                            *)
EXTENDS Config, Json

(* "end" is what At puts behind a text; no lexeme is called so.            *)
ASSUME ReaderAssumption == \A l \in Alphabet : l.lex # "end"

(* The reader accepts exactly the documents of the grammar, and what it    *)
(* hands the loaders is the document (json.h parseValue and Value).        *)
ReaderExact == ReadsExactly(draft)
=============================================================================
