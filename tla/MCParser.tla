------------------------------ MODULE MCParser ------------------------------
(* Short files, one declaration each, every one of them with one token     *)
(* removed, added or replaced, with two removed, or with one removed and   *)
(* one added; a good declaration follows.  And the same files cut off.     *)
EXTENDS Parser

Good == { <<"import", "id", ".", "id", "{", "id", ",", "id", "}">>,
          <<"module", "id", "nl", "import", "id", "as", "id">>,
          <<"type", "id", "=", "id", "<", "id", ",", "id", ">", "tagged", "str">>,
          <<"record", "id", "{", "nl", "id", ":", "id", ",", "id", ":", "id", "nl", "}">>,
          <<"enum", "id", "{", "id", "(", "id", ",", "id", ")", "nl", "id", "{", "id", ":", "id", "}", "}">>,
          <<"extern", "query", "id", ".", "id", "(", "id", ":", "id", ")", "->", "id", "uses", "id">>,
          <<"func", "id", "(", "id", ":", "id", ",", "nl", "id", ":", "id", ")", "->", "id", "nl",
            "uses", "id", "nl", "requires", "id", ">", "int", "{", "return", "}">>,
          <<"func", "id", "(", ")", "{", "nl", "let", "id", ":", "id", "=", "id", "(", "id", ")",
            "else", "fail", "id", "nl", "if", "id", "{", "id", "nl", "}", "nl",
            "else", "if", "id", "{", "}", "else", "{", "nl", "}", "nl", "}">>,
          <<"func", "id", "(", ")", "{", "return", "match", "id", "{", "id", "(", "id", ")", "=>",
            "id", "{", "id", ":", "int", "}", ",", "id", "{", "id", "}", "=>", "true", "}", "}">>,
          <<"func", "id", "(", ")", "{", "let", "id", "=", "[", "int", ",", "(", "id", ")", "=>", "id", "]", "nl",
            "id", ".", "id", "(", "(", "id", ",", "id", ")", "=>", "-", "(", "id", ")", ")", "}">> }

Stray == {"nl", ",", "{", "}", "(", ")", "]", ":", "=>", "id", "use", "str", "type", "func", "uses", "if"}

Frequent == {"}", "func"}

Removed(p)  == { SubSeq(p, 1, i - 1) \o SubSeq(p, i + 1, Len(p)) : i \in 1..Len(p) }
Added(p, K) == { SubSeq(p, 1, i) \o <<k>> \o SubSeq(p, i + 1, Len(p)) : i \in 0..Len(p), k \in K }
Replaced(p) == { [p EXCEPT ![i] = k] : i \in 1..Len(p), k \in Stray }
Cut(p)      == { SubSeq(p, 1, i) : i \in 0..(Len(p) - 1) }

Rest == <<"nl", "type", "id", "=", "id", "nl", "eof">>

Broken(p)   == {p} \cup Removed(p) \cup Added(p, Stray) \cup Replaced(p)
               \cup UNION { Removed(q) \cup Added(q, Frequent) : q \in Removed(p) }

MCPrograms == UNION { { q \o Rest : q \in Broken(p) } \cup { q \o <<"eof">> : q \in Cut(p) }
                      : p \in Good }
=============================================================================
