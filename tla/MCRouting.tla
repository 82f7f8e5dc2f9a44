------------------------------ MODULE MCRouting ------------------------------
(* Two products: the same intent in two capabilities of one, and a field "level"   *)
(* that the two declare with different types.                                *)
EXTENDS Routing, TLC

Intent(product, capability, intent, text, schema, scopes, target) ==
    [product |-> product, capability |-> capability, intent |-> intent, text |-> text,
     schema |-> schema, scopes |-> scopes, target |-> target]

PublishedDef ==
    <<Intent("edu", "tutor", "ask", {"lesson", "explain"}, "query" :> "text" @@ "level" :> "number", 0, TRUE),
      Intent("trade", "predict", "ask", {"market", "predict"}, "symbols" :> "list", 1, TRUE),
      Intent("trade", "teach", "ask", {"market", "explain", "lesson"}, "level" :> "text", 2, TRUE)>>

LatencyDef == "edu" :> 0 @@ "trade" :> 1000

ActionsDef == <<[name |-> "predict", words |-> {"predict"}], [name |-> "explain", words |-> {"explain"}]>>

KinDef == "query" :> <<"query">> @@ "level" :> <<"level">> @@ "symbols" :> <<"symbols">>

Message(path, words, product, capability, gives, allow) ==
    [path |-> path, words |-> words, question |-> TRUE, number |-> FALSE, assignment |-> {},
     product |-> product, capability |-> capability, gives |-> gives, allow |-> allow, run |-> TRUE]

RequestsDef ==
    LET base == Message("turn", {"market", "predict", "tcs"}, Nil, Nil, NoValues, FALSE)
        plain == {[base EXCEPT !.words = w, !.product = p, !.allow = a] :
                    w \in {{"market", "predict"}, {"market", "predict", "tcs"}, {"explain", "lesson"}, {"hello"}},
                    p \in {Nil, "trade", "edu"}, a \in BOOLEAN}
        others == {[base EXCEPT !.words = {"explain", "lesson"}, !.gives = "level" :> t, !.run = r] :
                    t \in {"text", "number", "object"}, r \in BOOLEAN}
                  \cup {[base EXCEPT !.gives = "symbols" :> "empty", !.run = r] : r \in BOOLEAN}
                  \cup {[base EXCEPT !.capability = "teach", !.words = w, !.number = TRUE] :
                    w \in {{"explain"}, {"explain", "market"}}}
        strict == {[base EXCEPT !.path = "ecosystem", !.product = p] : p \in {Nil, "trade"}}
        direct == {[path |-> "dispatch", product |-> p, capability |-> c, intent |-> "ask"] :
                    p \in {Nil, "trade", "edu"}, c \in {Nil, "teach"}}
    IN  plain \cup others \cup strict \cup direct
=============================================================================
