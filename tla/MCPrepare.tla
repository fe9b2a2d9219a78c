----------------------------- MODULE MCPrepare -----------------------------
(* Every short text over an alphabet that has a token of each class. *)
EXTENDS Prepare

MCSpace == {" ", "NL", "CR", "J "}
MCAbbreviation == {"Mr", "etc"}
MCStarter == {"Mr", "Tom", "3", "'", "(", "[", "[Illustration:"}
MCTerminal == [en |-> {".", "!"}, ja |-> {"J.", "J!"}]
MCCloser == [en |-> {"'", ")", "]"}, ja |-> {"J]"}]

Letters == {"Mr", "etc", "Tom", "she", "One", "End"}

(* Texts of at most n tokens, with no two words that touch. *)
Texts(S, n) ==
  {t \in SeqOf(S, n) :
    \A p \in 1 .. (Len(t) - 1) : ~(t[p] \in Letters /\ t[p + 1] \in Letters)}

Book(t) == <<"NL", "START", "NL">> \o t \o <<"NL", "END">>

Asked(l, raw, first, last) ==
  [lang |-> l, raw |-> raw, firstLine |-> first, lastLine |-> last]

(* The anchors are the first and the last word: what is between them is    *)
(* free.                                                                   *)
Between(l, texts) ==
  {Asked(l, Book(<<"One", " ">> \o t \o <<" ", "End">>), <<"One">>, <<"End">>) :
     t \in texts}

English == Between("en",
  Texts({"Mr", "Tom", "she", "3", ".", "!", "'", " ", "NL"}, 4))

Japanese == Between("ja",
  Texts({"J", "J.", "J!", "J[", "J]", "NL", "J ", "CR"}, 4))

Pictures == Between("en",
  Texts({"[Illustration:", "[Illustration]", "[", "]", "Tom", ".", "NL"}, 5))

(* Anchors of one and of two words, in texts that hold them any number of  *)
(* times, and licences with a marker missing or out of place.              *)
Anchors == {<<"Tom">>, <<"she">>, <<"Tom", " ", "she">>, <<"she", " ", "Tom">>}

Anchored ==
  {Asked("en", raw, first, last) :
     raw \in UNION {{Book(t) : t \in Texts({"Tom", "she", " ", "NL"}, 5)},
       {<<"START", "Tom">>, <<"Tom", "END">>, <<"END", "Tom", "START", "END">>}},
     first \in Anchors, last \in Anchors}

MCCatalogs == {English, Japanese, Pictures, Anchored}
=============================================================================
