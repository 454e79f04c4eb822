---------------------------- MODULE MCPromptBuilder ----------------------------
(* A small model with a dialect speaker, a speaker whose dialect the table *)
(* lacks, and every kind of request.                                       *)
EXTENDS PromptBuilder

MCTokens ==
  {"im_start", "assistant", "nl", "nlnl", "w1", "w2", "i1", "r1", "r2",
   "f1", "f2", "f3", "f4", "f5"}
    \cup {n \o "_id" : n \in {"chinese", "sichuan", "vivian", "eric", "dylan"}}

MCLanguages == [l \in {"chinese", "sichuan"} |-> l \o "_id"]

MCSpeakers ==
  [s \in {"vivian", "eric", "dylan"} |->
     [id |-> s \o "_id",
      dialect |-> CASE s = "vivian" -> Nothing [] s = "eric" -> "sichuan" [] OTHER -> "beijing"]]

Roles == {<<"im_start", "assistant", n>> : n \in {"nl", "nlnl"}}

Plain ==
  [role |-> <<"im_start", "assistant", "nl">>, words |-> <<"w1">>, instruct |-> <<>>,
   lang |-> "auto", speaker |-> Nothing, voice |-> Nothing, ref |-> Nothing, codes |-> <<>>]

(* Requests whose prefix may be kept. *)
Spoken ==
  [role : Roles, words : {<<"w1">>}, instruct : {<<>>, <<"i1">>}, lang : {"auto", "chinese"},
   speaker : {Nothing, "eric"}, voice : {Nothing}, ref : {Nothing}, codes : {<<>>}]

(* Requests with a voice, with and without a reference text. *)
Cloned ==
  {[Plain EXCEPT !.words = <<"w1", "w2">>, !.voice = v, !.ref = t, !.codes = c] :
     v \in {"v1", "v2"}, t \in {Nothing, <<>>, <<"r1">>, <<"r1", "r2">>},
     c \in {<<>>, <<"f1">>, <<"f1", "f2", "f3", "f4", "f5">>}}

(* Requests that are refused, and a speaker without a dialect. *)
Odd ==
  {[Plain EXCEPT !.words = <<>>], [Plain EXCEPT !.lang = "klingon"],
   [Plain EXCEPT !.speaker = "nobody"], [Plain EXCEPT !.speaker = "dylan"],
   [Plain EXCEPT !.speaker = "dylan", !.lang = "sichuan"],
   [Plain EXCEPT !.speaker = "vivian", !.voice = "v1"],
   [Plain EXCEPT !.ref = <<"r1">>, !.codes = <<"f1">>]}

MCRequests == Spoken \cup Cloned \cup Odd
=============================================================================
