--------------------------- MODULE MCChatPipeline ---------------------------
(***************************************************************************)
(* Small instances of ChatPipeline for TLC.  Models "m", "a" and "g"       *)
(* insist on reasoning, "n" does not, "x" names a provider that is not     *)
(* registered.  Prompts "p", "q" and "far" share their prefix; "p" and "q" *)
(* are near enough to each other to be replayed.                           *)
(***************************************************************************)
EXTENDS ChatPipeline, TLC

CONSTANTS r1, r2

Ask == [json |-> TRUE, model |-> "m", prompt |-> "p", stream |-> FALSE,
        ownControl |-> FALSE, tools |-> FALSE]

MCModels == {"m", "n", "a", "g", "x"}
MCProvider == [m |-> "openrouter", n |-> "openai", a |-> "anthropic", g |-> "google",
               x |-> "none"]
MCPrompts == {"p", "q", "far"}
MCPrefix == [p \in MCPrompts |-> "shared"]
MCNear(p, q) == p = q \/ {p, q} = {"p", "q"}

\* Every kind of request, with every kind of answer.
MCAllInputs ==
  {Ask, [Ask EXCEPT !.stream = TRUE], [Ask EXCEPT !.tools = TRUE],
   [Ask EXCEPT !.ownControl = TRUE], [Ask EXCEPT !.json = FALSE],
   [Ask EXCEPT !.model = "n"], [Ask EXCEPT !.model = "a"], [Ask EXCEPT !.model = "g"],
   [Ask EXCEPT !.model = "x"]}
MCAllOutcomes ==
  [status : {400, 500}, body : {"json", "odd", "html", "undecodable"}]
    \cup [status : {200}, body : {"json", "odd", "html", "undecodable"}]

\* What the caches tell apart; model "m" needs the retry before its answer
\* can be stored.
MCCacheInputs ==
  {Ask, [Ask EXCEPT !.prompt = "q"], [Ask EXCEPT !.prompt = "far"],
   [Ask EXCEPT !.stream = TRUE, !.model = "g"], [Ask EXCEPT !.tools = TRUE]}
MCFewOutcomes ==
  {[status |-> 200, body |-> "json"], [status |-> 200, body |-> "odd"],
   [status |-> 500, body |-> "json"]}

Symmetry == Permutations({r1, r2})
=============================================================================
