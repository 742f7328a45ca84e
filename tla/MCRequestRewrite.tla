-------------------------- MODULE MCRequestRewrite --------------------------
(***************************************************************************)
(* Conversations of up to three of a few messages, and limits small enough *)
(* for every cache of RequestRewrite to evict.                             *)
(***************************************************************************)
EXTENDS RequestRewrite

Written(kind, tokens) == [kind |-> kind, tokens |-> tokens, form |-> <<>>, id |-> 0]

Said(role, content) ==
  [role |-> role, calls |-> FALSE, args |-> "", type |-> "unknown", content |-> content]

Call == [Said("assistant", Written("blank", 0)) EXCEPT !.calls = TRUE]

Result(type, content) == [Said("tool", content) EXCEPT !.args = "ls", !.type = type]

System == {Said("system", Written("policy", 3)), Said("system", Written("object", 4))}
User   == {Said("user", Written(kind, 3)) : kind \in {"essay", "question", "imports", "includes"}}
MCResults == {Result("log", Written("noisy", 9)), Result("files", Written("noisy", 9)),
            Result("unknown", Written("json", 12)), Result("unknown", Written("jsonparts", 9))}

MCMessages == System \cup User \cup {Call} \cup MCResults

\* System blocks come first, a call follows a question, a result a call or
\* another result; file after file is pasted.
MCMayFollow(before, m) ==
  IF before = <<>> THEN m \in System \cup User
  ELSE CASE m.role = "system" -> Last(before).role = "system"
         [] m.role = "tool"   -> Last(before).calls \/ Last(before).role = "tool"
         [] m.calls           -> Last(before).content.kind = "question"
         [] Last(before).role = "user" -> {m.content.kind, Last(before).content.kind} \subseteq ImportKinds
         [] OTHER             -> ~Last(before).calls

MCNoTools == [id |-> "none", bytes |-> 0, spare |-> 0]
MCTools   == {[id |-> "a", bytes |-> 6, spare |-> 2], [id |-> "a", bytes |-> 7, spare |-> 1]}

Plain == [concise |-> "absent", pin |-> "absent"]
Ask   == [tools |-> MCNoTools, choice |-> FALSE, header |-> Plain, full |-> FALSE,
          working |-> TRUE]

MCRequests ==
  {Ask, [Ask EXCEPT !.full = TRUE, !.choice = TRUE], [Ask EXCEPT !.working = FALSE],
   [Ask EXCEPT !.header = [concise |-> "on", pin |-> "bounded"]]}
  \cup {[Ask EXCEPT !.tools = t] : t \in MCTools}

MCAllFlags == {"schema_minify", "schema_cache", "tool_results", "l1", "tool_clean"}
MCFlagSets == {MCAllFlags, {"tool_results", "concise"}}

\* A notice of one token, two from ten on.
MCNotice(n) == IF n < 10 THEN 1 ELSE 2
MCShaped(n, i) == (n * (5 - i)) \div 5 + 1
=============================================================================
