----------------------------- MODULE MCServices -----------------------------
(* The plugin manager, the voice session, the internet tool and the        *)
(* outgoing messages.  They share no state, so a behaviour runs one of     *)
(* them; searches and fetches are told apart for the same reason.          *)
EXTENDS PluginLifecycle, VoiceSession, InternetAccess, Correspondence

CONSTANTS base, addon, rival, t1, t2, op1,   \* plugins, their tools, the operator
          a1, a2,                            \* tasks that pause
          s1, s2,                            \* searches
          l1, l2, p1, p2                     \* letters and who they are for

VARIABLE part   \* the component that runs

allVars == <<part, vars, voiceVars, internetVars, outboxVars>>

(* addon needs base; rival contributes addon's tool and then base's.       *)
MCToolsOf ==
  [p \in {base, addon, rival} |->
     CASE p = base -> <<t1>> [] p = addon -> <<t2>> [] OTHER -> <<t2, t1>>]
MCDependsOn ==
  [p \in {base, addon, rival} |-> IF p = addon THEN <<base>> ELSE <<>>]

(* Results that repeat each other by url or by title, agree or not, are    *)
(* old, or have a link no reader can follow.                               *)
MCPage(u, title, domain, score) ==
  [url |-> u, title |-> title, domain |-> domain, score |-> score, fresh |-> TRUE,
   link |-> "http"]
MCRawAnswers ==
  LET a == MCPage(1, "a", "x.org", 1)
      b == MCPage(2, "b", "x.org", 1)
      c == MCPage(1, "b", "y.com", 2)
      d == MCPage(3, "b", "x.org", 2)
      f == MCPage(1, "b", "x.org", 2)
      e == [a EXCEPT !.fresh = FALSE, !.domain = "y.com", !.url = 4]
      g == MCPage(5, "b", "x.org", 3)
      h == MCPage(5, "c", "x.org", 4)
  IN  {<<a>>, <<a, f, g, h>>, <<d, b>>, <<b, d>>, <<a, e>>, <<a, b, c>>, <<d, c, a>>, <<a, b, f>>,
       <<[b EXCEPT !.link = "other"], [d EXCEPT !.link = "none"], a>>}
MCTtl == [c \in {"web", "news"} |-> IF c = "web" THEN 1 ELSE 0]
MCAddresses == {{}, {"private"}, {"loopback", "private"}, {"v6"}}

ServicesInit ==
  /\ Init /\ VoiceInit /\ InternetInit /\ OutboxInit
  /\ part \in {"plugins", "voice", "search", "fetch", "outbox"}
  /\ part # "search" => adapter = "searxng"   \* only a search looks at it

ServicesNext ==
  \/ /\ part = "plugins" /\ Next
     /\ UNCHANGED <<part, voiceVars, internetVars, outboxVars>>
  \/ /\ part = "voice" /\ VoiceNext
     /\ UNCHANGED <<part, vars, internetVars, outboxVars>>
  \/ /\ part = "search" /\ SearchNext
     /\ UNCHANGED <<part, vars, voiceVars, outboxVars>>
  \/ /\ part = "fetch" /\ FetchNext
     /\ UNCHANGED <<part, vars, voiceVars, outboxVars>>
  \/ /\ part = "outbox" /\ OutboxNext
     /\ UNCHANGED <<part, vars, voiceVars, internetVars>>

ServicesSpec == ServicesInit /\ [][ServicesNext]_allVars
=============================================================================
