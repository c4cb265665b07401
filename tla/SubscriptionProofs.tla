------------------------- MODULE SubscriptionProofs -------------------------
(***************************************************************************)
(* Proofs about the subscription service: the default route of every       *)
(* profile, the limiter's promise in the whole service, and that every     *)
(* answer is right for some moment of its request, AnswerExplained.        *)
(***************************************************************************)
EXTENDS Subscription, LimiterProofs, SequenceTheorems, WellFoundedInduction

(* Profiles.                                                               *)

\* FirstOf finds an endpoint of the transport when there is one.
LEMMA FirstOfFound ==
  ASSUME NEW S, NEW eps \in Seq(S), NEW t, HasTransport(eps, t)
  PROVE  \E n \in DOMAIN eps : FirstOf(eps, t) = eps[n].label
<1> DEFINE T == {n \in DOMAIN eps : eps[n].transport = t}
<1>1. T \subseteq Nat /\ T # {}
  BY DEF HasTransport
<1>2. \E x \in T : \A y \in T : ~ (<<y, x>> \in OpToRel(<, Nat))
  BY <1>1, WFMin, NatLessThanWellFounded
<1>3. PICK x \in T : \A y \in T : ~ (y < x)
  BY <1>1, <1>2 DEF OpToRel
<1>4. \A m \in DOMAIN eps : eps[m].transport = t => x <= m
  BY <1>1, <1>3
<1> QED
  BY <1>3, <1>4 DEF FirstOf

\* The default route of a profile is one of the outbounds its selector
\* lists, whatever endpoints the deployment has
\* (render_singbox_client_subscription_with_profile).
THEOREM DefaultOffered ==
  ASSUME NEW S, NEW eps \in Seq(S), NEW u, NEW profile \in Profile
  PROVE  LET body == render_singbox_client_subscription(u, eps, profile)
         IN \E m \in DOMAIN body.select : body.select[m] = body.default
<1> DEFINE labels == {eps[n].label : n \in DOMAIN eps}
           options == Append(Tags(eps), "auto")
           default == default_tag(eps, profile)
<1>1. Tags(eps) \in Seq(labels \cup {"auto"}) /\ Len(Tags(eps)) = Len(eps)
  BY DEF Tags
<1>2. /\ Len(options) = Len(eps) + 1
      /\ DOMAIN options = 1 .. Len(eps) + 1
      /\ options[Len(eps) + 1] = "auto"
      /\ \A n \in DOMAIN eps : options[n] = eps[n].label
  BY <1>1, AppendProperties DEF Tags
<1>3. default = "auto" \/ \E n \in DOMAIN eps : default = eps[n].label
  <2>1. HasTransport(eps, "reality") =>
          \E n \in DOMAIN eps : FirstOf(eps, "reality") = eps[n].label
    BY FirstOfFound
  <2>2. HasTransport(eps, "hysteria2") =>
          \E n \in DOMAIN eps : FirstOf(eps, "hysteria2") = eps[n].label
    BY FirstOfFound
  <2>3. Len(eps) > 0 => 1 \in DOMAIN eps
    OBVIOUS
  <2> QED
    BY <2>1, <2>2, <2>3 DEF default_tag, Profile
<1>4. \E m \in DOMAIN options : options[m] = default
  BY <1>2, <1>3
<1> QED
  BY <1>4 DEF render_singbox_client_subscription

----------------------------------------------------------------------------
(* The limiter in the service.                                             *)

LEMMA ServiceStepLimits == [SubscriptionNext]_svars => [LimiterNext]_lvars
<1> SUFFICES ASSUME [SubscriptionNext]_svars PROVE [LimiterNext]_lvars
  OBVIOUS
<1>1. CASE \E r \in Request, p \in Peer, t \in Token \cup {Malformed} :
             Receive(r, p, t)
  BY <1>1 DEF Receive, LimiterNext
<1>2. CASE \E r \in Request : LoadUsers(r) \/ Render(r) \/ Deliver(r)
  BY <1>2 DEF LoadUsers, Render, Deliver
<1>3. CASE UserCommand
  BY <1>3 DEF UserCommand
<1>4. CASE Tick
  BY <1>4 DEF Tick, LimiterNext
<1>5. CASE Restart
  BY <1>5 DEF Restart, LimiterNext
<1>6. CASE UNCHANGED svars
  BY <1>6 DEF svars
<1> QED
  BY <1>1, <1>2, <1>3, <1>4, <1>5, <1>6 DEF SubscriptionNext

\* In the whole service, restarts and commands of vpn-admin included, no
\* peer is granted more than a full bucket and the refill (allow).
THEOREM ServiceNoBurst == SubscriptionSpec => []NoBurst
<1>1. SubscriptionInit => LimiterIInv
  BY LimiterStarts DEF SubscriptionInit
<1>2. LimiterIInv /\ [SubscriptionNext]_svars => LimiterIInv'
  BY LimiterKeeps, ServiceStepLimits
<1> QED
  BY <1>1, <1>2, InvImpliesNoBurst, PTL DEF SubscriptionSpec

----------------------------------------------------------------------------
(* Every answer is right for some moment of its request.  This rests on    *)
(* tokens: no two users have the same, a new one is unlike all before it,  *)
(* and a token's expiry never changes, so the table a request loaded and   *)
(* the table when it reads the clock agree on when its token expires.      *)

\* Ids and tokens of the users are unique, and secret n is not drawn yet.
TableOK(us, n) ==
  /\ us \subseteq Row
  /\ \A u \in us : u.id < n /\ u.token < n
  /\ \A u, v \in us : u.id = v.id \/ u.token = v.token => u = v

\* A token that both tables have expires at the same time in both.
SameExpiry(us, vs) ==
  \A u \in us, v \in vs : u.token = v.token => u.expires = v.expires

\* What a request that has loaded users.json holds was the file since it
\* was received.
Snapshot(q, w) ==
  /\ \E s \in w : s.users = q.got /\ s.now \in Nat /\ s.now <= clock
  /\ TableOK(q.got, commands + 2)
  /\ SameExpiry(q.got, table)

RequestInv(q, w) ==
  /\ DOMAIN q = DOMAIN NoRequest
  /\ q.pc # "idle" => [users |-> table, now |-> clock] \in w
  /\ q.pc = "find" => Snapshot(q, w)
  /\ q.pc = "answered" => Explained(q, w)

ServiceInv ==
  /\ clock \in Nat /\ commands \in Nat
  /\ TableOK(table, commands + 2)
  /\ DOMAIN req = Request /\ DOMAIN window = Request
  /\ \A r \in Request : RequestInv(req[r], window[r])

\* A command keeps ids and tokens unique; a token that is not new has the
\* expiry it had.
LEMMA CommandTable ==
  ASSUME NEW us, NEW n \in Nat, TableOK(us, n),
         NEW new \in Store!Drawn(us, n, Never) \cup Store!Undrawn(us)
  PROVE  /\ TableOK(new, n + 1)
         /\ \A v \in new : v.token = n
              \/ \E u \in us : u.token = v.token /\ u.expires = v.expires
<1> DEFINE row == [id |-> n, enabled |-> TRUE, cred |-> n, token |-> n,
                   expires |-> Never]
<1>1. CASE new = Store!WithUser(us, row)
  <2>1. row \in Row /\ row.id = n /\ row.token = n
    BY DEF Row
  <2>2. new = us \cup {row}
    BY <1>1 DEF Store!WithUser
  <2> HIDE DEF row
  <2>3. us \subseteq Row /\ \A u \in us : u.id \in Nat /\ u.token \in Nat
    BY DEF TableOK, Row
  <2> QED
    BY <2>1, <2>2, <2>3 DEF TableOK
<1>2. ASSUME NEW r \in us, new = Store!WithCred(us, r.id, n)
      PROVE  /\ TableOK(new, n + 1)
             /\ \A v \in new : \E u \in us :
                  u.token = v.token /\ u.expires = v.expires
  BY <1>2 DEF Store!WithCred, TableOK, Row
<1>3. ASSUME NEW r \in us, new = Store!WithToken(us, r.id, n)
      PROVE  /\ TableOK(new, n + 1)
             /\ \A v \in new : v.token = n
                  \/ \E u \in us : u.token = v.token /\ u.expires = v.expires
  BY <1>3 DEF Store!WithToken, TableOK, Row
<1>4. ASSUME NEW r \in us, NEW b \in BOOLEAN,
             new = Store!WithEnabled(us, r.id, b)
      PROVE  /\ TableOK(new, n + 1)
             /\ \A v \in new : \E u \in us :
                  u.token = v.token /\ u.expires = v.expires
  BY <1>4 DEF Store!WithEnabled, TableOK, Row
<1>5. ASSUME NEW r \in us, new = Store!Without(us, r.id)
      PROVE  TableOK(new, n + 1) /\ new \subseteq us
  BY <1>5 DEF Store!Without, TableOK, Row
<1> QED
  BY <1>1, <1>2, <1>3, <1>4, <1>5 DEF Store!Drawn, Store!Undrawn

\* What explains an answer still does when more has been seen.
LEMMA ExplainedMonotone ==
  ASSUME NEW q, NEW w, NEW v, w \subseteq v, Explained(q, w)
  PROVE  Explained(q, v)
BY DEF Explained

LEMMA SeenGrows ==
  ASSUME ServiceInv, NEW r \in Request, NEW us, NEW t,
         Watched(us, t), us = table', t = clock', req' = req,
         clock' \in Nat, clock <= clock', commands' \in Nat,
         req[r].pc = "find" =>
           /\ TableOK(req[r].got, commands' + 2)
           /\ SameExpiry(req[r].got, table')
  PROVE  RequestInv(req[r], window[r])'
<1>1. /\ RequestInv(req[r], window[r])
      /\ clock \in Nat
      /\ req'[r] = req[r]
  BY DEF ServiceInv
<1>2. CASE req[r].pc = "idle"
  BY <1>1, <1>2 DEF RequestInv
<1>3. CASE req[r].pc # "idle"
  <2>1. window'[r] = window[r] \cup {[users |-> table', now |-> clock']}
    BY <1>3 DEF Watched
  <2>2. req[r].pc = "answered" => Explained(req[r], window'[r])
    BY <1>1, <2>1, ExplainedMonotone DEF RequestInv
  <2>3. req[r].pc = "find" => Snapshot(req[r], window[r])'
    BY <1>1, <2>1 DEF RequestInv, Snapshot
  <2> QED
    BY <1>1, <2>1, <2>2, <2>3 DEF RequestInv
<1> QED
  BY <1>2, <1>3

LEMMA CommandKeeps == ServiceInv /\ UserCommand => ServiceInv'
<1> SUFFICES ASSUME ServiceInv, UserCommand PROVE ServiceInv'
  OBVIOUS
<1>1. /\ clock' = clock /\ req' = req /\ commands' = commands + 1
      /\ clock \in Nat /\ commands \in Nat /\ TableOK(table, commands + 2)
      /\ table' \in Store!Drawn(table, commands + 2, Never)
                      \cup Store!Undrawn(table)
      /\ Watched(table', clock)
  BY DEF UserCommand, ServiceInv, lvars
<1>2. /\ TableOK(table', commands + 3)
      /\ \A v \in table' : v.token = commands + 2
           \/ \E u \in table : u.token = v.token /\ u.expires = v.expires
  BY <1>1, CommandTable
<1>3. ASSUME NEW r \in Request PROVE RequestInv(req[r], window[r])'
  <2>1. ASSUME req[r].pc = "find"
        PROVE  /\ TableOK(req[r].got, commands + 3)
               /\ SameExpiry(req[r].got, table')
    <3>1. Snapshot(req[r], window[r])
      BY <2>1 DEF ServiceInv, RequestInv
    <3>2. \A u \in req[r].got : u.token # commands + 2
      BY <1>1, <3>1 DEF Snapshot, TableOK, Row
    <3>3. SameExpiry(req[r].got, table')
      BY <1>2, <3>1, <3>2 DEF Snapshot, SameExpiry
    <3> QED
      BY <1>1, <3>1, <3>3 DEF Snapshot, TableOK, Row
  <2> QED
    BY <1>1, <2>1, SeenGrows
<1> QED
  BY <1>1, <1>2, <1>3 DEF ServiceInv, Watched

LEMMA TickKeeps == ServiceInv /\ Tick => ServiceInv'
<1> SUFFICES ASSUME ServiceInv, Tick PROVE ServiceInv'
  OBVIOUS
<1>1. /\ clock' = clock + 1 /\ req' = req
      /\ table' = table /\ commands' = commands
      /\ clock \in Nat /\ commands \in Nat
      /\ Watched(table, clock')
  BY DEF Tick, TimePasses, ServiceInv
<1>2. ASSUME NEW r \in Request PROVE RequestInv(req[r], window[r])'
  <2>1. req[r].pc = "find" => Snapshot(req[r], window[r])
    BY DEF ServiceInv, RequestInv
  <2> QED
    BY <1>1, <2>1, SeenGrows DEF Snapshot
<1> QED
  BY <1>1, <1>2 DEF ServiceInv, Watched

\* A step that is one of request r alone.
Only(r) ==
  /\ DOMAIN req' = Request /\ DOMAIN window' = Request
  /\ \A o \in Request \ {r} : req'[o] = req[o] /\ window'[o] = window[o]
  /\ clock' = clock /\ table' = table /\ commands' = commands

LEMMA OneRequest ==
  ASSUME ServiceInv, NEW r \in Request, Only(r),
         RequestInv(req[r], window[r])'
  PROVE  ServiceInv'
<1>1. ASSUME NEW o \in Request \ {r} PROVE RequestInv(req[o], window[o])'
  <2>1. RequestInv(req[o], window[o])
    BY DEF ServiceInv
  <2> QED
    BY <2>1 DEF RequestInv, Snapshot, Only
<1> QED
  BY <1>1 DEF ServiceInv, Only

LEMMA ReceiveKeeps ==
  ASSUME ServiceInv, NEW r \in Request, NEW p \in Peer, NEW t,
         Receive(r, p, t)
  PROVE  ServiceInv'
<1>1. Only(r) /\ window'[r] = {[users |-> table, now |-> clock]}
  BY DEF Receive, allow, Only, ServiceInv
<1>2. \/ req'[r] = [NoRequest EXCEPT !.pc = "answered", !.token = t,
                                     !.code = 429]
      \/ /\ req'[r] = [NoRequest EXCEPT !.pc = "answered", !.token = t,
                                        !.code = 404]
         /\ t = Malformed
      \/ req'[r] = [NoRequest EXCEPT !.pc = "load", !.token = t]
  BY DEF Receive, ServiceInv
<1>3. Entitled([users |-> table, now |-> clock], Malformed) = {}
  BY TableAssumption DEF Entitled, ServiceInv, TableOK, Row
<1>4. DOMAIN req'[r] = DOMAIN NoRequest
  BY <1>2 DEF NoRequest
<1>5. \/ req'[r].pc = "load"
      \/ req'[r].pc = "answered" /\ req'[r].code = 429
      \/ req'[r].pc = "answered" /\ req'[r].code = 404
         /\ req'[r].token = Malformed
  <2>1. CASE req'[r] = [NoRequest EXCEPT !.pc = "answered", !.token = t,
                                         !.code = 429]
    BY <2>1 DEF NoRequest
  <2>2. CASE /\ req'[r] = [NoRequest EXCEPT !.pc = "answered", !.token = t,
                                            !.code = 404]
             /\ t = Malformed
    BY <2>2 DEF NoRequest
  <2>3. CASE req'[r] = [NoRequest EXCEPT !.pc = "load", !.token = t]
    BY <2>3 DEF NoRequest
  <2> QED
    BY <1>2, <2>1, <2>2, <2>3
<1>6. req'[r].pc = "answered" => Explained(req'[r], window'[r])
  BY <1>1, <1>3, <1>5 DEF Explained
<1>7. RequestInv(req[r], window[r])'
  BY <1>1, <1>4, <1>5, <1>6 DEF RequestInv, Only
<1> QED
  BY <1>1, <1>7, OneRequest

\* Answering with this code and body.
LEMMA AnswerForm ==
  ASSUME ServiceInv, NEW r \in Request, NEW code, NEW body, NEW format,
         Answer(r, code, body, format),
         UNCHANGED <<lvars, table, commands, window>>
  PROVE  /\ Only(r)
         /\ DOMAIN req'[r] = DOMAIN NoRequest
         /\ req'[r].pc = "answered" /\ req'[r].token = req[r].token
         /\ req'[r].code = code /\ req'[r].body = body
         /\ req'[r].format = format
<1>1. DOMAIN req = Request /\ DOMAIN req[r] = DOMAIN NoRequest
  BY DEF ServiceInv, RequestInv
<1>2. Only(r)
  BY <1>1 DEF Answer, Only, ServiceInv, lvars
<1>3. req'[r] = [req[r] EXCEPT !.pc = "answered", !.code = code,
                               !.body = body, !.format = format]
  BY <1>1 DEF Answer
<1>4. DOMAIN req[r] = {"pc", "token", "got", "code", "body", "format"}
  BY <1>1 DEF NoRequest
<1> QED
  BY <1>1, <1>2, <1>3, <1>4

LEMMA LoadKeeps ==
  ASSUME ServiceInv, NEW r \in Request, LoadUsers(r)
  PROVE  ServiceInv'
<1>1. /\ UNCHANGED <<lvars, table, commands, window>> /\ req[r].pc = "load"
      /\ clock' = clock
  BY DEF LoadUsers, lvars
<1>2. /\ clock \in Nat /\ TableOK(table, commands + 2)
      /\ DOMAIN req[r] = DOMAIN NoRequest
      /\ [users |-> table, now |-> clock] \in window[r]
  BY <1>1 DEF ServiceInv, RequestInv
<1>3. CASE req' = [req EXCEPT ![r].pc = "find", ![r].got = table]
  <2>1. Only(r)
    BY <1>1, <1>3 DEF Only, ServiceInv
  <2>2. req'[r] = [req[r] EXCEPT !.pc = "find", !.got = table]
    BY <1>3 DEF ServiceInv
  <2>3. DOMAIN req[r] = {"pc", "token", "got", "code", "body", "format"}
    BY <1>2 DEF NoRequest
  <2>4. /\ DOMAIN req'[r] = DOMAIN NoRequest
        /\ req'[r].pc = "find" /\ req'[r].got = table
    BY <1>2, <2>2, <2>3
  <2>5. SameExpiry(table, table)
    BY <1>2 DEF SameExpiry, TableOK
  <2>6. Snapshot(req[r], window[r])'
    BY <1>1, <1>2, <2>4, <2>5 DEF Snapshot
  <2>7. RequestInv(req[r], window[r])'
    BY <1>1, <1>2, <2>4, <2>6 DEF RequestInv
  <2> QED
    BY <2>1, <2>7, OneRequest
<1>4. CASE Answer(r, 500, None, None)
  <2>1. /\ Only(r) /\ DOMAIN req'[r] = DOMAIN NoRequest
        /\ req'[r].pc = "answered" /\ req'[r].code = 500
    BY <1>1, <1>4, AnswerForm
  <2>2. RequestInv(req[r], window[r])'
    BY <1>1, <1>2, <2>1 DEF RequestInv, Explained
  <2> QED
    BY <2>1, <2>2, OneRequest
<1> QED
  BY <1>3, <1>4 DEF LoadUsers

\* The profile rendered for u offers every endpoint with u's credentials.
LEMMA RenderedServes ==
  ASSUME NEW a, NEW u, NEW q,
         \/ /\ a.format = "singbox"
            /\ a.body = render_singbox_client_subscription(u, endpoints,
                                                           parse_profile(q))
         \/ /\ a.format # "singbox"
            /\ a.body = render_uri_list(u, endpoints)
  PROVE  Serves(a, u)
<1>1. \E S : endpoints \in Seq(S)
  <2> DEFINE S == {endpoints[1], endpoints[2]}
  <2>1. endpoints \in Seq(S)
    BY DEF endpoints, standard_endpoints
  <2> QED
    BY <2>1
<1>2. parse_profile(q) \in Profile
  BY DEF parse_profile, Profile
<1>3. CASE a.format = "singbox"
  <2>1. a.body = render_singbox_client_subscription(u, endpoints,
                                                    parse_profile(q))
    BY <1>3
  <2>2. \E m \in DOMAIN a.body.select : a.body.select[m] = a.body.default
    BY <1>1, <1>2, <2>1, DefaultOffered
  <2>3. \A n \in DOMAIN endpoints :
          /\ n \in DOMAIN a.body.outbounds
          /\ a.body.outbounds[n].params = endpoints[n].params
          /\ a.body.outbounds[n].cred = u.cred
    BY <2>1 DEF render_singbox_client_subscription, outbound
  <2> QED
    BY <1>3, <2>2, <2>3 DEF Serves
<1>4. CASE a.format # "singbox"
  <2>1. a.body = render_uri_list(u, endpoints)
    BY <1>4
  <2>2. \A n \in DOMAIN endpoints :
          /\ n \in DOMAIN a.body
          /\ a.body[n].params = endpoints[n].params
          /\ a.body[n].cred = u.cred
    BY <2>1 DEF render_uri_list, render_uri
  <2> QED
    BY <1>4, <2>2 DEF Serves
<1> QED
  BY <1>3, <1>4

\* Whether the user is found in what was loaded, at a later time.
LEMMA LookupExplained ==
  ASSUME NEW q, NEW w, Snapshot(q, w), clock \in Nat,
         TableOK(table, commands + 2),
         [users |-> table, now |-> clock] \in w
  PROVE  /\ find_user_by_token(q.got, q.token, clock) = {} =>
              \E s \in w : Entitled(s, q.token) = {}
         /\ \A u \in find_user_by_token(q.got, q.token, clock) :
              \E s \in w : u \in Entitled(s, q.token)
<1>1. PICK s \in w : s.users = q.got /\ s.now \in Nat /\ s.now <= clock
  BY DEF Snapshot
<1>2. \A u \in q.got : u.expires \in Nat \cup {Never}
  BY DEF Snapshot, TableOK, Row
<1>3. \A u \in table : u.expires \in Nat \cup {Never}
  BY DEF TableOK, Row
<1>4. ASSUME NEW u \in find_user_by_token(q.got, q.token, clock)
      PROVE  u \in Entitled(s, q.token)
  BY <1>1, <1>2 DEF find_user_by_token, is_active, Entitled
<1>5. ASSUME find_user_by_token(q.got, q.token, clock) = {}
      PROVE  \E x \in w : Entitled(x, q.token) = {}
  <2> DEFINE now == [users |-> table, now |-> clock]
  <2>1. CASE \E u \in q.got : u.token = q.token /\ u.enabled
    <3>1. PICK u \in q.got : u.token = q.token /\ u.enabled
      BY <2>1
    <3>2. u.expires # Never /\ ~ (clock < u.expires)
      BY <1>5, <3>1 DEF find_user_by_token, is_active
    <3>3. \A v \in table : v.token = q.token => v.expires = u.expires
      BY <3>1 DEF Snapshot, SameExpiry
    <3>4. Entitled(now, q.token) = {}
      BY <3>2, <3>3 DEF Entitled
    <3> QED
      BY <3>4
  <2>2. CASE ~ \E u \in q.got : u.token = q.token /\ u.enabled
    <3>1. Entitled(s, q.token) = {}
      BY <1>1, <2>2 DEF Entitled
    <3> QED
      BY <3>1
  <2> QED
    BY <2>1, <2>2
<1> QED
  BY <1>1, <1>4, <1>5

LEMMA RenderKeeps ==
  ASSUME ServiceInv, NEW r \in Request, Render(r)
  PROVE  ServiceInv'
<1> DEFINE found == find_user_by_token(req[r].got, req[r].token, clock)
           profile(u, q) == render_singbox_client_subscription(u, endpoints,
                                                          parse_profile(q))
<1>1. /\ UNCHANGED <<lvars, table, commands, window>> /\ req[r].pc = "find"
      /\ clock' = clock
  BY DEF Render, lvars
<1>2. /\ clock \in Nat /\ TableOK(table, commands + 2)
      /\ Snapshot(req[r], window[r])
      /\ [users |-> table, now |-> clock] \in window[r]
  BY <1>1 DEF ServiceInv, RequestInv
<1>3. /\ found = {} => \E s \in window[r] : Entitled(s, req[r].token) = {}
      /\ \A u \in found : \E s \in window[r] : u \in Entitled(s, req[r].token)
  BY <1>2, LookupExplained
<1>4. ASSUME NEW code, NEW body, NEW format, Answer(r, code, body, format),
             code = 404 => found = {},
             code = 200 => \E u \in found : Serves(req'[r], u)
      PROVE  ServiceInv'
  <2>1. /\ Only(r) /\ DOMAIN req'[r] = DOMAIN NoRequest
        /\ req'[r].pc = "answered" /\ req'[r].token = req[r].token
        /\ req'[r].code = code
    BY <1>1, <1>4, AnswerForm
  <2>2. Explained(req'[r], window[r])
    BY <1>3, <1>4, <2>1 DEF Explained
  <2>3. RequestInv(req[r], window[r])'
    BY <1>1, <1>2, <2>1, <2>2 DEF RequestInv
  <2> QED
    BY <2>1, <2>3, OneRequest
<1>5. CASE found = {} /\ Answer(r, 404, None, None)
  BY <1>4, <1>5
<1>6. ASSUME NEW u \in found, NEW q, Answer(r, 200, profile(u, q), "singbox")
      PROVE  ServiceInv'
  <2>1. req'[r].body = profile(u, q) /\ req'[r].format = "singbox"
    BY <1>1, <1>6, AnswerForm
  <2>2. Serves(req'[r], u)
    BY <2>1, RenderedServes
  <2> QED
    BY <1>4, <1>6, <2>2
<1>7. ASSUME NEW u \in found, NEW f \in {"uri", "hiddify"},
             Answer(r, 200, render_uri_list(u, endpoints), f)
      PROVE  ServiceInv'
  <2>1. req'[r].body = render_uri_list(u, endpoints) /\ req'[r].format = f
    BY <1>1, <1>7, AnswerForm
  <2>2. Serves(req'[r], u)
    BY <2>1, RenderedServes
  <2> QED
    BY <1>4, <1>7, <2>2
<1>8. CASE Answer(r, 400, None, "other")
  BY <1>4, <1>8
<1>9. \/ found = {} /\ Answer(r, 404, None, None)
      \/ \E u \in found, q \in Profile \cup {"typo"} :
           Answer(r, 200, profile(u, q), "singbox")
      \/ \E u \in found, f \in {"uri", "hiddify"} :
           Answer(r, 200, render_uri_list(u, endpoints), f)
      \/ Answer(r, 400, None, "other")
  BY DEF Render, Format
<1> QED
  BY <1>5, <1>6, <1>7, <1>8, <1>9

LEMMA DeliverKeeps ==
  ASSUME ServiceInv, NEW r \in Request, Deliver(r)
  PROVE  ServiceInv'
<1>1. Only(r) /\ req'[r] = NoRequest
  BY DEF Deliver, Only, ServiceInv, lvars
<1>2. RequestInv(req[r], window[r])'
  BY <1>1 DEF RequestInv, NoRequest
<1> QED
  BY <1>1, <1>2, OneRequest

LEMMA RestartKeeps == ServiceInv /\ Restart => ServiceInv'
<1> SUFFICES ASSUME ServiceInv, Restart PROVE ServiceInv'
  OBVIOUS
<1>1. NoRequest.pc = "idle"
  BY DEF NoRequest
<1>2. ASSUME NEW r \in Request PROVE RequestInv(req[r], window[r])'
  BY <1>1 DEF RequestInv, Restart
<1> QED
  BY <1>2 DEF ServiceInv, Restart, Restarted

LEMMA ServiceKeeps == ServiceInv /\ [SubscriptionNext]_svars => ServiceInv'
<1> SUFFICES ASSUME ServiceInv, [SubscriptionNext]_svars PROVE ServiceInv'
  OBVIOUS
<1>1. CASE \E r \in Request, p \in Peer, t \in Token \cup {Malformed} :
             Receive(r, p, t)
  BY <1>1, ReceiveKeeps
<1>2. CASE \E r \in Request : LoadUsers(r) \/ Render(r) \/ Deliver(r)
  BY <1>2, LoadKeeps, RenderKeeps, DeliverKeeps
<1>3. CASE UserCommand \/ Tick \/ Restart
  BY <1>3, CommandKeeps, TickKeeps, RestartKeeps
<1>4. CASE UNCHANGED svars
  BY <1>4 DEF svars, lvars, ServiceInv, RequestInv, Snapshot
<1> QED
  BY <1>1, <1>2, <1>3, <1>4 DEF SubscriptionNext

\* Every answer is one a single look at users.json and the clock, some time
\* during the request, would have given, for any number of requests, peers,
\* users and commands (get_subscription).
THEOREM AnswersExplained == SubscriptionSpec => []AnswerExplained
<1>1. SubscriptionInit => ServiceInv
  <2> SUFFICES ASSUME SubscriptionInit PROVE ServiceInv
    OBVIOUS
  <2>1. TableOK(table, commands + 2)
    BY TableAssumption DEF SubscriptionInit, TableOK, Row
  <2>2. NoRequest.pc = "idle"
    BY DEF NoRequest
  <2>3. ASSUME NEW r \in Request PROVE RequestInv(req[r], window[r])
    BY <2>2 DEF RequestInv, SubscriptionInit
  <2> QED
    BY <2>1, <2>3 DEF ServiceInv, SubscriptionInit, LimiterInit
<1>2. ServiceInv => AnswerExplained
  BY DEF ServiceInv, RequestInv, AnswerExplained
<1> QED
  BY <1>1, <1>2, ServiceKeeps, PTL DEF SubscriptionSpec
=============================================================================
