---------------------------- MODULE Subscription ----------------------------
(***************************************************************************)
(* vpn-subscription: a request passes the rate limiter, users.json is      *)
(* loaded, the user is looked up, and a profile is rendered from the       *)
(* user's record and the endpoints built once, at startup.  The steps of   *)
(* a request interleave with vpn-admin, which the service shares no lock   *)
(* with; of vpn-admin only what UserTransaction and StateFiles are shown   *)
(* to keep is used, UserStore: users.json changes by one command at a time.*)
(*                                                                         *)
(* Hosts, ports and server names are the same in every profile and left    *)
(* out.                                                                    *)
(***************************************************************************)
EXTENDS RateLimiter, Sequences

CONSTANTS
  Request,      \* requests the service handles at a time
  None,         \* no value
  Malformed,    \* a token that is empty or longer than 128 bytes
  Never,        \* expires_at: None
  InitialTable, \* users.json as the model starts
  Keys,         \* key material, [pub, sid, obfs], as the service started
  MaxCommands   \* bound on user commands

\* A user's record; expires is when the user expires.
Row == [id : Nat, enabled : BOOLEAN, cred : Nat, token : Nat,
        expires : Nat \cup {Never}]

ASSUME TableAssumption ==
  /\ InitialTable \subseteq Row
  /\ \A u \in InitialTable : u.id <= 1 /\ u.token <= 1
  /\ \A u, v \in InitialTable : u.id = v.id \/ u.token = v.token => u = v
  /\ MaxCommands \in Nat
  /\ Malformed \notin Nat

VARIABLES
  table,     \* users.json
  commands,  \* user commands so far
  req,       \* where each request is and what it holds
  window     \* history: what users.json and the clock were during a request

svars == <<lvars, table, commands, req, window>>

Store == INSTANCE UserStore WITH users <- table

----------------------------------------------------------------------------
(* Profiles (compat-config/src/render.rs).                                 *)

standard_endpoints(k) ==
  <<[id |-> "reality-1", transport |-> "reality", label |-> "Reality",
     params |-> [pub |-> k.pub, sid |-> k.sid]],
    [id |-> "hysteria2-1", transport |-> "hysteria2", label |-> "Hysteria2",
     params |-> [obfs |-> k.obfs]]>>

\* One share link, and one outbound.
render_uri(u, ep) ==
  [transport |-> ep.transport, cred |-> u.cred, params |-> ep.params,
   label |-> ep.label]
outbound(u, ep) ==
  [transport |-> ep.transport, cred |-> u.cred, params |-> ep.params,
   tag |-> ep.label]

render_uri_list(u, eps) == [n \in DOMAIN eps |-> render_uri(u, eps[n])]

Tags(eps) == [n \in DOMAIN eps |-> eps[n].label]

\* The first endpoint of a transport.
HasTransport(eps, t) == \E n \in DOMAIN eps : eps[n].transport = t
FirstOf(eps, t) ==
  eps[CHOOSE n \in DOMAIN eps :
        /\ eps[n].transport = t
        /\ \A m \in DOMAIN eps : eps[m].transport = t => n <= m].label

\* SelectionProfile::parse; anything else is the default.
Profile == {"reliability", "performance", "auto"}
parse_profile(s) == IF s \in Profile THEN s ELSE "reliability"

\* Mutant: the default route is named by the endpoint's id.
DefaultById(eps, profile) ==
  IF profile = "auto" \/ Len(eps) = 0 THEN "auto" ELSE eps[1].id

default_tag(eps, profile) ==
  LET first == IF Len(eps) > 0 THEN eps[1].label ELSE "auto"
      reality == IF HasTransport(eps, "reality")
                 THEN FirstOf(eps, "reality") ELSE first
  IN CASE profile = "reliability" -> reality
       [] profile = "performance" ->
            IF HasTransport(eps, "hysteria2")
            THEN FirstOf(eps, "hysteria2") ELSE reality
       [] profile = "auto" -> "auto"

render_singbox_client_subscription(u, eps, profile) ==
  [outbounds |-> [n \in DOMAIN eps |-> outbound(u, eps[n])],
   auto |-> Tags(eps),
   select |-> Append(Tags(eps), "auto"),
   default |-> default_tag(eps, profile)]

endpoints == standard_endpoints(Keys)

----------------------------------------------------------------------------
(* Requests.                                                               *)

Format == {"singbox", "uri", "hiddify", "other"}
Token == 0 .. MaxCommands + 1
NoRequest == [pc |-> "idle", token |-> None, got |-> None, code |-> 0,
              body |-> None, format |-> None]

is_active(u, now) == u.enabled /\ (u.expires = Never \/ now < u.expires)

\* find_user_by_token, with verify_token: tokens are drawn, no two are equal.
find_user_by_token(us, token, now) ==
  {u \in us : u.token = token /\ is_active(u, now)}

Answer(r, code, body, format) ==
  req' = [req EXCEPT ![r].pc = "answered", ![r].code = code,
                     ![r].body = body, ![r].format = format]

\* What a request in progress may be explained by from now on.
Watched(us, t) ==
  window' = [r \in Request |->
               IF req[r].pc = "idle" THEN {}
               ELSE window[r] \cup {[users |-> us, now |-> t]}]

\* The limiter, then the length of the token.
Receive(r, p, token) ==
  /\ req[r].pc = "idle"
  /\ allow(p)
  /\ req' = [req EXCEPT ![r] =
       IF ~Allowed(p)
       THEN [NoRequest EXCEPT !.pc = "answered", !.token = token, !.code = 429]
       ELSE IF token = Malformed
       THEN [NoRequest EXCEPT !.pc = "answered", !.token = token, !.code = 404]
       ELSE [NoRequest EXCEPT !.pc = "load", !.token = token]]
  /\ window' = [window EXCEPT ![r] = {[users |-> table, now |-> clock]}]
  /\ UNCHANGED <<table, commands>>

\* Mutant: users.json is read once, at startup.
LoadAtStartup(r) ==
  /\ req[r].pc = "load"
  /\ req' = [req EXCEPT ![r].pc = "find", ![r].got = InitialTable]
  /\ UNCHANGED <<lvars, table, commands, window>>

\* load_users; an I/O or parse error is a 500.
LoadUsers(r) ==
  /\ req[r].pc = "load"
  /\ \/ req' = [req EXCEPT ![r].pc = "find", ![r].got = table]
     \/ Answer(r, 500, None, None)
  /\ UNCHANGED <<lvars, table, commands, window>>

\* The clock is read, the user looked up, the profile rendered.
Render(r) ==
  /\ req[r].pc = "find"
  /\ LET found == find_user_by_token(req[r].got, req[r].token, clock)
     IN \/ found = {} /\ Answer(r, 404, None, None)
        \/ \E u \in found, f \in Format :
             CASE f = "singbox" ->
                    \E q \in Profile \cup {"typo"} :
                      Answer(r, 200, render_singbox_client_subscription(u,
                               endpoints, parse_profile(q)), f)
               [] f \in {"uri", "hiddify"} ->
                    Answer(r, 200, render_uri_list(u, endpoints), f)
               [] f = "other" -> Answer(r, 400, None, f)
  /\ UNCHANGED <<lvars, table, commands, window>>

Deliver(r) ==
  /\ req[r].pc = "answered"
  /\ req' = [req EXCEPT ![r] = NoRequest]
  /\ window' = [window EXCEPT ![r] = {}]
  /\ UNCHANGED <<lvars, table, commands>>

----------------------------------------------------------------------------
(* Around the service.                                                     *)

UserCommand ==
  /\ commands < MaxCommands
  /\ commands' = commands + 1
  /\ table' \in Store!Drawn(table, commands + 2, Never) \cup Store!Undrawn(table)
  /\ Watched(table', clock)
  /\ UNCHANGED <<lvars, req>>

Tick ==
  /\ TimePasses
  /\ Watched(table, clock')
  /\ UNCHANGED <<table, commands, req>>

\* The service is started again: requests, buckets and nothing else is lost.
Restart ==
  /\ Restarted
  /\ req' = [r \in Request |-> NoRequest]
  /\ window' = [r \in Request |-> {}]
  /\ UNCHANGED <<table, commands>>

SubscriptionInit ==
  /\ LimiterInit
  /\ table = InitialTable
  /\ commands = 0
  /\ req = [r \in Request |-> NoRequest]
  /\ window = [r \in Request |-> {}]

SubscriptionNext ==
  \/ \E r \in Request, p \in Peer, t \in Token \cup {Malformed} :
       Receive(r, p, t)
  \/ \E r \in Request : LoadUsers(r) \/ Render(r) \/ Deliver(r)
  \/ UserCommand
  \/ Tick
  \/ Restart

SubscriptionSpec == SubscriptionInit /\ [][SubscriptionNext]_svars

----------------------------------------------------------------------------
\* The users a token gives access to when users.json and the clock are s.
Entitled(s, token) ==
  {u \in s.users : u.token = token /\ u.enabled
                   /\ (u.expires # Never => s.now < u.expires)}

\* The body offers each endpoint with u's credentials, and as its default
\* route one of the outbounds it defines.
Serves(b, u) ==
  LET links == IF b.format = "singbox" THEN b.body.outbounds ELSE b.body
  IN /\ \A n \in DOMAIN endpoints : \E m \in DOMAIN links :
          links[m].params = endpoints[n].params /\ links[m].cred = u.cred
     /\ b.format = "singbox" =>
          \E m \in DOMAIN b.body.select : b.body.select[m] = b.body.default

\* Answer a is right for one of the states in w.
Explained(a, w) ==
  /\ a.code = 200 =>
       \E s \in w : \E u \in Entitled(s, a.token) : Serves(a, u)
  /\ a.code = 404 => \E s \in w : Entitled(s, a.token) = {}

\* Every answer is one a single look at users.json and the clock, some time
\* during the request, would have given: a token withdrawn, disabled or
\* expired before the request gets no profile, one valid throughout is not
\* refused, and a profile is whole and carries credentials its user had
\* meanwhile, although the request reads file and clock one after the other
\* and no lock is shared with vpn-admin.
AnswerExplained ==
  \A r \in Request : req[r].pc = "answered" => Explained(req[r], window[r])
=============================================================================
