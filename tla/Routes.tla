------------------------------- MODULE Routes -------------------------------
(***************************************************************************)
(* The routes of the HTTP controllers, in the order in which NestJS        *)
(* registers them.  A route is its method and path ("*" is a parameter),   *)
(* its guard (open, opt: OptionalAuthGuard, jwt: JwtAuthGuard, admin: that *)
(* and AdminGuard), the field of the user that the handler passes on (id,  *)
(* sub or none), and what the service does with rows: read; insert one of  *)
(* the caller; owner, change a row after comparing its owner with the      *)
(* caller; own, change the row found by the caller; toggle, remove that or *)
(* insert it; any, change what belongs to nobody; account and upload, see  *)
(* AuthSessions, Registration and Galleries.                               *)
(***************************************************************************)
EXTENDS Integers, Sequences

R(method, path, guard, as, rule) ==
  [method |-> method, path |-> path, guard |-> guard, as |-> as, rule |-> rule]

\* The routes of a controller under the path of its decorator.
Under(base, routes) == [i \in DOMAIN routes |-> [routes[i] EXCEPT !.path = base \o @]]

HealthRoutes == Under(<<"health">>, <<
  R("GET", <<>>, "open", "none", "read"), R("GET", <<"ready">>, "open", "none", "read"),
  R("GET", <<"live">>, "open", "none", "read"), R("GET", <<"db">>, "open", "none", "read"),
  R("GET", <<"redis">>, "open", "none", "read"), R("GET", <<"memory">>, "open", "none", "read"),
  R("GET", <<"detailed">>, "open", "none", "read") >>)

AuthRoutes == Under(<<"auth">>, <<
  R("POST", <<"register">>, "open", "none", "account"), R("POST", <<"verify-otp">>, "open", "none", "account"),
  R("POST", <<"login">>, "open", "none", "account"), R("POST", <<"refresh">>, "open", "none", "account"),
  R("POST", <<"logout">>, "jwt", "id", "account"), R("POST", <<"forgot-password">>, "open", "none", "account"),
  R("POST", <<"reset-password">>, "open", "none", "account"), R("GET", <<"me">>, "jwt", "id", "read") >>)

MediaRoutes == Under(<<"media">>, <<
  R("POST", <<"upload">>, "jwt", "sub", "upload"), R("POST", <<"upload-multiple">>, "jwt", "sub", "upload"),
  R("DELETE", <<"*">>, "jwt", "none", "any") >>)

ProfileRoutes == Under(<<"users">>, <<
  R("GET", <<"me">>, "jwt", "id", "read"), R("PATCH", <<"me">>, "jwt", "id", "own"),
  R("POST", <<"me", "avatar">>, "jwt", "id", "own"), R("POST", <<"me", "cover">>, "jwt", "id", "own"),
  R("DELETE", <<"me", "avatar">>, "jwt", "id", "own"), R("DELETE", <<"me", "cover">>, "jwt", "id", "own"),
  R("GET", <<"online-status">>, "jwt", "none", "read"), R("GET", <<"privacy-settings">>, "jwt", "id", "read"),
  R("PATCH", <<"privacy-settings">>, "jwt", "id", "own") >>)

RelationRoutes == Under(<<"users">>, <<
  R("GET", <<"search">>, "opt", "id", "read"), R("GET", <<"username", "*">>, "opt", "id", "read"),
  R("GET", <<"*">>, "opt", "id", "read"), R("GET", <<"*", "followers">>, "opt", "id", "read"),
  R("GET", <<"*", "following">>, "opt", "id", "read"), R("POST", <<"*", "follow">>, "jwt", "id", "insert"),
  R("DELETE", <<"*", "follow">>, "jwt", "id", "own"), R("POST", <<"*", "block">>, "jwt", "id", "insert"),
  R("DELETE", <<"*", "block">>, "jwt", "id", "own") >>)

ListingRoutes == Under(<<"listings">>, <<
  R("POST", <<>>, "jwt", "sub", "insert"), R("GET", <<>>, "opt", "sub", "read"),
  R("GET", <<"search">>, "opt", "sub", "read"), R("GET", <<"popular">>, "open", "none", "read"),
  R("GET", <<"user", "*">>, "opt", "sub", "read"), R("GET", <<"*">>, "opt", "sub", "read"),
  R("GET", <<"*", "related">>, "open", "none", "read"), R("PATCH", <<"*">>, "jwt", "sub", "owner"),
  R("DELETE", <<"*">>, "jwt", "sub", "owner"), R("POST", <<"*", "sold">>, "jwt", "sub", "owner") >>)

ListingCategoryRoutes == Under(<<"listings">>, <<
  R("GET", <<"categories">>, "open", "none", "read"),
  R("GET", <<"categories", "flat">>, "open", "none", "read"),
  R("GET", <<"categories", "*">>, "open", "none", "read"),
  R("GET", <<"categories", "slug", "*">>, "open", "none", "read"),
  R("POST", <<"categories">>, "jwt", "none", "any"), R("PATCH", <<"categories", "*">>, "jwt", "none", "any"),
  R("DELETE", <<"categories", "*">>, "jwt", "none", "any"),
  R("POST", <<"categories", "reorder">>, "jwt", "none", "any") >>)

FavoriteRoutes == Under(<<"listings">>, <<
  R("GET", <<"favorites">>, "jwt", "sub", "read"), R("POST", <<"*", "favorite">>, "jwt", "sub", "toggle"),
  R("DELETE", <<"*", "favorite">>, "jwt", "sub", "own"),
  R("GET", <<"*", "favorite", "count">>, "jwt", "none", "read") >>)

PartRoutes == Under(<<"parts">>, <<
  R("POST", <<>>, "jwt", "sub", "insert"), R("GET", <<>>, "open", "none", "read"),
  R("GET", <<"search">>, "open", "none", "read"), R("GET", <<"compatible">>, "open", "none", "read"),
  R("GET", <<"popular">>, "open", "none", "read"), R("GET", <<"user", "*">>, "opt", "sub", "read"),
  R("GET", <<"*">>, "open", "none", "read"), R("PATCH", <<"*">>, "jwt", "sub", "owner"),
  R("DELETE", <<"*">>, "jwt", "sub", "owner"), R("POST", <<"*", "sold">>, "jwt", "sub", "owner") >>)

PartCategoryRoutes == Under(<<"parts">>, <<
  R("GET", <<"categories">>, "open", "none", "read"),
  R("GET", <<"categories", "flat">>, "open", "none", "read"),
  R("GET", <<"categories", "*">>, "open", "none", "read"),
  R("GET", <<"categories", "slug", "*">>, "open", "none", "read"),
  R("POST", <<"categories">>, "jwt", "none", "any"), R("PATCH", <<"categories", "*">>, "jwt", "none", "any"),
  R("DELETE", <<"categories", "*">>, "jwt", "none", "any"),
  R("POST", <<"categories", "reorder">>, "jwt", "none", "any") >>)

PostRoutes == Under(<<"posts">>, <<
  R("POST", <<>>, "jwt", "sub", "insert"), R("GET", <<"feed">>, "jwt", "sub", "read"),
  R("GET", <<"trending">>, "opt", "sub", "read"), R("GET", <<"trending", "hashtags">>, "open", "none", "read"),
  R("GET", <<"user", "*">>, "opt", "sub", "read"), R("GET", <<"hashtag", "*">>, "opt", "sub", "read"),
  R("GET", <<"*">>, "opt", "sub", "read"), R("PATCH", <<"*">>, "jwt", "sub", "owner"),
  R("DELETE", <<"*">>, "jwt", "sub", "owner"), R("POST", <<"*", "like">>, "jwt", "sub", "toggle"),
  R("POST", <<"*", "share">>, "jwt", "sub", "insert") >>)

CommentRoutes == Under(<<>>, <<
  R("POST", <<"posts", "*", "comments">>, "jwt", "sub", "insert"),
  R("GET", <<"posts", "*", "comments">>, "opt", "sub", "read"),
  R("GET", <<"comments", "*">>, "opt", "sub", "read"),
  R("GET", <<"comments", "*", "replies">>, "opt", "sub", "read"),
  R("PATCH", <<"comments", "*">>, "jwt", "sub", "owner"),
  R("DELETE", <<"comments", "*">>, "jwt", "sub", "owner"),
  R("POST", <<"comments", "*", "like">>, "jwt", "sub", "toggle") >>)

StoryRoutes == Under(<<"stories">>, <<
  R("POST", <<>>, "jwt", "sub", "insert"), R("GET", <<"feed">>, "jwt", "sub", "read"),
  R("GET", <<"user", "*">>, "opt", "sub", "read"), R("GET", <<"*">>, "opt", "sub", "read"),
  R("POST", <<"*", "view">>, "jwt", "sub", "insert"), R("GET", <<"*", "viewers">>, "jwt", "sub", "read"),
  R("DELETE", <<"*">>, "jwt", "sub", "owner") >>)

ForumCategoryRoutes == Under(<<"forum", "categories">>, <<
  R("POST", <<>>, "jwt", "none", "any"), R("GET", <<>>, "open", "none", "read"),
  R("GET", <<"*">>, "open", "none", "read"), R("GET", <<"slug", "*">>, "open", "none", "read"),
  R("PUT", <<"*">>, "jwt", "none", "any"), R("DELETE", <<"*">>, "jwt", "none", "any") >>)

ThreadRoutes == Under(<<"forum", "threads">>, <<
  R("POST", <<>>, "jwt", "id", "insert"), R("GET", <<>>, "opt", "id", "read"),
  R("GET", <<"*">>, "opt", "id", "read"), R("PUT", <<"*">>, "jwt", "id", "owner"),
  R("DELETE", <<"*">>, "jwt", "id", "owner"), R("POST", <<"*", "like">>, "jwt", "id", "toggle"),
  R("POST", <<"*", "subscribe">>, "jwt", "id", "toggle"), R("POST", <<"*", "pin">>, "jwt", "none", "any"),
  R("POST", <<"*", "lock">>, "jwt", "none", "any"), R("POST", <<"*", "replies">>, "jwt", "id", "insert"),
  R("GET", <<"*", "replies">>, "opt", "id", "read") >>)

ReplyRoutes == Under(<<"forum", "replies">>, <<
  R("GET", <<"*">>, "opt", "id", "read"), R("PUT", <<"*">>, "jwt", "id", "owner"),
  R("DELETE", <<"*">>, "jwt", "id", "owner"), R("POST", <<"*", "like">>, "jwt", "id", "toggle") >>)

ServiceCategoryRoutes == Under(<<"services", "categories">>, <<
  R("POST", <<>>, "jwt", "none", "any"), R("GET", <<>>, "open", "none", "read"),
  R("GET", <<"*">>, "open", "none", "read"), R("GET", <<"slug", "*">>, "open", "none", "read"),
  R("PUT", <<"*">>, "jwt", "none", "any"), R("DELETE", <<"*">>, "jwt", "none", "any") >>)

ServiceRoutes == Under(<<"services">>, <<
  R("POST", <<>>, "jwt", "id", "insert"), R("GET", <<>>, "opt", "id", "read"),
  R("GET", <<"*">>, "opt", "id", "read"), R("PUT", <<"*">>, "jwt", "id", "owner"),
  R("DELETE", <<"*">>, "jwt", "id", "owner"), R("POST", <<"*", "verify">>, "jwt", "none", "any"),
  R("GET", <<"user", "*">>, "opt", "id", "read"), R("POST", <<"*", "reviews">>, "jwt", "id", "insert"),
  R("GET", <<"*", "reviews">>, "opt", "id", "read") >>)

ReviewRoutes == Under(<<"services", "reviews">>, <<
  R("GET", <<"*">>, "opt", "id", "read"), R("PUT", <<"*">>, "jwt", "id", "owner"),
  R("DELETE", <<"*">>, "jwt", "id", "owner") >>)

ChatRoutes == Under(<<"chat">>, <<
  R("GET", <<"conversations">>, "jwt", "id", "read"), R("POST", <<"conversations">>, "jwt", "id", "insert"),
  R("GET", <<"conversations", "*">>, "jwt", "id", "read"),
  R("GET", <<"conversations", "*", "messages">>, "jwt", "id", "read"),
  R("POST", <<"conversations", "*", "messages">>, "jwt", "id", "insert"),
  R("POST", <<"conversations", "*", "read">>, "jwt", "id", "own"),
  R("POST", <<"conversations", "*", "mute">>, "jwt", "id", "own"),
  R("DELETE", <<"messages", "*">>, "jwt", "id", "own"), R("GET", <<"unread">>, "jwt", "id", "read") >>)

NotificationRoutes == Under(<<"notifications">>, <<
  R("GET", <<>>, "jwt", "id", "read"), R("GET", <<"unread-count">>, "jwt", "id", "read"),
  R("GET", <<"preferences">>, "jwt", "id", "read"), R("PATCH", <<"preferences">>, "jwt", "id", "own"),
  R("GET", <<"*">>, "jwt", "id", "read"), R("POST", <<"*", "read">>, "jwt", "id", "own"),
  R("POST", <<"read-all">>, "jwt", "id", "own"), R("DELETE", <<"*">>, "jwt", "id", "own"),
  R("GET", <<"devices">>, "jwt", "id", "read"), R("POST", <<"devices">>, "jwt", "id", "insert"),
  R("DELETE", <<"devices", "*">>, "jwt", "id", "own"), R("DELETE", <<"devices">>, "jwt", "id", "own") >>)

AdminRoutes == Under(<<"admin">>, <<
  R("GET", <<"security", "audit">>, "admin", "none", "read"),
  R("GET", <<"security", "failed-logins">>, "admin", "none", "read"),
  R("GET", <<"security", "rate-limits">>, "admin", "none", "read"),
  R("GET", <<"security", "suspicious-activity">>, "admin", "none", "read"),
  R("GET", <<"cache", "stats">>, "admin", "none", "read"),
  R("GET", <<"cache", "health">>, "admin", "none", "read"),
  R("GET", <<"cache", "alerts">>, "admin", "none", "read"),
  R("DELETE", <<"cache", "alerts">>, "admin", "none", "any"),
  R("GET", <<"cache", "warming", "tasks">>, "admin", "none", "read"),
  R("POST", <<"cache", "warming", "run">>, "admin", "none", "any"),
  R("POST", <<"cache", "warming", "run", "*">>, "admin", "none", "any"),
  R("DELETE", <<"cache", "key", "*">>, "admin", "none", "any"),
  R("DELETE", <<"cache", "pattern", "*">>, "admin", "none", "any"),
  R("POST", <<"cache", "flush">>, "admin", "none", "any"),
  R("POST", <<"cache", "stats", "reset">>, "admin", "none", "any"),
  R("GET", <<"cache", "thresholds">>, "admin", "none", "read"),
  R("POST", <<"cache", "thresholds">>, "admin", "none", "any") >>)

MetricsRoutes == Under(<<"admin", "metrics">>, <<
  R("GET", <<>>, "admin", "none", "read"), R("GET", <<"requests">>, "admin", "none", "read"),
  R("GET", <<"endpoints">>, "admin", "none", "read"), R("GET", <<"system">>, "admin", "none", "read"),
  R("GET", <<"performance">>, "admin", "none", "read"),
  R("GET", <<"performance", "slow-queries">>, "admin", "none", "read"),
  R("GET", <<"performance", "slow-requests">>, "admin", "none", "read"),
  R("GET", <<"errors">>, "admin", "none", "read"), R("GET", <<"errors", "list">>, "admin", "none", "read"),
  R("GET", <<"audit">>, "admin", "none", "read"), R("GET", <<"audit", "security">>, "admin", "none", "read"),
  R("POST", <<"reset">>, "admin", "none", "any") >>)

\* The order of the modules in AppModule, and of their controllers.
Routes ==
  HealthRoutes \o AuthRoutes \o MediaRoutes \o ProfileRoutes \o RelationRoutes \o ListingRoutes
  \o ListingCategoryRoutes \o FavoriteRoutes \o PartRoutes \o PartCategoryRoutes \o PostRoutes
  \o CommentRoutes \o StoryRoutes \o ForumCategoryRoutes \o ThreadRoutes \o ReplyRoutes
  \o ServiceCategoryRoutes \o ServiceRoutes \o ReviewRoutes \o ChatRoutes \o NotificationRoutes
  \o AdminRoutes \o MetricsRoutes

\* Whatever matches route i matches route j.
Covers(j, i) ==
  LET p == Routes[j].path
      q == Routes[i].path
  IN  /\ Routes[j].method = Routes[i].method
      /\ Len(p) = Len(q) /\ \A k \in 1..Len(p) : p[k] = "*" \/ p[k] = q[k]

\* The first route that matches is taken: these are never reached.  The one that
\* is taken wants a UUID where the path has a word, and answers with an error.
Shadowed == {i \in 1..Len(Routes) : \E j \in 1..i - 1 : Covers(j, i)}
=============================================================================
