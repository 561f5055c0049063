-------------------------- MODULE AuthWindowProofs --------------------------
(***************************************************************************)
(* Proofs about the sign-on window, for any sites, any number of           *)
(* navigations and certificate questions, and any channel capacities.      *)
(*                                                                         *)
(* PagesWhole is not inductive: Fine relates the state of the adapter to   *)
(* what the engine has shown, so that an answer which is still current is  *)
(* of the navigation that was asked about.  The first part of the module   *)
(* shows of each callback that it keeps Fine and adds at most one message, *)
(* never Ready and never the last word; the invariant and the refinement   *)
(* of SignOnWindow both rest on that.                                      *)
(***************************************************************************)
EXTENDS AuthWindow, TLAPS

Addresses == Sites \cup {"blank"}
Texts    == [kind : {"Ready", "Certificate", "Failed", "Closed"}, id : Nat]
Lates    == {"response", "finish", "failure"}
PageSet  == [kind : {"Page"}, uri : Addresses, headers : Nat, document : Nat, stray : SUBSET Lates]
Messages == Texts \cup PageSet
Orders   == [kind : {"Open", "Close", "Accept", "Reject"}, id : Nat]

Questions  == [id : Nat, generation : Nat, load : Nat]
CaptureSet == [stage : {"script", "ran", "cookies"}, generation : Nat, load : Nat, uri : Addresses,
               headers : Nat, document : Nat]
Views      == [attached : BOOLEAN, closed : BOOLEAN, closing : BOOLEAN, generation : Nat, loaded : BOOLEAN,
               capturing : BOOLEAN, headers : Nat, pending : SUBSET Questions, captures : SUBSET CaptureSet,
               outbox : Seq(Messages), stray : SUBSET Lates]
Engines    == [loads : Seq(Sites), shown : Nat, at : Nat, response : Nat, responded : SUBSET Nat,
               committed : SUBSET Nat, over : SUBSET Nat, refused : SUBSET Nat, reload : BOOLEAN]

\* What the engine shows has been answered, and has been asked for; on Windows the
\* address is of what is shown, on Linux of what has been asked for.
Navigated(e) ==
    /\ e.shown <= e.response /\ e.response <= Latest(e)
    /\ \A l \in e.responded : l <= e.response
    /\ \A l \in e.committed : l <= e.shown
    /\ e.shown <= e.at /\ e.at <= Latest(e)
    /\ platform = "windows" => e.at = e.shown
    /\ platform = "linux" => e.at = Latest(e)

\* Since the last navigation began, no late report has passed the adapter.
Sound(v) == v.stray \subseteq KeptOut

\* A capture is of the last navigation, and a script has run in its document.
Taken(c, e) ==
    /\ c.load = Latest(e) /\ c.uri = Uri(e, Latest(e))
    /\ platform = "linux" => c.headers = c.load
    /\ platform # "linux" \/ c.stage = "script" => e.shown = Latest(e)
    /\ c.stage # "script" => c.document = c.load \/ (platform = "linux" /\ c.stage = "cookies" /\ c.document = 0)

\* A capture of the generation under way.
Apt(c, v, e) == c.generation <= v.generation /\ (Sound(v) /\ c.generation = v.generation => Taken(c, e))

\* The window follows the engine: the generation counts its navigations, the headers
\* that are kept are of the last one, and so is what is loaded.  Linux keeps no
\* headers, macOS may keep some of another address; it does not keep whether the
\* page is loaded.
Follows(v, e) ==
    /\ v.generation = Latest(e)
    /\ platform = "linux" => v.headers = 0
    /\ Sound(v) => \/ v.headers \in {0, Latest(e)}
                   \/ platform \notin {"linux", "windows"} /\ Uri(e, v.headers) # Uri(e, Latest(e))
    /\ v.loaded => platform \in {"linux", "windows"} /\ (Sound(v) => e.shown = Latest(e))

WholePage(m) ==
    m.kind = "Page" => m.uri = "vpn" /\ (m.stray \subseteq KeptOut => m.headers = 0 \/ m.document \in {0, m.headers})

\* Ready is the first message, and every page is whole.
Outgoing(s) == \A k \in 1..Len(s) : WholePage(s[k]) /\ s[k].kind # "Closed" /\ (s[k].kind = "Ready" => k = 1)

Fine(v, e) ==
    /\ ~v.closed => Follows(v, e) /\ \A c \in v.captures : Apt(c, v, e)
    /\ Outgoing(v.outbox)

\* A window that could not be attached is never navigated, and has only failures to
\* tell.
Bare(v, e) ==
    ~v.attached => /\ e = NewEngine /\ v.captures = {} /\ v.pending = {} /\ ~v.loaded
                   /\ \A k \in 1..Len(v.outbox) : v.outbox[k].kind = "Failed"

Types ==
    /\ platform \in Platforms /\ renderers \in BOOLEAN /\ directory \in {"none", "present"}
    /\ proc \in {"none", "starting", "hello", "open", "running", "leaving", "removing", "gone"}
    /\ view \in Views /\ engine \in Engines
    /\ wire \in Seq(Messages) /\ orders \in Seq(Orders) /\ challenges \in Nat

\* Nothing is known before the window is attached, or after the process.
Blank == proc \notin {"running", "leaving", "removing"} => view = NewView /\ engine = NewEngine

\* An acceptance on its way to the window is a decision of the broker.
Ordered(s, ids) == \A k \in 1..Len(s) : s[k].kind = "Accept" => s[k].id \in ids
Decisions == granted \subseteq trusted /\ Ordered(orders, trusted)

Incoming(s) == \A k \in 1..Len(s) : WholePage(s[k])

WInv == Types /\ Blank /\ Decisions /\ Navigated(engine) /\ Fine(view, engine) /\ Bare(view, engine) /\ Incoming(wire)

\* A callback adds one message, or none.
Adds(v, w) ==
    /\ w.attached = v.attached
    /\ \/ w.outbox = v.outbox
       \/ \E m \in Messages : m.kind \in {"Page", "Certificate", "Failed"} /\ w.outbox = Append(v.outbox, m)

\* What a callback makes of the window v, with the engine e.
Reaches(v, w, e) == w \in Views /\ Fine(w, e) /\ Adds(v, w) /\ (Sound(w) => Sound(v))

\* A window that has not changed what is told of it.
Silent(v, w) == w.outbox = v.outbox /\ w.attached = v.attached

\* The same platform, and what is kept with it.
LEMMA Carried ==
  ASSUME platform' = platform, Navigated(engine'), Fine(view', engine'), Bare(view', engine'), Incoming(wire')
  PROVE  /\ (Navigated(engine))' /\ (Fine(view, engine))' /\ (Bare(view, engine))' /\ (Incoming(wire))'
<1>1. KeptOut' = KeptOut
  BY DEF KeptOut
<1> QED BY <1>1 DEF Navigated, Fine, Bare, Incoming, Outgoing, WholePage, Follows, Apt, Taken, Sound

----------------------------------------------------------------------------
(* The adapters' callbacks                                                 *)

\* The members of a longer sequence.
LEMMA Appended ==
  ASSUME NEW S, NEW s \in Seq(S), NEW x \in S
  PROVE  /\ Append(s, x) \in Seq(S) /\ Len(Append(s, x)) = Len(s) + 1
         /\ \A k \in 1..Len(Append(s, x)) : \/ k \in 1..Len(s) /\ Append(s, x)[k] = s[k]
                                            \/ k = Len(s) + 1 /\ Append(s, x)[k] = x
OBVIOUS

\* A callback goes on from where another has left the window.
LEMMA Joined ==
  ASSUME NEW v \in Views, NEW w \in Views, NEW x, NEW e, Silent(v, w), v.stray \subseteq w.stray, Reaches(w, x, e)
  PROVE  Reaches(v, x, e)
BY DEF Reaches, Adds, Silent, Sound

\* A message that is not Ready and not the last word may be posted.
LEMMA PostFine ==
  ASSUME NEW v \in Views, NEW e \in Engines, Fine(v, e),
         NEW m \in Messages, WholePage(m), m.kind \in {"Page", "Certificate", "Failed"}
  PROVE  /\ Reaches(v, Post(v, m), e)
         /\ \E s \in Seq(Messages) : Post(v, m) = [v EXCEPT !.outbox = s]
<1>1. v.outbox \in Seq(Messages)
  BY DEF Views
<1>2. Append(v.outbox, m) \in Seq(Messages) /\ Outgoing(Append(v.outbox, m))
  BY <1>1, Appended DEF Fine, Outgoing
<1>3. Post(v, m) = [v EXCEPT !.outbox = Append(v.outbox, m)]
  BY DEF Post
<1>4. Post(v, m) \in Views /\ Adds(v, Post(v, m))
  BY <1>2, <1>3 DEF Views, Adds
<1>5. Fine(Post(v, m), e) /\ Sound(Post(v, m)) = Sound(v)
  BY <1>2, <1>3 DEF Views, Fine, Follows, Apt, Sound
<1> QED BY <1>2, <1>3, <1>4, <1>5 DEF Reaches

\* A failure is reported if there is room, and the window does nothing more.
LEMMA FailFine ==
  ASSUME NEW v \in Views, NEW e \in Engines, Fine(v, e)
  PROVE  /\ Reaches(v, FailLinux(v), e) /\ Reaches(v, FailWindows(v), e) /\ Reaches(v, FailMac(v), e)
         /\ Reaches(v, Fail(v), e)
<1> DEFINE r == Report(v)
<1>1. Reaches(v, r, e) /\ \E s \in Seq(Messages) : r = [v EXCEPT !.outbox = s]
  <2>1. CASE Room(v)
    <3>1. Message("Failed", 0) \in Messages /\ WholePage(Message("Failed", 0)) /\ Message("Failed", 0).kind = "Failed"
      BY DEF Message, Messages, Texts, WholePage
    <3> QED BY <2>1, <3>1, PostFine DEF Report
  <2>2. CASE ~Room(v)
    BY <2>2 DEF Report, Reaches, Adds, Views
  <2> QED BY <2>1, <2>2
<1>2. PICK s \in Seq(Messages) : r = [v EXCEPT !.outbox = s]
  BY <1>1
<1>3. Outgoing(s) /\ r.outbox = s /\ Adds(v, r)
  BY <1>1, <1>2 DEF Reaches, Fine, Views
<1>4. ASSUME NEW w \in Views, w.closed, w.attached = v.attached, w.stray = v.stray, w.outbox = s PROVE Reaches(v, w, e)
  BY <1>3, <1>4 DEF Reaches, Fine, Adds, Sound
<1> HIDE DEF r
<1>5. Reaches(v, FailLinux(v), e)
  <2>1. FailLinux(v) = [r EXCEPT !.closed = TRUE, !.closing = TRUE, !.pending = {}]
    BY DEF FailLinux, r
  <2>2. FailLinux(v) \in Views /\ FailLinux(v).closed /\ FailLinux(v).attached = v.attached /\ FailLinux(v).stray = v.stray /\ FailLinux(v).outbox = s
    BY <1>2, <2>1 DEF Views
  <2> QED BY <1>4, <2>2
<1>6. Reaches(v, FailWindows(v), e)
  <2>1. FailWindows(v) = [r EXCEPT !.closed = TRUE, !.closing = TRUE]
    BY DEF FailWindows, r
  <2>2. FailWindows(v) \in Views /\ FailWindows(v).closed /\ FailWindows(v).attached = v.attached /\ FailWindows(v).stray = v.stray /\ FailWindows(v).outbox = s
    BY <1>2, <2>1 DEF Views
  <2> QED BY <1>4, <2>2
<1>7. Reaches(v, FailMac(v), e)
  <2>1. PICK n \in Nat : n = v.generation + 1
    BY DEF Views
  <2>2. FailMac(v) = [v EXCEPT !.closed = TRUE, !.closing = TRUE, !.pending = {},
                               !.generation = n, !.headers = 0, !.outbox = s]
    <3>1. FailMac(v) = [r EXCEPT !.closed = TRUE, !.closing = TRUE, !.pending = {},
                                 !.generation = r.generation + 1, !.headers = 0]
      BY DEF FailMac, r
    <3> QED BY <1>2, <2>1, <3>1 DEF Views
  <2>3. FailMac(v) \in Views
    <3>1. FailMac(v) = [attached |-> v.attached, closed |-> TRUE, closing |-> TRUE, generation |-> n,
                        loaded |-> v.loaded, capturing |-> v.capturing, headers |-> 0, pending |-> {},
                        captures |-> v.captures, outbox |-> s, stray |-> v.stray]
      BY <2>2 DEF Views
    <3>2. /\ v.loaded \in BOOLEAN /\ v.capturing \in BOOLEAN /\ v.captures \in SUBSET CaptureSet
          /\ v.attached \in BOOLEAN /\ v.stray \in SUBSET Lates
      BY DEF Views
    <3> QED BY <3>1, <3>2 DEF Views
  <2>4. FailMac(v).closed /\ FailMac(v).attached = v.attached /\ FailMac(v).stray = v.stray /\ FailMac(v).outbox = s
    BY <2>2 DEF Views
  <2> QED BY <1>4, <2>3, <2>4
<1>8. Reaches(v, v, e)
  BY DEF Reaches, Adds
<1> QED BY <1>5, <1>6, <1>7, <1>8 DEF Fail

\* A full channel is a failure.
LEMMA SendFine ==
  ASSUME NEW v \in Views, NEW e \in Engines, Fine(v, e),
         NEW m \in Messages, WholePage(m), m.kind \in {"Page", "Certificate", "Failed"}
  PROVE  Reaches(v, Send(v, m), e)
<1>1. Reaches(v, v, e)
  BY DEF Reaches, Adds
<1> QED BY <1>1, PostFine, FailFine DEF Send

\* A capture is made, or given up.
LEMMA CapturesFine ==
  ASSUME NEW v \in Views, NEW e \in Engines, Fine(v, e), NEW c \in CaptureSet
  PROVE  /\ Reaches(v, Without(v, c), e) /\ Silent(v, Without(v, c)) /\ Without(v, c).stray = v.stray
         /\ \A b \in BOOLEAN : LET w == [Without(v, c) EXCEPT !.capturing = b]
                              IN  Reaches(v, w, e) /\ Silent(v, w) /\ w.stray = v.stray
         /\ Apt(c, v, e) => /\ Reaches(v, With(v, c), e) /\ Silent(v, With(v, c))
                            /\ LET w == With([v EXCEPT !.capturing = TRUE], c)
                               IN  Reaches(v, w, e) /\ Silent(v, w)
<1> DEFINE Like(w) == /\ w \in Views /\ w.outbox = v.outbox /\ w.attached = v.attached /\ w.stray = v.stray
                      /\ w.closed = v.closed /\ w.generation = v.generation /\ w.loaded = v.loaded
                      /\ w.headers = v.headers
<1>1. ASSUME NEW w, Like(w), \A d \in w.captures : d \in v.captures \/ (d = c /\ Apt(c, v, e))
      PROVE  Reaches(v, w, e) /\ Silent(v, w)
  BY <1>1 DEF Reaches, Adds, Fine, Follows, Apt, Sound, Silent
<1>2. Like(Without(v, c)) /\ Without(v, c).captures = v.captures \ {c}
  BY DEF Views, Without
<1>3. ASSUME NEW b \in BOOLEAN
      PROVE  Like([Without(v, c) EXCEPT !.capturing = b]) /\ [Without(v, c) EXCEPT !.capturing = b].captures = v.captures \ {c}
  BY DEF Views, Without
<1>4. Like(With(v, c)) /\ With(v, c).captures = v.captures \cup {c}
  BY DEF Views, With
<1>5. Like(With([v EXCEPT !.capturing = TRUE], c)) /\ With([v EXCEPT !.capturing = TRUE], c).captures = v.captures \cup {c}
  BY DEF Views, With
<1> QED BY <1>1, <1>2, <1>3, <1>4, <1>5

\* What the engine shows, or has been asked for, has an address.
LEMMA Located ==
  ASSUME NEW e \in Engines, Navigated(e)
  PROVE  e.at \in Nat /\ e.response \in Nat /\ Uri(e, e.at) \in Addresses
<1>1. e.at \in 0..Latest(e) /\ e.response \in 0..Latest(e)
  BY DEF Engines, Navigated, Latest
<1> QED BY <1>1 DEF Engines, Latest, Uri, Addresses

\* A capture on Linux: of the navigation under way, with the headers of its own
\* response, either with that response or once the page is loaded.
LEMMA CaptureLinuxFine ==
  ASSUME NEW v \in Views, NEW e \in Engines, Fine(v, e), Navigated(e), platform = "linux",
         NEW document \in BOOLEAN, ~document => e.response = Latest(e)
  PROVE  Reaches(v, CaptureLinux(v, e, document), e)
<1> DEFINE c == Capture(v, e, IF document THEN "script" ELSE "cookies", HeadersLinux(e, Uri(e, e.at)))
<1>1. /\ c.headers \in {0, e.response} /\ c.load = e.at /\ c.generation = v.generation /\ c.document = 0
      /\ c.stage = IF document THEN "script" ELSE "cookies"
  BY DEF Capture, HeadersLinux
<1>2. c \in CaptureSet
  <2>1. Uri(e, e.at) \in Addresses /\ e.at \in Nat /\ e.response \in Nat /\ v.generation \in Nat
    BY Located DEF Engines, Views
  <2> QED BY <2>1 DEF Capture, CaptureSet, HeadersLinux
<1>3. Reaches(v, v, e)
  BY DEF Reaches, Adds
<1>4. Reaches(v, FailLinux(v), e)
  BY FailFine
<1>5. CASE ~v.closed /\ (document => v.loaded) /\ c.headers # 0
  <2>1. Apt(c, v, e)
    <3>1. e.at = Latest(e) /\ c.uri = Uri(e, e.at)
      BY DEF Navigated, Capture
    <3>2. Sound(v) => e.response = Latest(e) /\ (document => e.shown = Latest(e))
      BY <1>5 DEF Fine, Follows, Navigated, Engines, Latest
    <3> QED BY <1>1, <1>2, <1>5, <3>1, <3>2 DEF Apt, Taken, CaptureSet
  <2>2. Reaches(v, With([v EXCEPT !.capturing = TRUE], c), e)
    BY <1>2, <2>1, CapturesFine
  <2> QED BY <1>3, <1>4, <2>2 DEF CaptureLinux
<1>6. CASE v.closed \/ (document /\ ~v.loaded) \/ c.headers = 0
  BY <1>3, <1>4, <1>6 DEF CaptureLinux
<1> QED BY <1>5, <1>6

\* A capture on Windows: of the page that is shown, once it is loaded.
LEMMA CaptureWindowsFine ==
  ASSUME NEW v \in Views, NEW e \in Engines, Fine(v, e), Navigated(e), platform = "windows"
  PROVE  Reaches(v, CaptureWindows(v, e), e) /\ Silent(v, CaptureWindows(v, e))
<1> DEFINE c == Capture(v, e, "script", 0)
<1>1. Reaches(v, v, e) /\ Silent(v, v)
  BY DEF Reaches, Adds, Silent
<1>2. CASE ~v.closed /\ v.loaded
  <2>1. c.load = e.at /\ c.uri = Uri(e, e.at) /\ c.generation = v.generation /\ c.document = 0 /\ c.stage = "script"
    BY DEF Capture
  <2>2. c \in CaptureSet
    BY Located DEF Capture, CaptureSet, Engines, Views
  <2>3. Apt(c, v, e)
    BY <1>2, <2>1, <2>2 DEF Apt, Fine, Follows, Navigated, Taken, Engines, CaptureSet, Latest
  <2> QED BY <1>1, <2>2, <2>3, CapturesFine DEF CaptureWindows
<1>3. CASE v.closed \/ ~v.loaded
  BY <1>1, <1>3 DEF CaptureWindows
<1> QED BY <1>2, <1>3

\* A capture on macOS, when the page is finished or the capture before it is done.
LEMMA CaptureMacFine ==
  ASSUME NEW v \in Views, NEW e \in Engines, Fine(v, e), Navigated(e), platform = "macos",
         ~v.closed /\ Sound(v) => e.shown = Latest(e)
  PROVE  Reaches(v, CaptureMac(v, e), e) /\ Silent(v, CaptureMac(v, e))
<1> DEFINE c == Capture(v, e, "script", 0)
<1>1. Reaches(v, v, e) /\ Silent(v, v)
  BY DEF Reaches, Adds, Silent
<1>2. CASE ~v.closed
  <2>1. c.load = e.at /\ c.uri = Uri(e, e.at) /\ c.generation = v.generation /\ c.document = 0 /\ c.stage = "script"
    BY DEF Capture
  <2>2. c \in CaptureSet
    BY Located DEF Capture, CaptureSet, Engines, Views
  <2>3. Apt(c, v, e)
    BY <1>2, <2>1, <2>2 DEF Apt, Fine, Follows, Navigated, Taken, Engines, CaptureSet, Latest
  <2> QED BY <1>1, <2>2, <2>3, CapturesFine DEF CaptureMac
<1>3. CASE v.closed
  BY <1>1, <1>3 DEF CaptureMac, CurrentMac
<1> QED BY <1>2, <1>3

\* A capture that is out of date goes, and on Windows the next one may start.
LEMMA DroppedFine ==
  ASSUME NEW v \in Views, NEW e \in Engines, Fine(v, e), Navigated(e), NEW c \in CaptureSet
  PROVE  /\ Reaches(v, Dropped(v, e, c), e)
         /\ Reaches(v, DroppedLinux(v, c), e) /\ Silent(v, DroppedLinux(v, c)) /\ DroppedLinux(v, c).stray = v.stray
<1>1. Reaches(v, DroppedLinux(v, c), e) /\ Silent(v, DroppedLinux(v, c)) /\ DroppedLinux(v, c).stray = v.stray
  <2>1. Without(v, c).capturing \in BOOLEAN
    BY CapturesFine DEF Reaches, Views
  <2>2. (Without(v, c).capturing /\ v.generation # c.generation) \in BOOLEAN
    OBVIOUS
  <2>3. PICK b \in BOOLEAN : b = (Without(v, c).capturing /\ v.generation # c.generation)
    BY <2>2
  <2>4. DroppedLinux(v, c) = [Without(v, c) EXCEPT !.capturing = b]
    BY <2>3 DEF DroppedLinux
  <2>5. LET w == [Without(v, c) EXCEPT !.capturing = b] IN Reaches(v, w, e) /\ Silent(v, w) /\ w.stray = v.stray
    BY CapturesFine
  <2> QED BY <2>4, <2>5
<1>2. ASSUME platform = "windows" PROVE Reaches(v, DroppedWindows(v, e, c), e)
  <2> DEFINE w == [Without(v, c) EXCEPT !.capturing = FALSE]
  <2>1. w \in Views /\ Fine(w, e) /\ Silent(v, w) /\ w.stray = v.stray
    BY CapturesFine DEF Reaches
  <2>2. Reaches(w, CaptureWindows(w, e), e)
    BY <1>2, <2>1, CaptureWindowsFine
  <2> QED BY <2>1, <2>2, Joined DEF DroppedWindows
<1>3. Reaches(v, Without(v, c), e)
  BY CapturesFine
<1> QED BY <1>1, <1>2, <1>3 DEF Dropped

\* The script's answer: the capture goes on with the document the script ran in.
LEMMA DocumentDoneFine ==
  ASSUME NEW v \in Views, NEW e \in Engines, Fine(v, e), Navigated(e),
         NEW c \in v.captures, c.stage = "ran"
  PROVE  Reaches(v, DocumentDone(v, e, c), e)
<1>1. c \in CaptureSet /\ (~v.closed => Apt(c, v, e))
  BY DEF Views, Fine
<1>2. Reaches(v, Dropped(v, e, c), e)
  BY <1>1, DroppedFine
<1> DEFINE w == Without(v, c)
           d == [c EXCEPT !.stage = "cookies"]
<1>3. w \in Views /\ Fine(w, e) /\ Silent(v, w) /\ w.stray = v.stray
  BY <1>1, CapturesFine DEF Reaches
<1>4. w.closed = v.closed /\ w.generation = v.generation
  BY DEF Views, Without
<1>5. Reaches(w, FailMac(w), e)
  BY <1>3, FailFine
<1>6. ASSUME Current(v, e, c) PROVE Reaches(w, With(w, d), e)
  <2>1. ~v.closed
    BY <1>6 DEF Current, CurrentLinux, CurrentMac
  <2>2. d \in CaptureSet /\ Apt(d, w, e)
    BY <1>1, <1>3, <1>4, <2>1 DEF CaptureSet, Apt, Taken, Sound
  <2> QED BY <1>3, <2>2, CapturesFine
<1> HIDE DEF w, d
<1>7. Reaches(v, FailMac(w), e) /\ (Current(v, e, c) => Reaches(v, With(w, d), e))
  BY <1>3, <1>5, <1>6, Joined
<1> QED BY <1>2, <1>7 DEF DocumentDone, w, d

\* An answer that is still current is of the last navigation, and so is what it
\* answers, unless a late report has passed the adapter: the page is whole.
LEMMA CurrentWhole ==
  ASSUME NEW v \in Views, NEW e \in Engines, Fine(v, e), Navigated(e),
         NEW c \in v.captures, c.stage = "cookies", Current(v, e, c)
  PROVE  /\ ~v.closed /\ (platform # "linux" /\ Sound(v) => e.shown = Latest(e))
         /\ PageLinux(v, e, c) \in Messages /\ (platform = "linux" => WholePage(PageLinux(v, e, c)))
         /\ PageWindows(v, e, c) \in Messages /\ (platform = "windows" => WholePage(PageWindows(v, e, c)))
         /\ PageMac(v, e, c) \in Messages /\ WholePage(PageMac(v, e, c))
<1>1. ~v.closed /\ v.generation = c.generation /\ c.uri = "vpn"
  BY DEF Current, CurrentLinux, CurrentMac
<1>2. c \in CaptureSet /\ Apt(c, v, e) /\ Follows(v, e) /\ v.headers \in Nat /\ v.stray \in SUBSET Lates
  BY <1>1 DEF Views, Fine
<1>3. c.load \in Nat /\ c.document \in Nat /\ c.headers \in Nat /\ c.uri \in Addresses
  BY <1>2 DEF CaptureSet
<1>4. Sound(v) => /\ c.load = Latest(e) /\ c.document \in {0, c.load} /\ c.uri = Uri(e, Latest(e))
                  /\ IF platform = "linux" THEN c.headers = c.load ELSE e.shown = Latest(e)
  BY <1>1, <1>2, <1>3 DEF Apt, Taken
<1>5. Sound(v) => \/ v.headers \in {0, Latest(e)}
                  \/ platform \notin {"linux", "windows"} /\ Uri(e, v.headers) # c.uri
  BY <1>2, <1>4 DEF Follows
<1> DEFINE p == PageLinux(v, e, c)
<1>6. p = [kind |-> "Page", uri |-> c.uri, headers |-> c.headers, document |-> c.document, stray |-> v.stray]
  BY DEF PageLinux
<1>7. ASSUME NEW h \in Nat, Sound(v) => h = 0 \/ h = Latest(e)
      PROVE  [p EXCEPT !.headers = h] \in Messages /\ WholePage([p EXCEPT !.headers = h])
  <2>1. [p EXCEPT !.headers = h] = [kind |-> "Page", uri |-> c.uri, headers |-> h, document |-> c.document, stray |-> v.stray]
    BY <1>6
  <2>2. [p EXCEPT !.headers = h] \in Messages
    BY <1>2, <1>3, <2>1 DEF Messages, PageSet
  <2>3. WholePage([p EXCEPT !.headers = h])
    BY <1>1, <1>4, <1>7, <2>1 DEF WholePage, Sound
  <2> QED BY <2>2, <2>3
<1>8. ASSUME NEW h \in Nat PROVE [p EXCEPT !.headers = h] \in Messages
  BY <1>2, <1>3, <1>6 DEF Messages, PageSet
<1>9. p \in Messages /\ (platform = "linux" => WholePage(p))
  <2>1. p \in Messages
    BY <1>2, <1>3, <1>6 DEF Messages, PageSet
  <2>2. platform = "linux" => WholePage(p)
    BY <1>1, <1>4, <1>6 DEF WholePage, Sound
  <2> QED BY <2>1, <2>2
<1>10. PageWindows(v, e, c) \in Messages /\ (platform = "windows" => WholePage(PageWindows(v, e, c)))
  BY <1>2, <1>5, <1>7, <1>8 DEF PageWindows
<1>11. PageMac(v, e, c) \in Messages /\ WholePage(PageMac(v, e, c))
  <2>1. PICK h \in Nat : h = IF Uri(e, v.headers) = c.uri THEN v.headers ELSE 0
    BY <1>2
  <2>2. PageMac(v, e, c) = [p EXCEPT !.headers = h]
    BY <2>1 DEF PageMac
  <2>3. Sound(v) => h = 0 \/ h = Latest(e)
    BY <1>5, <2>1
  <2> QED BY <1>7, <2>1, <2>2, <2>3
<1> QED BY <1>1, <1>4, <1>9, <1>10, <1>11

\* The cookies' answer: the page is sent, if it is still of the navigation under way.
LEMMA CookiesDoneFine ==
  ASSUME NEW v \in Views, NEW e \in Engines, Fine(v, e), Navigated(e), platform \in Platforms,
         NEW c \in v.captures, c.stage = "cookies"
  PROVE  Reaches(v, CookiesDone(v, e, c), e)
<1>1. c \in CaptureSet
  BY DEF Views
<1>2. CASE ~Current(v, e, c)
  BY <1>1, <1>2, DroppedFine DEF CookiesDone
<1>3. CASE Current(v, e, c)
  <2>1. /\ ~v.closed /\ (platform # "linux" /\ Sound(v) => e.shown = Latest(e))
        /\ PageLinux(v, e, c) \in Messages /\ (platform = "linux" => WholePage(PageLinux(v, e, c)))
        /\ PageWindows(v, e, c) \in Messages /\ (platform = "windows" => WholePage(PageWindows(v, e, c)))
        /\ PageMac(v, e, c) \in Messages /\ WholePage(PageMac(v, e, c))
    BY <1>3, CurrentWhole
  <2>2. PageLinux(v, e, c).kind = "Page" /\ PageWindows(v, e, c).kind = "Page" /\ PageMac(v, e, c).kind = "Page"
    BY DEF PageLinux, PageWindows, PageMac
  <2>3. CASE platform = "linux"
    <3> DEFINE w == DroppedLinux(v, c)
    <3>1. w \in Views /\ Fine(w, e) /\ Silent(v, w) /\ w.stray = v.stray
      BY <1>1, DroppedFine DEF Reaches
    <3> HIDE DEF w
    <3>2. Reaches(w, Send(w, PageLinux(v, e, c)), e)
      BY <2>1, <2>2, <2>3, <3>1, SendFine
    <3>3. CookiesDone(v, e, c) = Send(w, PageLinux(v, e, c))
      BY <1>3, <2>3 DEF CookiesDone, CookiesDoneLinux, w
    <3> QED BY <3>1, <3>2, <3>3, Joined
  <2>4. CASE platform = "windows"
    <3> DEFINE u == Without(v, c)
               w == [u EXCEPT !.capturing = FALSE, !.headers = 0]
    <3>1. u \in Views /\ Fine(u, e) /\ Silent(v, u) /\ u.stray = v.stray
      BY <1>1, CapturesFine DEF Reaches
    <3>2. w \in Views /\ Fine(w, e) /\ Silent(v, w) /\ w.stray = v.stray
      <4> HIDE DEF u
      <4> QED BY <3>1 DEF Views, Fine, Follows, Apt, Sound, Silent
    <3> HIDE DEF u, w
    <3>3. Reaches(w, Send(w, PageWindows(v, e, c)), e)
      BY <2>1, <2>2, <2>4, <3>2, SendFine
    <3>4. CookiesDone(v, e, c) = Send(w, PageWindows(v, e, c))
      BY <1>3, <2>4 DEF CookiesDone, CookiesDoneWindows, u, w
    <3> QED BY <3>2, <3>3, <3>4, Joined
  <2>5. CASE platform \notin {"linux", "windows"}
    <3>1. platform = "macos"
      BY <2>5, AuthWindowAssumption
    <3> DEFINE w == Without(v, c)
               z == Send(w, PageMac(v, e, c))
    <3>2. w \in Views /\ Fine(w, e) /\ Silent(v, w) /\ w.stray = v.stray
      BY <1>1, CapturesFine DEF Reaches
    <3> HIDE DEF w
    <3>3. Reaches(w, z, e)
      BY <2>1, <2>2, <3>2, SendFine
    <3>4. z \in Views /\ Fine(z, e) /\ (~z.closed /\ Sound(z) => e.shown = Latest(e))
      BY <2>1, <3>1, <3>2, <3>3 DEF Reaches, Sound
    <3> HIDE DEF z
    <3>5. Reaches(z, CaptureMac(z, e), e) /\ Silent(z, CaptureMac(z, e))
      BY <3>1, <3>4, CaptureMacFine
    <3>6. CookiesDone(v, e, c) = CaptureMac(z, e)
      BY <1>3, <3>1 DEF CookiesDone, CookiesDoneMac, w, z
    <3> QED BY <3>2, <3>3, <3>5, <3>6 DEF Reaches, Adds, Silent, Sound
  <2> QED BY <2>3, <2>4, <2>5
<1> QED BY <1>2, <1>3

\* A certificate question: asked, or one too many.
LEMMA ChallengeFine ==
  ASSUME NEW v \in Views, NEW e \in Engines, Fine(v, e), NEW q \in Questions
  PROVE  /\ Reaches(v, ChallengeLinux(v, q), e) /\ Reaches(v, ChallengeMac(v, q), e)
         /\ Reaches(v, ChallengeWindows(v, q), e)
<1>1. /\ Message("Certificate", q.id) \in Messages /\ WholePage(Message("Certificate", q.id))
      /\ Message("Certificate", q.id).kind = "Certificate"
  BY DEF Message, Messages, Texts, WholePage, Questions
<1>2. Reaches(v, FailLinux(v), e) /\ Reaches(v, FailWindows(v), e) /\ Reaches(v, FailMac(v), e)
  BY FailFine
<1>3. ASSUME NEW open \in SUBSET Questions
      PROVE  Reaches(v, Send([v EXCEPT !.pending = open], Message("Certificate", q.id)), e)
  <2> DEFINE w == [v EXCEPT !.pending = open]
  <2>1. w \in Views /\ Fine(w, e) /\ Silent(v, w) /\ w.stray = v.stray
    BY DEF Views, Fine, Follows, Apt, Sound, Silent
  <2> HIDE DEF w
  <2>2. Reaches(w, Send(w, Message("Certificate", q.id)), e)
    BY <1>1, <2>1, SendFine
  <2>3. Reaches(v, Send(w, Message("Certificate", q.id)), e)
    BY <2>1, <2>2, Joined
  <2> QED BY <2>3 DEF w
<1>4. {q} \in SUBSET Questions /\ v.pending \cup {q} \in SUBSET Questions
  BY DEF Views
<1>5. Reaches(v, Send([v EXCEPT !.pending = {q}], Message("Certificate", q.id)), e)
  BY <1>3, <1>4
<1>6. Reaches(v, Send([v EXCEPT !.pending = v.pending \cup {q}], Message("Certificate", q.id)), e)
  BY <1>3, <1>4
<1> QED BY <1>2, <1>5, <1>6 DEF ChallengeLinux, ChallengeMac, ChallengeWindows

\* A decision closes its question; a refusal on Linux ends the window.
LEMMA DecideFine ==
  ASSUME NEW v \in Views, NEW e \in Engines, Fine(v, e), NEW id \in Nat, NEW accept \in BOOLEAN
  PROVE  Reaches(v, Decide(v, id, accept), e)
<1>1. ASSUME NEW open \in SUBSET Questions
      PROVE  LET w == [v EXCEPT !.pending = open] IN Reaches(v, w, e) /\ Silent(v, w) /\ w.stray = v.stray
  BY DEF Views, Fine, Follows, Apt, Sound, Silent, Reaches, Adds
<1>2. v.pending \ Decided(v, id) \in SUBSET Questions /\ {q \in v.pending : q.id # id} \in SUBSET Questions
  BY DEF Views
<1> DEFINE w == [v EXCEPT !.pending = v.pending \ Decided(v, id)]
<1>3. w \in Views /\ Fine(w, e) /\ Reaches(v, w, e) /\ Silent(v, w) /\ w.stray = v.stray
  BY <1>1, <1>2 DEF Reaches
<1>4. Reaches(w, FailLinux(w), e)
  BY <1>3, FailFine
<1>5. DecideLinux(v, id, accept) \in {w, FailLinux(w)}
  BY DEF DecideLinux
<1> HIDE DEF w
<1>6. Reaches(v, DecideLinux(v, id, accept), e)
  BY <1>3, <1>4, <1>5, Joined
<1>7. Reaches(v, DecideMac(v, id), e) /\ Reaches(v, DecideWindows(v, id), e)
  BY <1>1, <1>2 DEF DecideMac, DecideWindows
<1> QED BY <1>6, <1>7 DEF Decide

----------------------------------------------------------------------------
(* The invariant: the web engine and the callbacks                         *)

\* A view that has not been attached, with an engine that has shown nothing.
LEMMA NewFine ==
  /\ NewView \in Views /\ NewEngine \in Engines /\ Navigated(NewEngine) /\ Fine(NewView, NewEngine)
  /\ ~NewView.attached /\ Bare(NewView, NewEngine)
<1>1. NewEngine.loads = <<>> /\ NewEngine.shown = 0 /\ NewEngine.response = 0 /\ NewEngine.at = 0 /\ Latest(NewEngine) = 0
      /\ NewEngine.responded = {} /\ NewEngine.committed = {}
  BY DEF NewEngine, Latest
<1>2. NewEngine \in Engines
  <2>1. <<>> \in Seq(Sites) /\ 0 \in Nat
    OBVIOUS
  <2> QED BY <2>1 DEF NewEngine, Engines
<1>3. NewView \in Views
  <2>1. <<>> \in Seq(Messages)
    OBVIOUS
  <2> QED BY <2>1 DEF NewView, Views
<1>4. Outgoing(NewView.outbox)
  BY DEF NewView, Outgoing
<1>5. Follows(NewView, NewEngine)
  BY <1>1 DEF NewView, Follows
<1>6. NewView.captures = {}
  BY DEF NewView
<1>7. ~NewView.attached /\ Bare(NewView, NewEngine)
  BY DEF NewView, Bare
<1> QED BY <1>1, <1>2, <1>3, <1>4, <1>5, <1>6, <1>7 DEF Navigated, Fine

\* A view that has failed is forgotten but for its messages, and its engine with it.
LEMMA Followed ==
  ASSUME NEW w \in Views, NEW e \in Engines, Engine(w, e), Navigated(e), Fine(w, e), Bare(w, e)
  PROVE  /\ view' \in Views /\ engine' \in Engines /\ Silent(w, view')
         /\ Navigated(engine') /\ Fine(view', engine') /\ Bare(view', engine')
<1>1. CASE w.closed
  <2>1. view' = [w EXCEPT !.captures = {}, !.stray = {}] /\ engine' = NewEngine
    BY <1>1 DEF Engine
  <2>2. /\ view' \in Views /\ view'.closed /\ view'.outbox = w.outbox /\ view'.attached = w.attached
        /\ view'.captures = {} /\ view'.pending = w.pending /\ view'.loaded = w.loaded
    BY <1>1, <2>1 DEF Views
  <2>3. Fine(view', engine') /\ Bare(view', engine')
    BY <2>1, <2>2 DEF Fine, Bare
  <2> QED BY <2>1, <2>2, <2>3, NewFine DEF Silent
<1>2. CASE ~w.closed
  BY <1>2 DEF Engine, Silent
<1> QED BY <1>1, <1>2

\* The process and its connection are as they were; the view may have said more.
Moved == WInv' /\ Adds(view, view') /\ UNCHANGED engineOthers

\* A running window whose view and engine move on, as they may, keeps the invariant.
LEMMA Moves ==
  ASSUME WInv, Running, NEW w \in Views, NEW e \in Engines, Engine(w, e), Navigated(e), Fine(w, e), Adds(view, w),
         view.attached \/ Bare(w, e), UNCHANGED engineOthers, challenges' \in Nat, UNCHANGED granted
  PROVE  Moved
<1>1. Bare(w, e)
  BY DEF Bare, Adds
<1>2. /\ view' \in Views /\ engine' \in Engines /\ Silent(w, view')
      /\ Navigated(engine') /\ Fine(view', engine') /\ Bare(view', engine')
  BY <1>1, Followed
<1>3. Types' /\ Blank' /\ Decisions'
  BY <1>2 DEF WInv, Types, Blank, Decisions, Ordered, engineOthers, Running
<1>4. platform' = platform /\ Incoming(wire')
  BY DEF WInv, engineOthers
<1>5. Adds(view, view')
  BY <1>2 DEF Adds, Silent
<1> QED BY <1>2, <1>3, <1>4, <1>5, Carried DEF WInv, Moved

\* A window that has been navigated was attached.
LEMMA Navigable == ASSUME WInv PROVE engine # NewEngine \/ view.captures # {} => view.attached
BY DEF WInv, Bare

\* A late report is remembered: less is promised of the window.
LEMMA StrayFine ==
  ASSUME NEW v \in Views, NEW e \in Engines, Fine(v, e), NEW kind \in Lates
  PROVE  LET w == Stray(v, kind)
         IN  w \in Views /\ Fine(w, e) /\ Silent(v, w) /\ v.stray \subseteq w.stray /\ kind \in w.stray /\ Reaches(v, w, e)
BY DEF Stray, Views, Fine, Follows, Apt, Sound, Silent, Reaches, Adds

\* The window follows the engine by its navigations and by what it shows.
LEMMA SameEngine ==
  ASSUME NEW v \in Views, NEW e \in Engines, NEW d \in Engines, Fine(v, e), d.loads = e.loads, d.shown = e.shown
  PROVE  Fine(v, d)
BY DEF Fine, Follows, Apt, Taken, Latest, Uri

\* The headers of the last navigation are kept, on macOS those of another address too.
LEMMA HeadersFine ==
  ASSUME NEW v \in Views, NEW e \in Engines, Fine(v, e), platform # "linux", NEW load \in Nat,
         Sound(v) => load = Latest(e) \/ (platform \notin {"linux", "windows"} /\ Uri(e, load) # Uri(e, Latest(e)))
  PROVE  LET w == [v EXCEPT !.headers = load]
         IN  w \in Views /\ Fine(w, e) /\ Silent(v, w) /\ w.stray = v.stray /\ Reaches(v, w, e)
BY DEF Views, Fine, Follows, Apt, Sound, Silent, Reaches, Adds

\* A page is loaded, as far as the adapter can tell.
LEMMA LoadedFine ==
  ASSUME NEW v \in Views, NEW e \in Engines, Fine(v, e), platform \in {"linux", "windows"}, NEW b \in BOOLEAN,
         Sound(v) => e.shown = Latest(e)
  PROVE  LET w == [v EXCEPT !.loaded = b] IN w \in Views /\ Fine(w, e) /\ Silent(v, w) /\ w.stray = v.stray
BY DEF Views, Fine, Follows, Apt, Sound, Silent

\* The end of a navigation on Linux, whatever it is the end of.
LEMMA FinishLinuxFine ==
  ASSUME NEW v \in Views, NEW e \in Engines, Fine(v, e), Navigated(e), platform = "linux", Sound(v) => e.shown = Latest(e)
  PROVE  Reaches(v, FinishLinux(v, e), e)
<1>1. PICK b \in BOOLEAN : b = (v.loaded \/ v.pending = {})
  BY DEF Views
<1> DEFINE w == [v EXCEPT !.loaded = b]
<1>2. w \in Views /\ Fine(w, e) /\ Silent(v, w) /\ w.stray = v.stray
  BY LoadedFine
<1>3. FinishLinux(v, e) = CaptureLinux(w, e, TRUE)
  BY <1>1 DEF FinishLinux
<1> HIDE DEF w
<1>4. Reaches(w, CaptureLinux(w, e, TRUE), e)
  BY <1>2, CaptureLinuxFine
<1> QED BY <1>2, <1>3, <1>4, Joined

\* The end of a navigation on Windows.
LEMMA FinishWindowsFine ==
  ASSUME NEW v \in Views, NEW e \in Engines, Fine(v, e), Navigated(e), platform = "windows", NEW load,
         load = Latest(e) => e.shown = Latest(e)
  PROVE  Reaches(v, FinishWindows(v, e, load), e)
<1>1. CASE load = Latest(e)
  <2> DEFINE w == [v EXCEPT !.loaded = TRUE]
  <2>1. w \in Views /\ Fine(w, e) /\ Silent(v, w) /\ w.stray = v.stray
    BY <1>1, LoadedFine
  <2>2. FinishWindows(v, e, load) = CaptureWindows(w, e)
    BY <1>1 DEF FinishWindows
  <2> HIDE DEF w
  <2>3. Reaches(w, CaptureWindows(w, e), e)
    BY <2>1, CaptureWindowsFine
  <2> QED BY <2>1, <2>2, <2>3, Joined
<1>2. CASE load # Latest(e)
  BY <1>2 DEF FinishWindows, Reaches, Adds
<1> QED BY <1>1, <1>2

\* A new navigation: what was captured is of an earlier one.
LEMMA StartsKeeps == WInv /\ Starts => Moved
<1> SUFFICES ASSUME WInv, Starts PROVE Moved
  OBVIOUS
<1> DEFINE Started == CASE platform = "linux" -> StartLinux(view)
                        [] platform = "windows" -> StartWindows(view)
                        [] OTHER -> StartMac(view)
           Led(site) == [engine EXCEPT !.loads = Append(engine.loads, site), !.reload = FALSE]
<1>1. PICK site \in Sites : \E at \in MovesTo(Led(site)) : Engine(Started, [Led(site) EXCEPT !.at = at])
  BY DEF Starts
<1>2. PICK at \in MovesTo(Led(site)) : Engine(Started, [Led(site) EXCEPT !.at = at])
  BY <1>1
<1>3. /\ view \in Views /\ engine \in Engines /\ ~view.closed /\ view.attached /\ Fine(view, engine) /\ Navigated(engine)
      /\ Running /\ UNCHANGED <<engineOthers, challenges, granted>> /\ challenges \in Nat
  BY DEF Starts, WInv, Types
<1>4. PICK loads \in Seq(Sites) : loads = Append(engine.loads, site) /\ Len(loads) = Len(engine.loads) + 1
  <2>1. engine.loads \in Seq(Sites)
    BY <1>3 DEF Engines
  <2> QED BY <2>1, Appended
<1>5. PICK n \in Nat : n = Len(engine.loads)
  BY <1>3 DEF Engines
<1> DEFINE e == [Led(site) EXCEPT !.at = at]
<1>6. /\ Led(site) = [engine EXCEPT !.loads = loads, !.reload = FALSE] /\ Latest(Led(site)) = n + 1 /\ Led(site).at = engine.at
      /\ engine.at \in Nat /\ n + 1 \in Nat
  BY <1>3, <1>4, <1>5 DEF Engines, Latest
<1>7. at \in {engine.at, n + 1} /\ (platform = "windows" => at = engine.at) /\ (platform = "linux" => at = n + 1)
  <2> HIDE DEF Led
  <2> QED BY <1>2, <1>6 DEF MovesTo
<1>8. e = [engine EXCEPT !.loads = loads, !.reload = FALSE, !.at = at]
  BY <1>6
<1> HIDE DEF Led, e
<1>9. e \in Engines /\ Latest(e) = n + 1 /\ Navigated(e)
  <2>1. e \in Engines
    BY <1>3, <1>6, <1>7, <1>8 DEF Engines
  <2>2. /\ e.shown = engine.shown /\ e.response = engine.response /\ e.loads = loads /\ e.at = at
        /\ e.responded = engine.responded /\ e.committed = engine.committed
        /\ engine.shown \in Nat /\ engine.response \in Nat
        /\ engine.responded \in SUBSET Nat /\ engine.committed \in SUBSET Nat
    BY <1>3, <1>8 DEF Engines
  <2>3. Latest(e) = n + 1 /\ Latest(engine) = n
    BY <1>4, <1>5, <2>2 DEF Latest
  <2> QED BY <1>3, <1>5, <1>6, <1>7, <2>1, <2>2, <2>3 DEF Navigated
<1>10. view.generation = n
  BY <1>3, <1>5 DEF Fine, Follows, Latest
<1>11. PICK m \in Nat : m = view.generation + 1
  BY <1>5, <1>10
<1>12. ASSUME NEW w \in Views, w.generation = m, ~w.loaded, w.headers = 0, w.attached = view.attached,
              w.captures = view.captures, w.outbox = view.outbox
       PROVE  Fine(w, e) /\ Adds(view, w)
  <2>1. Follows(w, e)
    BY <1>9, <1>10, <1>11, <1>12 DEF Follows
  <2>2. ASSUME NEW c \in w.captures PROVE Apt(c, w, e)
    <3>1. c \in CaptureSet /\ c.generation <= view.generation
      BY <1>3, <1>12 DEF Views, Fine, Apt
    <3>2. c.generation \in Nat
      BY <3>1 DEF CaptureSet
    <3> QED BY <1>5, <1>10, <1>11, <1>12, <3>1, <3>2 DEF Apt
  <2> QED BY <1>3, <1>12, <2>1, <2>2 DEF Fine, Adds
<1>13. Started \in Views /\ Fine(Started, e) /\ Adds(view, Started)
  <2>1. CASE platform = "linux"
    <3>1. Started = [view EXCEPT !.generation = m, !.loaded = FALSE, !.capturing = FALSE, !.pending = {}, !.stray = {}]
      BY <1>11, <2>1 DEF StartLinux
    <3>2. view.headers = 0
      BY <1>3, <2>1 DEF Fine, Follows
    <3> HIDE DEF Started
    <3>3. /\ Started \in Views /\ Started.generation = m /\ ~Started.loaded /\ Started.headers = 0
          /\ Started.attached = view.attached /\ Started.captures = view.captures /\ Started.outbox = view.outbox
      BY <1>3, <1>11, <3>1, <3>2 DEF Views
    <3> QED BY <1>12, <3>3
  <2>2. CASE platform = "windows"
    <3>1. Started = [view EXCEPT !.generation = m, !.loaded = FALSE, !.headers = 0, !.pending = {}, !.stray = {}]
      BY <1>11, <2>2 DEF StartWindows
    <3> HIDE DEF Started
    <3>2. /\ Started \in Views /\ Started.generation = m /\ ~Started.loaded /\ Started.headers = 0
          /\ Started.attached = view.attached /\ Started.captures = view.captures /\ Started.outbox = view.outbox
      BY <1>3, <1>11, <3>1 DEF Views
    <3> QED BY <1>12, <3>2
  <2>3. CASE platform \notin {"linux", "windows"}
    <3>1. Started = [view EXCEPT !.generation = m, !.headers = 0, !.pending = {}, !.stray = {}]
      BY <1>11, <2>3 DEF StartMac
    <3>2. ~view.loaded
      BY <1>3, <2>3 DEF Fine, Follows
    <3> HIDE DEF Started
    <3>3. /\ Started \in Views /\ Started.generation = m /\ ~Started.loaded /\ Started.headers = 0
          /\ Started.attached = view.attached /\ Started.captures = view.captures /\ Started.outbox = view.outbox
      BY <1>3, <1>11, <3>1, <3>2 DEF Views
    <3> QED BY <1>12, <3>3
  <2> QED BY <2>1, <2>2, <2>3
<1>14. Engine(Started, e)
  BY <1>2 DEF e
<1> HIDE DEF Started
<1> QED BY <1>3, <1>9, <1>13, <1>14, Moves

\* The response of a navigation, of the last one or of an earlier one.
LEMMA RespondsKeeps == WInv /\ Responds => Moved
<1> SUFFICES ASSUME WInv, Responds PROVE Moved
  OBVIOUS
<1> DEFINE Told(load) == [engine EXCEPT !.responded = engine.responded \cup {load},
                                        !.response = IF engine.response < load THEN load ELSE engine.response]
           Late(load) == load # Latest(Told(load)) /\ Uri(Told(load), load) = Uri(Told(load), Latest(Told(load)))
           Seen(load) == IF Late(load) THEN Stray(view, "response") ELSE view
           Heard(v, e, load) == CASE platform = "linux" -> RespondLinux(v, e, load)
                                  [] platform = "windows" -> RespondWindows(v, e, load)
                                  [] OTHER -> RespondMac(v, e, load)
<1>1. PICK load \in DOMAIN engine.loads : Engine(Heard(Seen(load), Told(load), load), Told(load))
  BY DEF Responds
<1>2. /\ view \in Views /\ engine \in Engines /\ Fine(view, engine) /\ Navigated(engine)
      /\ Running /\ UNCHANGED <<engineOthers, challenges, granted>> /\ challenges \in Nat
  BY DEF Responds, Ongoing, WInv, Types
<1>3. load \in 1..Latest(engine) /\ Latest(engine) \in Nat
  BY <1>1, <1>2 DEF Engines, Latest
<1>4. view.attached
  <2>1. engine.loads # <<>>
    BY <1>1
  <2> QED BY <2>1, Navigable DEF NewEngine
<1> DEFINE e == Told(load)
<1>5. /\ e \in Engines /\ e.loads = engine.loads /\ e.shown = engine.shown /\ Latest(e) = Latest(engine)
      /\ e.response = (IF engine.response < load THEN load ELSE engine.response)
      /\ e.responded = engine.responded \cup {load} /\ e.committed = engine.committed /\ e.at = engine.at
  <2>1. PICK r \in Nat : r = IF engine.response < load THEN load ELSE engine.response
    BY <1>2, <1>3 DEF Engines
  <2>2. PICK seen \in SUBSET Nat : seen = engine.responded \cup {load}
    <3>1. engine.responded \in SUBSET Nat /\ load \in Nat
      BY <1>2, <1>3 DEF Engines
    <3>2. engine.responded \cup {load} \in SUBSET Nat
      BY <3>1
    <3> HIDE DEF Told, Late, Seen, Heard, e
    <3> QED BY <3>2, Zenon
  <2>3. e = [engine EXCEPT !.responded = seen, !.response = r]
    BY <2>1, <2>2
  <2> HIDE DEF e
  <2>4. e \in Engines /\ e.loads = engine.loads
    BY <1>2, <2>3 DEF Engines
  <2> QED BY <1>2, <2>1, <2>2, <2>3, <2>4 DEF Engines, Latest
<1>6. Navigated(e) /\ (load = Latest(e) => e.response = Latest(e))
  <2>1. engine.response \in Nat /\ engine.shown \in Nat /\ engine.responded \in SUBSET Nat
    BY <1>2 DEF Engines
  <2> HIDE DEF e
  <2> QED BY <1>2, <1>3, <1>5, <2>1 DEF Navigated
<1>7. Fine(view, e)
  <2> HIDE DEF e
  <2> QED BY <1>2, <1>5, SameEngine
<1> DEFINE v == Seen(load)
<1>8. v \in Views /\ Fine(v, e) /\ Silent(view, v) /\ view.stray \subseteq v.stray
  <2>1. view \in Views /\ Silent(view, view)
    BY <1>2 DEF Silent
  <2> HIDE DEF Told, Late
  <2> QED BY <1>5, <1>7, <2>1, StrayFine DEF Lates
<1>9. load # Latest(e) /\ Uri(e, load) = Uri(e, Latest(e)) => "response" \in v.stray
  <2> HIDE DEF Told
  <2> QED BY <1>5, <1>7, <1>2, StrayFine DEF Lates
<1>10. Engine(Heard(v, e, load), e)
  BY <1>1
<1> HIDE DEF Told, Late, Seen, e, v
<1>11. Reaches(v, v, e)
  BY <1>8 DEF Reaches, Adds
<1>12. Reaches(v, Heard(v, e, load), e)
  <2>1. CASE platform = "linux"
    <3>1. Heard(v, e, load) = RespondLinux(v, e, load)
      BY <2>1
    <3> QED BY <1>5, <1>6, <1>8, <1>11, <2>1, <3>1, CaptureLinuxFine DEF RespondLinux
  <2>2. CASE platform = "windows"
    <3>1. Heard(v, e, load) = RespondWindows(v, e, load)
      BY <2>2
    <3> HIDE DEF Heard
    <3>2. CASE Expected(e, load) /\ Expected(e, Latest(e))
      <4> DEFINE w == [v EXCEPT !.headers = load]
      <4>1. Sound(v) => load = Latest(e)
        BY <1>9, <2>2, <3>2 DEF Expected, Sound, KeptOut
      <4>2. w \in Views /\ Fine(w, e) /\ Silent(v, w) /\ w.stray = v.stray
        BY <1>3, <1>5, <1>8, <2>2, <4>1, HeadersFine
      <4>3. RespondWindows(v, e, load) = CaptureWindows(w, e)
        BY <3>2 DEF RespondWindows
      <4> HIDE DEF w
      <4>4. Reaches(w, CaptureWindows(w, e), e)
        BY <1>5, <1>6, <2>2, <4>2, CaptureWindowsFine
      <4> QED BY <1>8, <3>1, <4>2, <4>3, <4>4, Joined
    <3>3. CASE ~(Expected(e, load) /\ Expected(e, Latest(e)))
      BY <1>11, <3>1, <3>3 DEF RespondWindows
    <3> QED BY <3>2, <3>3
  <2>3. CASE platform \notin {"linux", "windows"}
    <3>1. Heard(v, e, load) = RespondMac(v, e, load)
      BY <2>3
    <3> HIDE DEF Heard
    <3>2. Sound(v) => load = Latest(e) \/ Uri(e, load) # Uri(e, Latest(e))
      BY <1>9, <2>3 DEF Sound, KeptOut
    <3>3. Reaches(v, [v EXCEPT !.headers = load], e)
      BY <1>3, <1>5, <1>8, <2>3, <3>2, HeadersFine
    <3> QED BY <1>11, <3>1, <3>3 DEF RespondMac
  <2> QED BY <2>1, <2>2, <2>3
<1> DEFINE x == Heard(v, e, load)
<1> HIDE DEF Heard
<1>13. Reaches(view, x, e)
  BY <1>2, <1>8, <1>12, Joined
<1> HIDE DEF x
<1> QED BY <1>2, <1>4, <1>5, <1>6, <1>10, <1>13, Moves DEF Reaches, x

\* The page is shown, or that of an earlier navigation.
LEMMA CommitsKeeps == WInv /\ Commits => Moved
<1> SUFFICES ASSUME WInv, Commits PROVE Moved
  OBVIOUS
<1> DEFINE Led(load) == [engine EXCEPT !.shown = load, !.at = IF engine.at < load THEN load ELSE engine.at,
                                       !.committed = engine.committed \cup {load}]
<1>1. PICK load \in engine.responded : engine.shown < load /\ ~view.closed /\ Engine(view, Led(load))
  BY DEF Commits, Ongoing
<1>2. /\ view \in Views /\ engine \in Engines /\ Fine(view, engine) /\ Navigated(engine)
      /\ Running /\ UNCHANGED <<engineOthers, challenges, granted>> /\ challenges \in Nat
  BY DEF Commits, Ongoing, WInv, Types
<1>3. view.attached
  BY <1>1, Navigable DEF NewEngine
<1>4. /\ load \in Nat /\ Latest(engine) \in Nat /\ engine.shown \in Nat /\ engine.response \in Nat /\ engine.at \in Nat
      /\ engine.responded \in SUBSET Nat /\ engine.committed \in SUBSET Nat
  BY <1>1, <1>2 DEF Engines, Latest
<1> DEFINE e == Led(load)
<1>5. /\ e \in Engines /\ e.loads = engine.loads /\ e.shown = load /\ e.response = engine.response
      /\ Latest(e) = Latest(engine) /\ e.at = (IF engine.at < load THEN load ELSE engine.at)
      /\ e.responded = engine.responded /\ e.committed = engine.committed \cup {load}
  BY <1>2, <1>4 DEF Engines, Latest
<1>6. Engine(view, e)
  BY <1>1
<1> HIDE DEF Led, e
<1>7. Navigated(e) /\ load <= Latest(engine)
  BY <1>1, <1>2, <1>4, <1>5 DEF Navigated
<1>8. engine.shown # Latest(engine)
  BY <1>1, <1>4, <1>7
<1>9. Follows(view, e)
  BY <1>1, <1>2, <1>5, <1>8 DEF Fine, Follows, Latest, Uri
<1>10. ASSUME NEW c \in view.captures PROVE Apt(c, view, e)
  BY <1>1, <1>2, <1>5, <1>8 DEF Fine, Apt, Taken, Latest, Uri
<1>11. Fine(view, e) /\ Adds(view, view)
  BY <1>2, <1>9, <1>10 DEF Fine, Adds
<1> QED BY <1>2, <1>3, <1>5, <1>6, <1>7, <1>11, Moves

\* The end of a navigation, of the last one or of an earlier one.
LEMMA FinishesKeeps == WInv /\ Finishes => Moved
<1> SUFFICES ASSUME WInv, Finishes PROVE Moved
  OBVIOUS
<1> DEFINE Over(load) == [engine EXCEPT !.over = engine.over \cup {load}]
           Seen(load) == IF load # Latest(Over(load)) THEN Stray(view, "finish") ELSE view
           Heard(v, e, load) == CASE platform = "linux" -> FinishLinux(v, e)
                                  [] platform = "windows" -> FinishWindows(v, e, load)
                                  [] OTHER -> FinishMac(v, e)
<1>1. PICK load \in engine.committed : Engine(Heard(Seen(load), Over(load), load), Over(load))
  BY DEF Finishes
<1>2. /\ view \in Views /\ engine \in Engines /\ Fine(view, engine) /\ Navigated(engine)
      /\ Running /\ UNCHANGED <<engineOthers, challenges, granted>> /\ challenges \in Nat
      /\ platform \in {"linux", "macos", "windows"}
  BY AuthWindowAssumption DEF Finishes, Ongoing, WInv, Types
<1>3. view.attached
  BY <1>1, Navigable DEF NewEngine
<1> DEFINE e == Over(load)
<1>4. /\ e \in Engines /\ e.loads = engine.loads /\ e.shown = engine.shown /\ Latest(e) = Latest(engine)
      /\ e.response = engine.response /\ e.responded = engine.responded /\ e.committed = engine.committed
      /\ e.at = engine.at /\ load \in Nat
  BY <1>1, <1>2 DEF Engines, Latest
<1> DEFINE v == Seen(load)
<1>5. Engine(Heard(v, e, load), e)
  BY <1>1
<1>6. v = IF load # Latest(e) THEN Stray(view, "finish") ELSE view
  OBVIOUS
<1> HIDE DEF Over, Seen, e, v
<1>7. Navigated(e) /\ (load = Latest(e) => e.shown = Latest(e))
  <2>1. engine.shown \in Nat /\ engine.response \in Nat /\ Latest(engine) \in Nat
    BY <1>2 DEF Engines, Latest
  <2> QED BY <1>1, <1>2, <1>4, <2>1 DEF Navigated
<1>8. Fine(view, e)
  BY <1>2, <1>4, SameEngine
<1>9. v \in Views /\ Fine(v, e) /\ Silent(view, v) /\ view.stray \subseteq v.stray /\ (load # Latest(e) => "finish" \in v.stray)
  <2>1. Silent(view, view)
    BY DEF Silent
  <2> QED BY <1>2, <1>4, <1>6, <1>8, <2>1, StrayFine DEF Lates
<1>10. platform # "windows" /\ Sound(v) => e.shown = Latest(e)
  BY <1>7, <1>9 DEF Sound, KeptOut
<1>11. Reaches(v, Heard(v, e, load), e)
  <2>1. CASE platform = "linux"
    <3>1. Heard(v, e, load) = FinishLinux(v, e)
      BY <2>1
    <3> QED BY <1>4, <1>7, <1>9, <1>10, <2>1, <3>1, FinishLinuxFine
  <2>2. CASE platform = "windows"
    <3>1. Heard(v, e, load) = FinishWindows(v, e, load)
      BY <2>2
    <3> QED BY <1>4, <1>7, <1>9, <2>2, <3>1, FinishWindowsFine
  <2>3. CASE platform = "macos"
    <3>1. Heard(v, e, load) = CaptureMac(v, e)
      BY <2>3 DEF FinishMac
    <3> QED BY <1>4, <1>7, <1>9, <1>10, <2>3, <3>1, CaptureMacFine
  <2> QED BY <1>2, <2>1, <2>2, <2>3
<1> DEFINE x == Heard(v, e, load)
<1> HIDE DEF Heard
<1>12. Reaches(view, x, e)
  BY <1>2, <1>4, <1>9, <1>11, Joined
<1> HIDE DEF x
<1> QED BY <1>2, <1>3, <1>4, <1>5, <1>7, <1>12, Moves DEF Reaches, x

\* A navigation that is given up looks finished on Linux.
LEMMA FailsKeeps == WInv /\ Fails => Moved
<1> SUFFICES ASSUME WInv, Fails PROVE Moved
  OBVIOUS
<1> DEFINE Over(load) == [engine EXCEPT !.over = engine.over \cup {load}]
<1>1. PICK load \in DOMAIN engine.loads : Engine(FinishLinux(Stray(view, "failure"), Over(load)), Over(load))
  BY DEF Fails
<1>2. /\ view \in Views /\ engine \in Engines /\ Fine(view, engine) /\ Navigated(engine)
      /\ Running /\ UNCHANGED <<engineOthers, challenges, granted>> /\ challenges \in Nat /\ platform = "linux"
  BY DEF Fails, WInv, Types
<1>3. view.attached
  <2>1. engine.loads # <<>>
    BY <1>1
  <2> QED BY <2>1, Navigable DEF NewEngine
<1> DEFINE e == Over(load)
           v == Stray(view, "failure")
<1>4. /\ e \in Engines /\ e.loads = engine.loads /\ e.shown = engine.shown /\ Latest(e) = Latest(engine)
      /\ e.response = engine.response /\ e.responded = engine.responded /\ e.committed = engine.committed
      /\ e.at = engine.at
  BY <1>1, <1>2 DEF Engines, Latest
<1>5. Engine(FinishLinux(v, e), e)
  BY <1>1
<1> HIDE DEF Over, e
<1>6. Navigated(e)
  BY <1>2, <1>4 DEF Navigated
<1>7. Fine(view, e)
  BY <1>2, <1>4, SameEngine
<1>8. v \in Views /\ Fine(v, e) /\ Silent(view, v) /\ view.stray \subseteq v.stray /\ "failure" \in v.stray
  BY <1>2, <1>4, <1>7, StrayFine DEF Lates
<1> HIDE DEF v
<1>9. ~Sound(v)
  BY <1>2, <1>8 DEF Sound, KeptOut
<1>10. Reaches(v, FinishLinux(v, e), e)
  BY <1>2, <1>4, <1>6, <1>8, <1>9, FinishLinuxFine
<1>11. Reaches(view, FinishLinux(v, e), e)
  BY <1>2, <1>4, <1>8, <1>10, Joined
<1> QED BY <1>2, <1>3, <1>4, <1>5, <1>6, <1>11, Moves DEF Reaches

\* What a callback reaches with the engine as it is, the window may do.
LEMMA Calls ==
  ASSUME WInv, Running, NEW w, Reaches(view, w, engine), view.attached \/ Bare(w, engine), Engine(w, engine),
         UNCHANGED <<engineOthers, granted>>, challenges' = challenges
  PROVE  Moved
<1>1. w \in Views /\ Fine(w, engine) /\ Adds(view, w) /\ engine \in Engines /\ Navigated(engine) /\ challenges' \in Nat
  BY DEF Reaches, WInv, Types
<1> QED BY <1>1, Moves

\* A window that could not be attached reports a failure, once more at most.
LEMMA FailBare ==
  ASSUME NEW v \in Views, NEW e, ~v.attached, Bare(v, e)
  PROVE  \A w \in {Fail(v), FailLinux(v), FailWindows(v), FailMac(v), [Report(v) EXCEPT !.closing = TRUE]} :
            ~w.attached /\ Bare(w, e)
<1>1. v.outbox \in Seq(Messages) /\ v.captures = {} /\ v.pending = {} /\ ~v.loaded
  BY DEF Views, Bare
<1>2. \E s \in Seq(Messages) : Report(v) = [v EXCEPT !.outbox = s] /\ \A k \in 1..Len(s) : s[k].kind = "Failed"
  <2>1. CASE Room(v)
    <3>1. Message("Failed", 0) \in Messages /\ Message("Failed", 0).kind = "Failed"
      BY DEF Message, Messages, Texts
    <3>2. Append(v.outbox, Message("Failed", 0)) \in Seq(Messages)
          /\ \A k \in 1..Len(Append(v.outbox, Message("Failed", 0))) : Append(v.outbox, Message("Failed", 0))[k].kind = "Failed"
      BY <1>1, <3>1, Appended DEF Bare
    <3> QED BY <2>1, <3>2 DEF Report, Post
  <2>2. CASE ~Room(v)
    <3>1. v = [v EXCEPT !.outbox = v.outbox]
      BY DEF Views
    <3> QED BY <1>1, <2>2, <3>1 DEF Report, Bare
  <2> QED BY <2>1, <2>2
<1>3. PICK s \in Seq(Messages) : Report(v) = [v EXCEPT !.outbox = s] /\ \A k \in 1..Len(s) : s[k].kind = "Failed"
  BY <1>2
<1> DEFINE Told(w) == w.attached = v.attached /\ w.captures = {} /\ w.pending = {} /\ ~w.loaded /\ w.outbox = s
<1>4. \A w : Told(w) => ~w.attached /\ Bare(w, e)
  BY <1>3 DEF Bare
<1> DEFINE r == Report(v)
<1>5. r \in Views /\ Told(r)
  BY <1>1, <1>3 DEF Views
<1>6. /\ FailLinux(v) = [r EXCEPT !.closed = TRUE, !.closing = TRUE, !.pending = {}]
      /\ FailWindows(v) = [r EXCEPT !.closed = TRUE, !.closing = TRUE]
      /\ FailMac(v) = [r EXCEPT !.closed = TRUE, !.closing = TRUE, !.pending = {}, !.generation = r.generation + 1, !.headers = 0]
  BY DEF FailLinux, FailWindows, FailMac
<1> HIDE DEF r
<1>7. Told(FailLinux(v)) /\ Told(FailWindows(v)) /\ Told(FailMac(v)) /\ Told([r EXCEPT !.closing = TRUE])
  BY <1>5, <1>6 DEF Views
<1>8. Fail(v) \in {v, FailLinux(v), FailWindows(v), FailMac(v)}
  BY DEF Fail
<1> HIDE DEF Told
<1> QED BY <1>4, <1>7, <1>8 DEF r

\* The timer, and an error of the web view.
LEMMA PollsKeeps == WInv /\ (Polls \/ HandlerFails) => Moved
<1> SUFFICES ASSUME WInv, Polls \/ HandlerFails PROVE Moved
  OBVIOUS
<1>1. view \in Views /\ engine \in Engines /\ Fine(view, engine) /\ Navigated(engine)
  BY DEF WInv, Types
<1>2. CASE Polls
  <2> DEFINE w == IF platform = "linux" THEN CaptureLinux(view, engine, TRUE) ELSE CaptureWindows(view, engine)
  <2>1. Reaches(view, w, engine)
    <3>1. platform \in {"linux", "windows"}
      BY <1>2 DEF Polls
    <3>2. CASE platform = "linux"
      BY <1>1, <3>2, CaptureLinuxFine
    <3>3. CASE platform = "windows"
      BY <1>1, <3>3, CaptureWindowsFine
    <3> QED BY <3>1, <3>2, <3>3
  <2>2. Running /\ Engine(w, engine) /\ UNCHANGED <<engineOthers, granted>> /\ challenges' = challenges
    BY <1>2 DEF Polls
  <2>3. view.attached
    <3>1. platform \in {"linux", "windows"} /\ ~view.closed /\ view' # view
      BY <1>2 DEF Polls
    <3> HIDE DEF w
    <3>2. w # view
      BY <2>2, <3>1 DEF Engine
    <3> USE DEF w
    <3>3. CASE platform = "linux"
      BY <3>2, <3>3 DEF CaptureLinux, WInv, Bare
    <3>4. CASE platform = "windows"
      BY <3>2, <3>4 DEF CaptureWindows, WInv, Bare
    <3> QED BY <3>1, <3>3, <3>4
  <2> HIDE DEF w
  <2> QED BY <2>1, <2>2, <2>3, Calls
<1>3. CASE HandlerFails
  <2>1. Reaches(view, Fail(view), engine)
    BY <1>1, FailFine
  <2>2. Running /\ Engine(Fail(view), engine) /\ UNCHANGED <<engineOthers, granted>> /\ challenges' = challenges
    BY <1>3 DEF HandlerFails
  <2>3. view.attached \/ Bare(Fail(view), engine)
    BY <1>1, FailBare DEF WInv
  <2> QED BY <2>1, <2>2, <2>3, Calls
<1> QED BY <1>2, <1>3

\* The script runs in what is shown by then, no earlier than what it was sent to.
LEMMA RunsKeeps == WInv /\ Runs => Moved
<1> SUFFICES ASSUME WInv, Runs PROVE Moved
  OBVIOUS
<1>1. view \in Views /\ engine \in Engines /\ Fine(view, engine) /\ Navigated(engine)
  BY DEF WInv, Types
<1>2. PICK c \in view.captures :
           c.stage = "script" /\ Engine(With(Without(view, c), [c EXCEPT !.stage = "ran", !.document = engine.shown]), engine)
  BY DEF Runs
<1> DEFINE d == [c EXCEPT !.stage = "ran", !.document = engine.shown]
           w == Without(view, c)
<1>3. c \in CaptureSet /\ (~view.closed => Apt(c, view, engine))
  BY <1>1 DEF Views, Fine
<1>4. w \in Views /\ Fine(w, engine) /\ Silent(view, w) /\ w.stray = view.stray
  BY <1>1, <1>3, CapturesFine DEF Reaches
<1>5. w.closed = view.closed /\ w.generation = view.generation
  BY <1>1 DEF Views, Without
<1>6. d \in CaptureSet /\ (~view.closed => Apt(d, w, engine))
  <2>1. engine.shown \in Nat
    BY <1>1 DEF Engines
  <2>2. d \in CaptureSet
    BY <1>3, <2>1 DEF CaptureSet
  <2>3. /\ d.stage = "ran" /\ d.document = engine.shown /\ d.generation = c.generation /\ d.load = c.load
        /\ d.headers = c.headers /\ d.uri = c.uri
    BY <1>3 DEF CaptureSet
  <2> HIDE DEF d, w
  <2>4. ~view.closed => Apt(d, w, engine)
    BY <1>2, <1>3, <1>4, <1>5, <2>3 DEF Apt, Taken, Sound
  <2> QED BY <2>2, <2>4
<1>7. Reaches(w, With(w, d), engine)
  <2> HIDE DEF d
  <2>1. CASE ~view.closed
    BY <1>1, <1>4, <1>6, <2>1, CapturesFine
  <2>2. CASE view.closed
    <3>1. With(w, d) = [w EXCEPT !.captures = w.captures \cup {d}]
      BY DEF With
    <3> HIDE DEF w
    <3> QED BY <1>4, <1>5, <1>6, <2>2, <3>1 DEF Reaches, Views, Fine, Adds, Sound
  <2> QED BY <2>1, <2>2
<1>8. Reaches(view, With(w, d), engine)
  <2> HIDE DEF w, d
  <2> QED BY <1>1, <1>4, <1>7, Joined
<1>9. Running /\ UNCHANGED <<engineOthers, granted>> /\ challenges' = challenges /\ Engine(With(w, d), engine)
  BY <1>2 DEF Runs
<1>10. view.attached
  BY <1>2, Navigable
<1> HIDE DEF w, d
<1> QED BY <1>8, <1>9, <1>10, Calls

\* An answer of the engine, late or not.
LEMMA AnswersKeeps == WInv /\ Answers => Moved
<1> SUFFICES ASSUME WInv, Answers PROVE Moved
  OBVIOUS
<1>1. /\ view \in Views /\ engine \in Engines /\ Fine(view, engine) /\ Navigated(engine) /\ platform \in Platforms
      /\ Running /\ UNCHANGED <<engineOthers, granted>> /\ challenges' = challenges
  BY DEF WInv, Types, Answers
<1>2. PICK c \in view.captures :
           \/ c.stage = "ran" /\ Engine(DocumentDone(view, engine, c), engine)
           \/ c.stage = "cookies" /\ Engine(CookiesDone(view, engine, c), engine)
           \/ Engine(Fail(Without(view, c)), engine)
  BY DEF Answers
<1>3. view.attached
  BY <1>2, Navigable
<1>4. CASE c.stage = "ran" /\ Engine(DocumentDone(view, engine, c), engine)
  <2>1. Reaches(view, DocumentDone(view, engine, c), engine)
    BY <1>1, <1>4, DocumentDoneFine
  <2> QED BY <1>1, <1>3, <1>4, <2>1, Calls
<1>5. CASE c.stage = "cookies" /\ Engine(CookiesDone(view, engine, c), engine)
  <2>1. Reaches(view, CookiesDone(view, engine, c), engine)
    BY <1>1, <1>5, CookiesDoneFine
  <2> QED BY <1>1, <1>3, <1>5, <2>1, Calls
<1>6. CASE Engine(Fail(Without(view, c)), engine)
  <2> DEFINE w == Without(view, c)
  <2>1. c \in CaptureSet
    BY <1>1 DEF Views
  <2>2. w \in Views /\ Fine(w, engine) /\ Silent(view, w) /\ w.stray = view.stray
    BY <1>1, <2>1, CapturesFine DEF Reaches
  <2>3. Reaches(w, Fail(w), engine)
    BY <1>1, <2>2, FailFine
  <2>4. Reaches(view, Fail(w), engine)
    <3> HIDE DEF w
    <3> QED BY <1>1, <2>2, <2>3, Joined
  <2> QED BY <1>1, <1>3, <1>6, <2>4, Calls
<1> QED BY <1>2, <1>4, <1>5, <1>6

\* A certificate the engine does not accept.
LEMMA ChallengedKeeps == WInv /\ Challenged => Moved
<1> SUFFICES ASSUME WInv, Challenged PROVE Moved
  OBVIOUS
<1> DEFINE Question(load) == [id |-> challenges + 1, generation |-> view.generation, load |-> load]
           Asked(q) == CASE platform = "linux" -> ChallengeLinux(view, q)
                         [] platform = "windows" -> ChallengeWindows(view, q)
                         [] OTHER -> ChallengeMac(view, q)
           Told(load) == [engine EXCEPT !.refused = engine.refused \cup {load}]
<1>1. PICK load \in DOMAIN engine.loads : Engine(Asked(Question(load)), Told(load))
  BY DEF Challenged
<1>2. /\ view \in Views /\ engine \in Engines /\ Fine(view, engine) /\ Navigated(engine) /\ challenges \in Nat
      /\ Running /\ UNCHANGED <<engineOthers, granted>> /\ challenges' = challenges + 1
  BY DEF WInv, Types, Challenged
<1>3. view.attached /\ load \in Nat
  <2>1. engine.loads # <<>>
    BY <1>1
  <2> QED BY <1>1, <1>2, <2>1, Navigable DEF NewEngine, Engines
<1> DEFINE e == Told(load)
           q == Question(load)
<1>4. /\ e \in Engines /\ e.loads = engine.loads /\ e.shown = engine.shown /\ Latest(e) = Latest(engine)
      /\ e.response = engine.response /\ e.responded = engine.responded /\ e.committed = engine.committed
      /\ e.at = engine.at
  BY <1>1, <1>2, <1>3 DEF Engines, Latest
<1>5. q \in Questions
  BY <1>2, <1>3 DEF Questions, Views
<1>6. Engine(Asked(q), e)
  BY <1>1
<1> HIDE DEF Told, Question, e, q
<1>7. Navigated(e) /\ Fine(view, e)
  BY <1>2, <1>4, SameEngine DEF Navigated
<1>8. Reaches(view, Asked(q), e)
  BY <1>2, <1>4, <1>5, <1>7, ChallengeFine
<1> DEFINE x == Asked(q)
<1> HIDE DEF Asked, x
<1>9. challenges' \in Nat /\ Reaches(view, x, e) /\ Engine(x, e)
  BY <1>2, <1>6, <1>8 DEF x
<1> QED BY <1>2, <1>3, <1>4, <1>7, <1>9, Moves DEF Reaches

----------------------------------------------------------------------------
(* The invariant: the process and the broker                               *)

\* The rest of a sequence.
LEMMA Rest ==
  ASSUME NEW S, NEW s \in Seq(S), s # <<>>
  PROVE  /\ Head(s) \in S /\ Head(s) = s[1] /\ 1 \in 1..Len(s)
         /\ Tail(s) \in Seq(S) /\ Len(Tail(s)) = Len(s) - 1
         /\ \A k \in 1..Len(Tail(s)) : k + 1 \in 1..Len(s) /\ Tail(s)[k] = s[k + 1]
OBVIOUS

\* A closed view does not follow the engine any more.
LEMMA ClosedFine ==
  ASSUME NEW v \in Views, NEW e \in Engines, Outgoing(v.outbox), Bare(v, e)
  PROVE  Closed(v) \in Views /\ Fine(Closed(v), e) /\ Bare(Closed(v), e)
<1> DEFINE Over(w) == /\ w \in Views /\ w.closed /\ w.captures = {} /\ w.pending = {} /\ w.outbox = v.outbox
                      /\ w.attached = v.attached /\ w.loaded = v.loaded
           r == Released(v)
<1>1. r = [v EXCEPT !.closed = TRUE, !.closing = FALSE, !.pending = {}, !.captures = {}]
  BY DEF Released
<1>2. Over(r)
  BY <1>1 DEF Views
<1> HIDE DEF r
<1>3. PICK n \in Nat : n = r.generation + 1
  BY <1>2 DEF Views
<1>4. Over([r EXCEPT !.headers = 0]) /\ Over([r EXCEPT !.headers = 0, !.generation = n])
  BY <1>2 DEF Views
<1>5. CloseLinux(v) = r /\ CloseWindows(v) = [r EXCEPT !.headers = 0] /\ CloseMac(v) = [r EXCEPT !.headers = 0, !.generation = n]
  BY <1>3 DEF CloseLinux, CloseWindows, CloseMac, r
<1>6. Closed(v) \in {r, [r EXCEPT !.headers = 0], [r EXCEPT !.headers = 0, !.generation = n]}
  BY <1>5 DEF Closed
<1>7. Over(Closed(v))
  <2> HIDE DEF Over
  <2> QED BY <1>2, <1>4, <1>6
<1> QED BY <1>7 DEF Fine, Bare

\* The process and the connection move on beside the view.
LEMMA Beside ==
  ASSUME WInv, UNCHANGED <<platform, view, engine, granted>>, renderers' \in BOOLEAN, directory' \in {"none", "present"},
         proc' \in {"none", "starting", "hello", "open", "running", "leaving", "removing", "gone"},
         proc' \in {"running", "leaving", "removing"} \/ proc \notin {"running", "leaving", "removing"},
         wire' \in Seq(Messages), Incoming(wire'), challenges' = challenges,
         orders' \in Seq(Orders), Ordered(orders', trusted'), trusted \subseteq trusted'
  PROVE  WInv'
<1>1. Types' /\ Blank' /\ Decisions'
  BY DEF WInv, Types, Blank, Decisions, Ordered
<1>2. Navigated(engine') /\ Fine(view', engine') /\ Bare(view', engine')
  BY DEF WInv
<1> QED BY <1>1, <1>2, Carried DEF WInv

\* What the process knew goes with it.
LEMMA ExitsKeeps ==
  ASSUME WInv, Exits, renderers' \in BOOLEAN, directory' \in {"none", "present"},
         UNCHANGED <<platform, wire, historyVars>>
  PROVE  WInv'
<1>1. Types' /\ Blank' /\ Decisions'
  BY NewFine DEF WInv, Types, Blank, Decisions, Ordered, Exits, historyVars
<1>2. Navigated(engine') /\ Fine(view', engine') /\ Bare(view', engine') /\ Incoming(wire')
  BY NewFine DEF Exits, WInv
<1> QED BY <1>1, <1>2, Carried DEF WInv

\* The view is closed, and its process leaves.
LEMMA StopKeeps ==
  ASSUME WInv, NEW v \in Views, Outgoing(v.outbox), Bare(v, engine), view' = Closed(v), engine' = NewEngine, proc' = "leaving",
         renderers' \in BOOLEAN, UNCHANGED <<platform, wire, directory, historyVars>>, orders' \in Seq(Orders), Ordered(orders', trusted)
  PROVE  WInv'
<1>1. engine' \in Engines /\ Navigated(engine')
  BY NewFine
<1>2. Closed(v) \in Views /\ Fine(Closed(v), engine') /\ Bare(Closed(v), engine')
  <2>1. Bare(v, engine')
    BY DEF Bare
  <2> QED BY <1>1, <2>1, ClosedFine
<1>3. Types' /\ Blank' /\ Decisions'
  BY <1>1, <1>2 DEF WInv, Types, Blank, Decisions, Ordered, historyVars
<1>4. Navigated(engine') /\ Fine(view', engine') /\ Bare(view', engine') /\ Incoming(wire')
  BY <1>1, <1>2 DEF WInv
<1> QED BY <1>3, <1>4, Carried DEF WInv

\* The broker's decisions are remembered before they are sent.
LEMMA BrokerKeeps == WInv /\ Broker => WInv'
<1> SUFFICES ASSUME WInv, Broker PROVE WInv'
  OBVIOUS
<1>1. /\ renderers \in BOOLEAN /\ directory \in {"none", "present"} /\ wire \in Seq(Messages) /\ Incoming(wire)
      /\ orders \in Seq(Orders) /\ Ordered(orders, trusted) /\ platform \in Platforms
      /\ proc \in {"none", "starting", "hello", "open", "running", "leaving", "removing", "gone"}
  BY DEF WInv, Types, Decisions
<1>2. CASE BrokerStarts
  <2>1. proc = "none" /\ proc' = "starting"
        /\ UNCHANGED <<platform, renderers, view, engine, wire, orders, directory, challenges, granted, trusted>>
    BY <1>2 DEF BrokerStarts, historyVars
  <2> QED BY <1>1, <2>1, Beside
<1>3. ASSUME NEW o \in Orders, NEW ids, trusted \subseteq ids, o.kind = "Accept" => o.id \in ids
      PROVE  Append(orders, o) \in Seq(Orders) /\ Ordered(Append(orders, o), ids)
  BY <1>1, <1>3, Appended DEF Ordered
<1>4. CASE BrokerOrders
  <2>1. UNCHANGED <<platform, proc, renderers, view, engine, wire, directory, challenges, granted, trusted>>
    BY <1>4 DEF BrokerOrders, historyVars
  <2>2. Message("Open", 0) \in Orders /\ Message("Close", 0) \in Orders
        /\ Message("Open", 0).kind = "Open" /\ Message("Close", 0).kind = "Close"
    BY DEF Message, Orders
  <2>3. <<Message("Open", 0)>> = Append(<<>>, Message("Open", 0))
    OBVIOUS
  <2>4. orders' \in {Append(orders, Message("Open", 0)), Append(orders, Message("Close", 0))}
    BY <1>4, <2>3 DEF BrokerOrders
  <2>5. orders' \in Seq(Orders) /\ Ordered(orders', trusted)
    BY <1>3, <2>2, <2>4
  <2> QED BY <1>1, <2>1, <2>5, Beside
<1>5. CASE BrokerHears
  <2>1. /\ UNCHANGED <<platform, proc, renderers, view, engine, directory, challenges, granted>>
        /\ wire # <<>> /\ wire' = Tail(wire)
    BY <1>5 DEF BrokerHears
  <2>2. wire' \in Seq(Messages) /\ Incoming(wire') /\ Head(wire) \in Messages
    BY <1>1, <2>1, Rest DEF Incoming
  <2>3. orders' \in Seq(Orders) /\ Ordered(orders', trusted') /\ trusted \subseteq trusted'
    <3>1. CASE UNCHANGED <<orders, trusted>>
      BY <1>1, <3>1
    <3>2. CASE /\ Head(wire).kind = "Certificate" /\ orders' = Append(orders, Message("Accept", Head(wire).id))
               /\ trusted' = trusted \cup {Head(wire).id}
      <4>1. Message("Accept", Head(wire).id) \in Orders /\ Message("Accept", Head(wire).id).id = Head(wire).id
        BY <2>2, <3>2 DEF Message, Messages, Texts, PageSet, Orders
      <4>2. PICK ids : ids = trusted \cup {Head(wire).id}
        OBVIOUS
      <4>3. Append(orders, Message("Accept", Head(wire).id)) \in Seq(Orders)
            /\ Ordered(Append(orders, Message("Accept", Head(wire).id)), ids)
        BY <1>3, <4>1, <4>2
      <4> QED BY <3>2, <4>2, <4>3
    <3>3. CASE Head(wire).kind = "Certificate" /\ orders' = Append(orders, Message("Reject", Head(wire).id)) /\ UNCHANGED trusted
      <4>1. Message("Reject", Head(wire).id) \in Orders /\ Message("Reject", Head(wire).id).kind = "Reject"
        BY <2>2, <3>3 DEF Message, Messages, Texts, PageSet, Orders
      <4>2. Append(orders, Message("Reject", Head(wire).id)) \in Seq(Orders)
            /\ Ordered(Append(orders, Message("Reject", Head(wire).id)), trusted)
        BY <1>3, <4>1
      <4> QED BY <3>3, <4>2
    <3> QED BY <1>5, <3>1, <3>2, <3>3 DEF BrokerHears
  <2> QED BY <1>1, <2>1, <2>2, <2>3, Beside
<1> QED BY <1>2, <1>4, <1>5 DEF Broker

\* What attaching the handlers makes of the window: it is ready, or it is bare.
LEMMA AttachFine ==
  ASSUME NEW v \in Attached
  PROVE  v \in Views /\ Fine(v, NewEngine) /\ Bare(v, NewEngine) /\ (v = Ready \/ ~v.attached)
<1>1. /\ NewView \in Views /\ NewEngine \in Engines /\ Fine(NewView, NewEngine) /\ NewView.outbox = <<>>
      /\ ~NewView.attached /\ Bare(NewView, NewEngine)
  BY NewFine DEF NewView
<1>2. v \in {Ready, FailLinux(NewView), FailWindows(NewView), FailMac(NewView), [Report(NewView) EXCEPT !.closing = TRUE]}
  <2>1. Stateless = FailWindows(NewView)
    BY DEF Stateless, FailWindows
  <2> QED BY <2>1 DEF Attached, AttachLinux, AttachWindows, AttachMac
<1>3. Ready \in Views /\ Fine(Ready, NewEngine) /\ Bare(Ready, NewEngine)
  <2>1. Message("Ready", 0) \in Messages /\ WholePage(Message("Ready", 0)) /\ Message("Ready", 0).kind = "Ready"
    BY DEF Message, Messages, Texts, WholePage
  <2>2. PICK out \in Seq(Messages) : out = Append(NewView.outbox, Message("Ready", 0)) /\ Outgoing(out)
    <3> DEFINE o == Append(<<>>, Message("Ready", 0))
    <3>1. o \in Seq(Messages) /\ Len(o) = 1 /\ o[1] = Message("Ready", 0)
      BY <2>1
    <3>2. Outgoing(o)
      BY <2>1, <3>1 DEF Outgoing
    <3> HIDE DEF o
    <3>3. o = Append(NewView.outbox, Message("Ready", 0))
      BY <1>1 DEF o
    <3> QED BY <3>1, <3>2, <3>3
  <2>3. Ready = [NewView EXCEPT !.outbox = out, !.attached = TRUE]
    BY <2>2 DEF Ready, Post
  <2>4. /\ Ready \in Views /\ Ready.attached /\ Ready.outbox = out /\ Ready.closed = NewView.closed
        /\ Ready.generation = NewView.generation /\ Ready.headers = NewView.headers /\ Ready.loaded = NewView.loaded
        /\ Ready.captures = NewView.captures /\ Ready.stray = NewView.stray
    BY <1>1, <2>3 DEF Views
  <2> QED BY <1>1, <2>2, <2>4 DEF Fine, Follows, Apt, Sound, Bare
<1>4. ASSUME v # Ready PROVE v \in Views /\ Fine(v, NewEngine)
  <2>1. Reaches(NewView, FailLinux(NewView), NewEngine) /\ Reaches(NewView, FailWindows(NewView), NewEngine)
        /\ Reaches(NewView, FailMac(NewView), NewEngine)
    BY <1>1, FailFine
  <2>2. LET w == [Report(NewView) EXCEPT !.closing = TRUE] IN w \in Views /\ Fine(w, NewEngine)
    <3>1. Message("Failed", 0) \in Messages /\ WholePage(Message("Failed", 0)) /\ Message("Failed", 0).kind = "Failed"
      BY DEF Message, Messages, Texts, WholePage
    <3>2. Report(NewView) \in Views /\ Fine(Report(NewView), NewEngine)
      BY <1>1, <3>1, PostFine DEF Report, Reaches
    <3> QED BY <3>2 DEF Views, Fine, Follows, Apt, Sound
  <2> QED BY <1>2, <1>4, <2>1, <2>2 DEF Reaches
<1>5. ASSUME v # Ready PROVE ~v.attached /\ Bare(v, NewEngine)
  BY <1>1, <1>2, <1>5, FailBare
<1> QED BY <1>3, <1>4, <1>5

\* The process opens: it says who it is, makes its profile, attaches its view.
LEMMA OpeningKeeps == WInv /\ (Connects \/ Opens \/ Attaches \/ RenderersExit) => WInv'
<1> SUFFICES ASSUME WInv, Connects \/ Opens \/ Attaches \/ RenderersExit PROVE WInv'
  OBVIOUS
<1>1. /\ renderers \in BOOLEAN /\ directory \in {"none", "present"} /\ wire \in Seq(Messages) /\ Incoming(wire)
      /\ orders \in Seq(Orders) /\ Ordered(orders, trusted) /\ platform \in Platforms
      /\ proc \in {"none", "starting", "hello", "open", "running", "leaving", "removing", "gone"}
  BY DEF WInv, Types, Decisions
<1>2. CASE Connects
  <2>1. proc = "starting" /\ proc' = "hello"
        /\ UNCHANGED <<platform, renderers, view, engine, wire, orders, directory, challenges, granted, trusted>>
    BY <1>2 DEF Connects, historyVars
  <2> QED BY <1>1, <2>1, Beside
<1>3. CASE Opens
  <2>1. CASE Exits
    BY <1>1, <1>3, <2>1, ExitsKeeps DEF Opens
  <2>2. CASE ~Exits
    <3>1. /\ proc = "hello" /\ proc' = "open" /\ orders # <<>> /\ orders' = Tail(orders) /\ directory' = "present"
          /\ UNCHANGED <<platform, renderers, view, engine, wire, challenges, granted, trusted>>
      BY <1>3, <2>2 DEF Opens, historyVars
    <3>2. orders' \in Seq(Orders) /\ Ordered(orders', trusted)
      BY <1>1, <3>1, Rest DEF Ordered
    <3> QED BY <1>1, <3>1, <3>2, Beside
  <2> QED BY <2>1, <2>2
<1>4. CASE Attaches
  <2>1. /\ proc = "open" /\ view = NewView /\ engine = NewEngine
        /\ UNCHANGED <<platform, engine, wire, orders, directory, historyVars>>
    BY <1>4 DEF Attaches, WInv, Blank
  <2>2. CASE proc' = "removing" /\ renderers' \in BOOLEAN /\ UNCHANGED view
    BY <1>1, <2>1, <2>2, Beside DEF historyVars
  <2>3. CASE proc' = "leaving" /\ renderers' = TRUE /\ view' = Closed(NewView)
    <3>1. NewView \in Views /\ Outgoing(NewView.outbox) /\ Bare(NewView, engine)
      BY <2>1, NewFine DEF Fine
    <3> QED BY <1>1, <2>1, <2>3, <3>1, StopKeeps
  <2>4. CASE proc' = "running" /\ renderers' = TRUE /\ view' \in Attached
    <3>1. view' \in Views /\ Fine(view', NewEngine) /\ Bare(view', NewEngine)
      BY <2>4, AttachFine
    <3>2. Types' /\ Blank' /\ Decisions'
      BY <1>1, <2>1, <2>4, <3>1 DEF WInv, Types, Blank, Decisions, historyVars
    <3>3. Navigated(engine') /\ Fine(view', engine') /\ Bare(view', engine') /\ Incoming(wire')
      BY <1>1, <2>1, <3>1 DEF WInv
    <3> QED BY <2>1, <3>2, <3>3, Carried DEF WInv
  <2> QED BY <1>4, <2>2, <2>3, <2>4 DEF Attaches
<1>5. CASE RenderersExit
  <2>1. renderers' = FALSE
        /\ UNCHANGED <<platform, proc, view, engine, wire, orders, directory, challenges, granted, trusted>>
    BY <1>5 DEF RenderersExit, historyVars
  <2> QED BY <1>1, <2>1, Beside
<1> QED BY <1>2, <1>3, <1>4, <1>5

\* The writer takes the messages in their order, and its last word is no page.
LEMMA WritingKeeps == WInv /\ (Writes \/ Leaves) => WInv'
<1> SUFFICES ASSUME WInv, Writes \/ Leaves PROVE WInv'
  OBVIOUS
<1>1. view \in Views /\ engine \in Engines /\ Navigated(engine) /\ Fine(view, engine) /\ view.outbox \in Seq(Messages)
      /\ wire \in Seq(Messages) /\ Incoming(wire) /\ Outgoing(view.outbox)
  BY DEF WInv, Types, Views, Fine
<1>2. ASSUME NEW out \in Seq(Messages), Outgoing(out), view' = [view EXCEPT !.outbox = out],
             ~view.attached => \A k \in 1..Len(out) : out[k].kind = "Failed",
             proc' \in {"running", "leaving", "removing"}, wire' \in Seq(Messages), Incoming(wire'),
             UNCHANGED <<platform, renderers, engine, orders, directory, historyVars>>
      PROVE  WInv'
  <2>1. /\ view' \in Views /\ view'.outbox = out /\ view'.closed = view.closed /\ view'.generation = view.generation
        /\ view'.headers = view.headers /\ view'.loaded = view.loaded /\ view'.captures = view.captures
        /\ view'.stray = view.stray /\ view'.attached = view.attached /\ view'.pending = view.pending
    BY <1>1, <1>2 DEF Views
  <2>2. Types' /\ Blank' /\ Decisions'
    BY <1>2, <2>1 DEF WInv, Types, Blank, Decisions, Ordered, historyVars
  <2>3. Fine(view', engine) /\ Bare(view', engine)
    BY <1>1, <1>2, <2>1 DEF WInv, Fine, Follows, Apt, Sound, Bare
  <2>4. Navigated(engine') /\ Fine(view', engine') /\ Bare(view', engine') /\ Incoming(wire')
    BY <1>1, <1>2, <2>3
  <2> QED BY <1>2, <2>2, <2>4, Carried DEF WInv
<1>3. ASSUME NEW m \in Messages, WholePage(m)
      PROVE  Append(wire, m) \in Seq(Messages) /\ Incoming(Append(wire, m))
  BY <1>1, <1>3, Appended DEF Incoming
<1>4. CASE Writes
  <2>1. /\ proc = "running" /\ view.outbox # <<>> /\ wire' = Append(wire, Head(view.outbox))
        /\ view' = [view EXCEPT !.outbox = Tail(view.outbox)]
        /\ UNCHANGED <<platform, proc, renderers, engine, orders, directory, historyVars>>
    BY <1>4 DEF Writes, Running
  <2>2. /\ Head(view.outbox) \in Messages /\ WholePage(Head(view.outbox))
        /\ Tail(view.outbox) \in Seq(Messages) /\ Outgoing(Tail(view.outbox))
    <3>1. \A k \in 1..Len(Tail(view.outbox)) : /\ k + 1 \in 1..Len(view.outbox)
                                                /\ Tail(view.outbox)[k] = view.outbox[k + 1]
      BY <1>1, <2>1, Rest
    <3>2. \A k \in 1..Len(Tail(view.outbox)) :
             /\ WholePage(Tail(view.outbox)[k]) /\ Tail(view.outbox)[k].kind # "Closed"
             /\ Tail(view.outbox)[k].kind # "Ready"
      BY <1>1, <3>1 DEF Outgoing
    <3> QED BY <1>1, <2>1, <3>2, Rest DEF Outgoing
  <2>3. wire' \in Seq(Messages) /\ Incoming(wire')
    BY <1>3, <2>1, <2>2
  <2>4. PICK out \in Seq(Messages) : out = Tail(view.outbox)
    BY <2>2
  <2>5. ~view.attached => \A k \in 1..Len(out) : out[k].kind = "Failed"
    BY <1>1, <2>1, <2>4, Rest DEF WInv, Bare
  <2> QED BY <1>2, <2>1, <2>2, <2>3, <2>4, <2>5
<1>5. CASE Leaves
  <2>1. /\ proc' = "removing" /\ view' = [view EXCEPT !.outbox = <<>>]
        /\ wire' \in {wire, wire \o LastWord}
        /\ UNCHANGED <<platform, renderers, engine, orders, directory, historyVars>>
    BY <1>5 DEF Leaves
  <2>2. LastWord \in {<<>>, <<Message("Failed", 0)>>, <<Message("Closed", 0)>>}
    BY DEF LastWord
  <2>3. wire \o <<>> = wire /\ \A m \in Messages : wire \o <<m>> = Append(wire, m)
    BY <1>1
  <2>4. /\ Message("Failed", 0) \in Messages /\ WholePage(Message("Failed", 0))
        /\ Message("Closed", 0) \in Messages /\ WholePage(Message("Closed", 0))
    BY DEF Message, Messages, Texts, WholePage
  <2>5. wire' \in {wire, Append(wire, Message("Failed", 0)), Append(wire, Message("Closed", 0))}
    BY <2>1, <2>2, <2>3, <2>4
  <2>6. wire' \in Seq(Messages) /\ Incoming(wire')
    BY <1>1, <1>3, <2>4, <2>5
  <2>7. PICK out \in Seq(Messages) : out = <<>>
    <3>1. <<>> \in Seq(Messages)
      OBVIOUS
    <3> QED BY <3>1, Zenon
  <2>8. Outgoing(out) /\ \A k \in 1..Len(out) : out[k].kind = "Failed"
    BY <2>7 DEF Outgoing
  <2> QED BY <1>2, <2>1, <2>6, <2>7, <2>8
<1> QED BY <1>4, <1>5

\* A decision is taken for the question it names, and Close closes the view.
LEMMA ReadsKeeps == WInv /\ Reads => WInv' /\ (proc' = proc => Adds(view, view'))
<1> SUFFICES ASSUME WInv, Reads PROVE WInv' /\ (proc' = proc => Adds(view, view'))
  OBVIOUS
<1>1. /\ view \in Views /\ engine \in Engines /\ Navigated(engine) /\ Fine(view, engine) /\ Outgoing(view.outbox)
      /\ Bare(view, engine) /\ renderers \in BOOLEAN /\ orders \in Seq(Orders) /\ Ordered(orders, trusted) /\ Running
  BY DEF WInv, Types, Decisions, Fine, Reads
<1>2. /\ orders # <<>> /\ orders' = Tail(orders)
      /\ UNCHANGED <<platform, renderers, wire, directory, challenges, trusted, sent>>
  BY DEF Reads
<1>3. /\ orders' \in Seq(Orders) /\ Ordered(orders', trusted) /\ Head(orders) \in Orders
      /\ Head(orders).kind = "Accept" => Head(orders).id \in trusted
  BY <1>1, <1>2, Rest DEF Ordered
<1>4. CASE Stop("host") /\ UNCHANGED granted
  <2>1. WInv'
    BY <1>1, <1>2, <1>3, <1>4, StopKeeps DEF Stop, historyVars
  <2> QED BY <1>1, <1>4, <2>1 DEF Stop, Running
<1>5. CASE Head(orders).kind # "Close"
  <2> DEFINE id == Head(orders).id
             accept == Head(orders).kind = "Accept"
             q == Decided(view, id)
             w == Decide(view, id, accept)
             e == IF platform = "linux" THEN [engine EXCEPT !.reload = engine.reload \/ (accept /\ q # {})]
                  ELSE [engine EXCEPT !.refused = IF accept THEN engine.refused \ {c.load : c \in q} ELSE engine.refused]
  <2>1. /\ Engine(w, e) /\ proc' = proc
        /\ granted' = granted \cup (IF accept THEN {c.id : c \in q} ELSE {})
    BY <1>5 DEF Reads
  <2>2. \A c \in q : c.id = id
    BY DEF Decided
  <2>3. granted' \subseteq trusted'
    BY <1>2, <1>3, <2>1, <2>2 DEF WInv, Decisions
  <2>4. id \in Nat
    BY <1>3 DEF Orders
  <2>5. PICK b \in BOOLEAN : b = accept
    <3>1. accept \in BOOLEAN
      OBVIOUS
    <3> QED BY <3>1, Zenon
  <2>6. Reaches(view, Decide(view, id, b), engine)
    BY <1>1, <2>4, DecideFine
  <2>7. w \in Views /\ Fine(w, engine) /\ Adds(view, w)
    BY <2>5, <2>6 DEF Reaches
  <2>8. /\ e \in Engines /\ e.loads = engine.loads /\ e.shown = engine.shown
        /\ e.at = engine.at /\ e.response = engine.response
        /\ e.responded = engine.responded /\ e.committed = engine.committed
    <3>1. PICK reload \in BOOLEAN : reload = (engine.reload \/ (accept /\ q # {}))
      BY <1>1 DEF Engines
    <3>2. PICK refused \in SUBSET Nat : refused = IF accept THEN engine.refused \ {c.load : c \in q} ELSE engine.refused
      BY <1>1 DEF Engines
    <3>3. e \in {[engine EXCEPT !.reload = reload], [engine EXCEPT !.refused = refused]}
      BY <3>1, <3>2
    <3> HIDE DEF e
    <3> QED BY <1>1, <3>3 DEF Engines
  <2>9. ASSUME ~view.attached PROVE Bare(w, e)
    <3>1. view.pending = {} /\ engine = NewEngine /\ q = {}
      BY <1>1, <2>9 DEF Bare, Decided
    <3>2. {c.load : c \in q} = {}
      BY <3>1
    <3>3. e = NewEngine
      BY <3>1, <3>2 DEF NewEngine
    <3>4. w = [view EXCEPT !.pending = w.pending] /\ w.pending = {}
      <4>1. DecideLinux(view, id, accept) = [view EXCEPT !.pending = {}]
        BY <3>1 DEF DecideLinux
      <4>2. DecideMac(view, id) = [view EXCEPT !.pending = {}] /\ DecideWindows(view, id) = [view EXCEPT !.pending = {}]
        BY <3>1 DEF DecideMac, DecideWindows
      <4>3. w = [view EXCEPT !.pending = {}]
        BY <4>1, <4>2 DEF Decide
      <4> QED BY <1>1, <4>3 DEF Views
    <3> HIDE DEF w, e
    <3> QED BY <1>1, <2>9, <3>1, <3>3, <3>4 DEF Bare, Views
  <2> HIDE DEF w, e
  <2>10. Navigated(e) /\ Fine(w, e) /\ Bare(w, e)
    <3>1. Navigated(e)
      BY <1>1, <2>8 DEF Navigated, Latest
    <3>2. Fine(w, e)
      BY <1>1, <2>7, <2>8, SameEngine
    <3> QED BY <2>7, <2>9, <3>1, <3>2 DEF Bare, Adds
  <2>11. /\ view' \in Views /\ engine' \in Engines /\ Silent(w, view')
         /\ Navigated(engine') /\ Fine(view', engine') /\ Bare(view', engine')
    BY <2>1, <2>7, <2>8, <2>10, Followed
  <2>12. Types' /\ Blank' /\ Decisions'
    BY <1>1, <1>2, <1>3, <2>1, <2>3, <2>11 DEF WInv, Types, Blank, Decisions, Running
  <2>13. Adds(view, view')
    BY <2>7, <2>11 DEF Adds, Silent
  <2>14. Incoming(wire')
    BY <1>2 DEF WInv
  <2> QED BY <1>2, <2>11, <2>12, <2>13, <2>14, Carried DEF WInv
<1> QED BY <1>4, <1>5 DEF Reads

\* The window closes, its process ends.
LEMMA EndingKeeps == WInv /\ (WindowCloses \/ RemovesOwn \/ WindowCrashes) => WInv'
<1> SUFFICES ASSUME WInv, WindowCloses \/ RemovesOwn \/ WindowCrashes PROVE WInv'
  OBVIOUS
<1>1. /\ view \in Views /\ Outgoing(view.outbox) /\ Bare(view, engine) /\ renderers \in BOOLEAN /\ directory \in {"none", "present"}
      /\ orders \in Seq(Orders) /\ Ordered(orders, trusted)
  BY DEF WInv, Types, Decisions, Fine
<1>2. CASE WindowCloses
  BY <1>1, <1>2, StopKeeps DEF WindowCloses, Stop
<1>3. CASE RemovesOwn
  BY <1>1, <1>3, ExitsKeeps DEF RemovesOwn
<1>4. CASE WindowCrashes
  BY <1>1, <1>4, ExitsKeeps DEF WindowCrashes
<1> QED BY <1>2, <1>3, <1>4

\* The callbacks together.
LEMMA CallbacksKeep == WInv /\ (WebEngine \/ HandlerFails \/ Polls \/ Runs \/ Answers) => Moved
BY StartsKeeps, RespondsKeeps, CommitsKeeps, FinishesKeeps, FailsKeeps, ChallengedKeeps, PollsKeeps, RunsKeeps, AnswersKeeps
   DEF WebEngine

\* The window before its process is there.
LEMMA WInvInit == Init => WInv
<1> SUFFICES ASSUME Init PROVE WInv
  OBVIOUS
<1>1. wire \in Seq(Messages) /\ orders \in Seq(Orders) /\ Len(wire) = 0 /\ Len(orders) = 0
  BY DEF Init
<1>2. Types
  BY <1>1, NewFine DEF Init, Types
<1>3. Blank /\ Decisions
  BY <1>1 DEF Init, Blank, Decisions, Ordered
<1>4. Navigated(engine) /\ Fine(view, engine) /\ Bare(view, engine)
  BY NewFine DEF Init
<1> QED BY <1>1, <1>2, <1>3, <1>4 DEF WInv, Incoming

\* The inductive invariant of the sign-on window holds in every state: what the
\* adapter keeps follows the engine's navigations, and every decision under way is
\* the broker's.
THEOREM WindowInvariant == Spec => []WInv
<1>1. WInv /\ [Next]_vars => WInv'
  <2> SUFFICES ASSUME WInv, [Next]_vars PROVE WInv'
    OBVIOUS
  <2>1. CASE Next
    BY <2>1, BrokerKeeps, CallbacksKeep, OpeningKeeps, WritingKeeps, ReadsKeeps, EndingKeeps DEF Next, Window, Moved
  <2>2. CASE UNCHANGED vars
    <3>1. Types' /\ Blank' /\ Decisions'
      BY <2>2 DEF vars, historyVars, WInv, Types, Blank, Decisions, Ordered
    <3>2. platform' = platform /\ Navigated(engine') /\ Fine(view', engine') /\ Bare(view', engine') /\ Incoming(wire')
      BY <2>2 DEF vars, WInv
    <3> QED BY <3>1, <3>2, Carried DEF WInv
  <2> QED BY <2>1, <2>2
<1> QED BY WInvInit, <1>1, PTL DEF Spec

\* A page that leaves the window is of the expected origin, and of one navigation
\* unless the engine has reported late on another one past the adapter, for any
\* number of navigations (current of the adapters).
THEOREM WindowPagesWhole == Spec => []PagesWhole
<1>1. WInv => PagesWhole
  <2> SUFFICES ASSUME WInv, NEW p \in Pages(view.outbox) \cup Pages(wire)
               PROVE  p.uri = "vpn" /\ (p.stray \subseteq KeptOut => p.headers = 0 \/ p.document \in {0, p.headers})
    BY DEF PagesWhole
  <2>1. view.outbox \in Seq(Messages) /\ wire \in Seq(Messages)
    BY DEF WInv, Types, Views
  <2>2. DOMAIN view.outbox = 1..Len(view.outbox) /\ DOMAIN wire = 1..Len(wire)
    BY <2>1
  <2>3. WholePage(p) /\ p.kind = "Page"
    BY <2>2 DEF WInv, Fine, Outgoing, Incoming, Pages
  <2> QED BY <2>3 DEF WholePage
<1> QED BY WindowInvariant, <1>1, PTL

\* A certificate is accepted only if the broker has decided so for this very
\* question (certificate_decision of the adapters).
THEOREM WindowExceptionsApproved == Spec => []ExceptionsApproved
<1>1. WInv => ExceptionsApproved
  BY DEF WInv, Decisions, ExceptionsApproved
<1> QED BY WindowInvariant, <1>1, PTL

----------------------------------------------------------------------------
(* The refinement of SignOnWindow                                          *)

\* Nothing in s is Ready.
Begun(s) == \A k \in 1..Len(s) : s[k].kind # "Ready"

\* The kinds of a sequence of messages change with it.
LEMMA KindsFollow ==
  ASSUME NEW S, NEW s \in Seq(S)
  PROVE  /\ Len(Kinds(s)) = Len(s) /\ (s = <<>> <=> Kinds(s) = <<>>)
         /\ s # <<>> => Head(Kinds(s)) = Head(s).kind /\ Kinds(Tail(s)) = Tail(Kinds(s))
         /\ \A m \in S : Kinds(Append(s, m)) = Append(Kinds(s), m.kind)
<1> DEFINE T == {m.kind : m \in S}
<1>1. Kinds(s) \in Seq(T) /\ Len(Kinds(s)) = Len(s) /\ \A k \in 1..Len(s) : Kinds(s)[k] = s[k].kind
  BY DEF Kinds
<1>2. s = <<>> <=> Kinds(s) = <<>>
  BY <1>1
<1>3. ASSUME s # <<>> PROVE Head(Kinds(s)) = Head(s).kind
  BY <1>1, <1>3
<1>4. ASSUME s # <<>> PROVE Kinds(Tail(s)) = Tail(Kinds(s))
  <2>1. Tail(s) \in Seq(S) /\ Len(Tail(s)) = Len(s) - 1 /\ \A k \in 1..Len(Tail(s)) : Tail(s)[k] = s[k + 1]
    BY <1>4, Rest
  <2>2. Kinds(Tail(s)) \in Seq(T) /\ Len(Kinds(Tail(s))) = Len(s) - 1
        /\ \A k \in 1..(Len(s) - 1) : Kinds(Tail(s))[k] = Tail(s)[k].kind
    BY <2>1 DEF Kinds
  <2>3. Kinds(s) # <<>>
    BY <1>2, <1>4
  <2>4. /\ Tail(Kinds(s)) \in Seq(T) /\ Len(Tail(Kinds(s))) = Len(s) - 1
        /\ \A k \in 1..(Len(s) - 1) : k + 1 \in 1..Len(s) /\ Tail(Kinds(s))[k] = Kinds(s)[k + 1]
    BY <1>1, <2>3, Rest
  <2> HIDE DEF T
  <2> QED BY <1>1, <2>1, <2>2, <2>4
<1>5. ASSUME NEW m \in S PROVE Kinds(Append(s, m)) = Append(Kinds(s), m.kind)
  <2>1. /\ Append(s, m) \in Seq(S) /\ Len(Append(s, m)) = Len(s) + 1
        /\ \A k \in 1..Len(s) : Append(s, m)[k] = s[k]
        /\ Append(s, m)[Len(s) + 1] = m
    OBVIOUS
  <2>2. Kinds(Append(s, m)) \in Seq(T) /\ Len(Kinds(Append(s, m))) = Len(s) + 1
        /\ \A k \in 1..(Len(s) + 1) : Kinds(Append(s, m))[k] = Append(s, m)[k].kind
    BY <2>1 DEF Kinds
  <2>3. m.kind \in T
    OBVIOUS
  <2>4. /\ Append(Kinds(s), m.kind) \in Seq(T) /\ Len(Append(Kinds(s), m.kind)) = Len(s) + 1
        /\ \A k \in 1..Len(s) : Append(Kinds(s), m.kind)[k] = Kinds(s)[k]
        /\ Append(Kinds(s), m.kind)[Len(s) + 1] = m.kind
    BY <1>1, <2>3
  <2> HIDE DEF T
  <2> QED BY <1>1, <2>1, <2>2, <2>4
<1> QED BY <1>1, <1>2, <1>3, <1>4, <1>5

\* What the contract sees of the process.
LEMMA PhaseIs ==
  ASSUME view \in Views
  PROVE  /\ proc # "running" => Phase = proc
         /\ proc = "running" => Phase = IF ~view.attached THEN "broken"
                                       ELSE IF Begun(view.outbox) THEN "ready" ELSE "running"
<1>1. view.outbox \in Seq(Messages)
  BY DEF Views
<1>2. DOMAIN view.outbox = 1..Len(view.outbox)
  BY <1>1
<1> QED BY <1>2 DEF Phase, Begun

\* The same in the next state.
LEMMA PhaseIsNext ==
  ASSUME view' \in Views
  PROVE  /\ proc' # "running" => Phase' = proc'
         /\ proc' = "running" => Phase' = IF ~view'.attached THEN "broken"
                                         ELSE IF Begun(view'.outbox) THEN "ready" ELSE "running"
<1>1. view'.outbox \in Seq(Messages)
  BY DEF Views
<1>2. DOMAIN view'.outbox = 1..Len(view'.outbox)
  BY <1>1
<1> QED BY <1>2 DEF Phase, Begun

\* A callback neither sends Ready nor takes it back.
LEMMA AddsBegun ==
  ASSUME NEW v \in Views, NEW w \in Views, Adds(v, w)
  PROVE  Begun(w.outbox) <=> Begun(v.outbox)
<1>1. v.outbox \in Seq(Messages)
  BY DEF Views
<1>2. CASE w.outbox = v.outbox
  BY <1>2
<1>3. ASSUME NEW m \in Messages, m.kind # "Ready", w.outbox = Append(v.outbox, m)
      PROVE  Begun(w.outbox) <=> Begun(v.outbox)
  <2>1. /\ Len(w.outbox) = Len(v.outbox) + 1 /\ w.outbox[Len(v.outbox) + 1] = m
        /\ \A k \in 1..Len(v.outbox) : w.outbox[k] = v.outbox[k]
    BY <1>1, <1>3
  <2> QED BY <1>1, <1>3, <2>1 DEF Begun
<1> QED BY <1>2, <1>3 DEF Adds

\* The contract sees nothing of a callback.
LEMMA Unseen ==
  ASSUME WInv, WInv', Adds(view, view'), UNCHANGED <<platform, proc, renderers, wire, orders, directory>>
  PROVE  UNCHANGED Contract!windowVars
<1>1. view \in Views /\ view' \in Views /\ view.outbox \in Seq(Messages)
  BY DEF WInv, Types, Views
<1>2. Begun(view'.outbox) <=> Begun(view.outbox)
  BY <1>1, AddsBegun
<1>3. Phase' = Phase
  BY <1>1, <1>2, PhaseIs, PhaseIsNext DEF Adds
<1>4. (Kinds(wire))' = Kinds(wire) /\ (Kinds(orders))' = Kinds(orders)
  BY DEF Kinds
<1> QED BY <1>3, <1>4 DEF Contract!windowVars

\* The next kinds are the kinds of what is there next.
LEMMA KindsNext ==
  /\ (Kinds(wire))' = Kinds(wire') /\ (Kinds(orders))' = Kinds(orders')
  /\ UNCHANGED wire => (Kinds(wire))' = Kinds(wire)
  /\ UNCHANGED orders => (Kinds(orders))' = Kinds(orders)
BY DEF Kinds

\* What every step of the process is measured by.
LEMMA Measured ==
  ASSUME WInv, WInv'
  PROVE  /\ view \in Views /\ view' \in Views /\ wire \in Seq(Messages) /\ orders \in Seq(Orders)
         /\ view.outbox \in Seq(Messages) /\ Outgoing(view.outbox)
         /\ proc # "running" => Phase = proc
         /\ ~view.attached => \A k \in 1..Len(view.outbox) : view.outbox[k].kind = "Failed"
         /\ proc = "running" => Phase = IF ~view.attached THEN "broken"
                                       ELSE IF Begun(view.outbox) THEN "ready" ELSE "running"
         /\ proc' # "running" => Phase' = proc'
         /\ proc' = "running" => Phase' = IF ~view'.attached THEN "broken"
                                         ELSE IF Begun(view'.outbox) THEN "ready" ELSE "running"
<1>1. view \in Views /\ view' \in Views /\ wire \in Seq(Messages) /\ orders \in Seq(Orders)
  BY DEF WInv, Types
<1>2. view.outbox \in Seq(Messages) /\ Outgoing(view.outbox)
  BY DEF WInv, Types, Views, Fine
<1>3. ~view.attached => \A k \in 1..Len(view.outbox) : view.outbox[k].kind = "Failed"
  BY DEF WInv, Bare
<1> QED BY <1>1, <1>2, <1>3, PhaseIs, PhaseIsNext

\* The opening of the process.
LEMMA ContractOpens ==
  ASSUME WInv, WInv', Connects \/ Opens \/ Attaches \/ RenderersExit
  PROVE  Contract!WindowNext
<1>1. CASE Connects
  <2>1. Phase = "starting" /\ Phase' = "hello" /\ (Kinds(wire))' = Kinds(wire) /\ (Kinds(orders))' = Kinds(orders)
    BY <1>1, Measured, KindsNext DEF Connects
  <2> QED BY <1>1, <2>1 DEF Connects, Contract!WindowNext, Contract!Connects
<1>2. CASE Opens
  <2>1. Phase = "hello" /\ (Kinds(wire))' = Kinds(wire) /\ UNCHANGED <<platform, renderers>>
    BY <1>2, Measured, KindsNext DEF Opens
  <2>2. CASE Exits /\ UNCHANGED directory
    <3>1. Phase' = "gone" /\ (Kinds(orders))' = <<>>
      BY <2>2, Measured, KindsNext DEF Exits, Kinds
    <3> QED BY <2>1, <2>2, <3>1 DEF Contract!WindowNext, Contract!Opens, Contract!Exits
  <2>3. CASE /\ orders # <<>> /\ Head(orders).kind = "Open" /\ orders' = Tail(orders)
             /\ directory = "none" /\ proc' = "open" /\ directory' = "present"
    <3>1. Kinds(orders) # <<>> /\ Head(Kinds(orders)) = "Open" /\ (Kinds(orders))' = Tail(Kinds(orders))
      BY <2>3, Measured, KindsNext, KindsFollow
    <3>2. Phase' = "open"
      BY <2>3, Measured
    <3> QED BY <2>1, <2>3, <3>1, <3>2 DEF Contract!WindowNext, Contract!Opens
  <2> QED BY <1>2, <2>2, <2>3 DEF Opens
<1>3. CASE Attaches
  <2>1. Phase = "open" /\ (Kinds(wire))' = Kinds(wire) /\ (Kinds(orders))' = Kinds(orders)
    BY <1>3, Measured, KindsNext DEF Attaches
  <2>2. CASE proc' \in {"leaving", "removing"}
    <3>1. Phase' = proc'
      BY <2>2, Measured
    <3> QED BY <1>3, <2>1, <2>2, <3>1 DEF Attaches, Contract!WindowNext, Contract!Attaches
  <2>3. CASE proc' = "running" /\ view' \in Attached
    <3>1. CASE view' = Ready
      <4>1. view'.outbox = Append(<<>>, Message("Ready", 0)) /\ view'.attached
        BY <3>1 DEF Ready, Post, NewView
      <4>2. ~Begun(view'.outbox)
        BY <4>1 DEF Begun, Message
      <4>3. Phase' = "running"
        BY <2>3, <4>1, <4>2, Measured
      <4> QED BY <1>3, <2>1, <2>3, <4>3 DEF Attaches, Contract!WindowNext, Contract!Attaches
    <3>2. CASE ~view'.attached
      <4>1. Phase' = "broken"
        BY <2>3, <3>2, Measured
      <4> QED BY <1>3, <2>1, <2>3, <4>1 DEF Attaches, Contract!WindowNext, Contract!Attaches
    <3> QED BY <2>3, <3>1, <3>2, AttachFine
  <2> QED BY <1>3, <2>2, <2>3 DEF Attaches
<1>4. CASE RenderersExit
  <2>1. Phase = "gone" /\ Phase' = Phase /\ (Kinds(wire))' = Kinds(wire) /\ (Kinds(orders))' = Kinds(orders)
    BY <1>4, Measured, KindsNext DEF RenderersExit
  <2> QED BY <1>4, <2>1 DEF RenderersExit, Contract!WindowNext, Contract!RenderersExit
<1> QED BY <1>1, <1>2, <1>3, <1>4

\* Ready is the first message that is written, of a window that was attached.
LEMMA ContractWrites ==
  ASSUME WInv, WInv', Writes
  PROVE  Contract!WindowNext
<1> DEFINE m == Head(view.outbox)
<1>1. /\ proc = "running" /\ proc' = "running" /\ view.outbox # <<>> /\ Len(wire) < WireLimit
      /\ wire' = Append(wire, m) /\ view' = [view EXCEPT !.outbox = Tail(view.outbox)]
      /\ UNCHANGED <<platform, renderers, orders, directory>>
  BY DEF Writes, Running
<1>2. /\ m \in Messages /\ m = view.outbox[1] /\ 1 \in 1..Len(view.outbox)
      /\ \A k \in 1..Len(Tail(view.outbox)) : k + 1 \in 1..Len(view.outbox) /\ Tail(view.outbox)[k] = view.outbox[k + 1]
  BY <1>1, Measured, Rest
<1>3. /\ (Kinds(wire))' = Append(Kinds(wire), m.kind) /\ (Kinds(orders))' = Kinds(orders)
      /\ Len(Kinds(wire)) < WireLimit
  BY <1>1, <1>2, Measured, KindsNext, KindsFollow
<1>4. view'.outbox = Tail(view.outbox) /\ view'.attached = view.attached
  BY <1>1, Measured DEF Views
<1>5. Begun(view'.outbox)
  BY <1>2, <1>4, Measured DEF Begun, Outgoing
<1>6. view.attached => Phase' = "ready"
  BY <1>1, <1>4, <1>5, Measured
<1>7. CASE view.attached /\ m.kind = "Ready"
  <2>1. ~Begun(view.outbox)
    BY <1>2, <1>7 DEF Begun
  <2>2. Phase = "running"
    BY <1>1, <1>7, <2>1, Measured
  <2> QED BY <1>1, <1>3, <1>6, <1>7, <2>2 DEF Contract!WindowNext, Contract!GetsReady, Contract!Room
<1>8. CASE view.attached /\ m.kind # "Ready"
  <2>1. Begun(view.outbox)
    <3> SUFFICES ASSUME NEW k \in 1..Len(view.outbox), view.outbox[k].kind = "Ready" PROVE FALSE
      BY DEF Begun
    <3>1. k = 1
      BY Measured DEF Outgoing
    <3> QED BY <1>2, <1>8, <3>1
  <2>2. Phase = "ready"
    BY <1>1, <1>8, <2>1, Measured
  <2>3. m.kind \in {"Page", "Certificate", "Failed"}
    BY <1>2, <1>8, Measured DEF Outgoing, Messages, Texts, PageSet
  <2>4. PICK kind \in {"Page", "Certificate", "Failed"} : (Kinds(wire))' = Append(Kinds(wire), kind)
    BY <1>3, <2>3
  <2> QED BY <1>1, <1>3, <1>6, <1>8, <2>2, <2>4 DEF Contract!WindowNext, Contract!Says, Contract!Room
<1>9. CASE ~view.attached
  <2>1. m.kind = "Failed" /\ Phase = "broken" /\ Phase' = "broken"
    BY <1>1, <1>2, <1>4, <1>9, Measured
  <2> QED BY <1>1, <1>3, <2>1 DEF Contract!WindowNext, Contract!Says, Contract!Room
<1> QED BY <1>7, <1>8, <1>9

\* One last word, or none.
LEMMA ContractLeaves ==
  ASSUME WInv, WInv', Leaves
  PROVE  Contract!WindowNext
<1>1. /\ proc = "leaving" /\ proc' = "removing" /\ UNCHANGED <<platform, renderers, orders, directory>>
      /\ wire' = wire \/ (Len(wire) < WireLimit /\ wire' = wire \o LastWord)
  BY DEF Leaves
<1>2. Phase = "leaving" /\ Phase' = "removing" /\ (Kinds(orders))' = Kinds(orders)
  BY <1>1, Measured, KindsNext
<1>3. LastWord \in {<<>>, <<Message("Failed", 0)>>, <<Message("Closed", 0)>>}
  BY DEF LastWord
<1>4. /\ Message("Failed", 0) \in Messages /\ Message("Failed", 0).kind = "Failed"
      /\ Message("Closed", 0) \in Messages /\ Message("Closed", 0).kind = "Closed"
  BY DEF Message, Messages, Texts
<1>5. wire \o <<>> = wire /\ \A m \in Messages : wire \o <<m>> = Append(wire, m)
  BY Measured
<1>6. CASE wire' = wire
  <2>1. (Kinds(wire))' = Kinds(wire)
    BY <1>6, KindsNext
  <2> QED BY <1>1, <1>2, <2>1 DEF Contract!WindowNext, Contract!Leaves
<1>7. ASSUME NEW m \in Messages, m.kind \in {"Closed", "Failed"}, Len(wire) < WireLimit, wire' = Append(wire, m)
      PROVE  Contract!WindowNext
  <2>1. (Kinds(wire))' = Append(Kinds(wire), m.kind) /\ Len(Kinds(wire)) < WireLimit
    BY <1>7, Measured, KindsNext, KindsFollow
  <2> QED BY <1>1, <1>2, <1>7, <2>1 DEF Contract!WindowNext, Contract!Leaves, Contract!Room
<1> QED BY <1>1, <1>3, <1>4, <1>5, <1>6, <1>7

\* Nothing the window hears makes it say anything, but Close.
LEMMA ContractReads ==
  ASSUME WInv, WInv', Reads
  PROVE  Contract!WindowNext
<1>1. /\ proc = "running" /\ orders # <<>> /\ orders' = Tail(orders)
      /\ UNCHANGED <<platform, renderers, wire, directory>>
  BY DEF Reads, Running
<1>2. /\ Kinds(orders) # <<>> /\ Head(Kinds(orders)) = Head(orders).kind /\ (Kinds(orders))' = Tail(Kinds(orders))
      /\ (Kinds(wire))' = Kinds(wire)
  BY <1>1, Measured, KindsNext, KindsFollow
<1>3. Phase \in {"running", "ready", "broken"}
  BY <1>1, Measured
<1>4. CASE Head(orders).kind = "Close"
  <2>1. proc' = "leaving"
    BY <1>4 DEF Reads, Stop
  <2>2. Phase' = "leaving"
    BY <2>1, Measured
  <2> QED BY <1>1, <1>2, <1>3, <1>4, <2>2 DEF Contract!WindowNext, Contract!Reads
<1>5. CASE Head(orders).kind # "Close"
  <2>1. proc' = proc
    BY <1>5 DEF Reads
  <2>2. Adds(view, view')
    BY <2>1, ReadsKeeps
  <2>3. Begun(view'.outbox) <=> Begun(view.outbox)
    BY <2>2, AddsBegun, Measured
  <2>4. Phase' = Phase
    BY <1>1, <2>1, <2>2, <2>3, Measured DEF Adds
  <2> QED BY <1>1, <1>2, <1>3, <1>5, <2>4 DEF Contract!WindowNext, Contract!Reads
<1> QED BY <1>4, <1>5

\* The end of the process.
LEMMA ContractEnds ==
  ASSUME WInv, WInv', WindowCloses \/ RemovesOwn \/ WindowCrashes
  PROVE  Contract!WindowNext
<1>1. CASE WindowCloses
  <2>1. /\ proc = "running" /\ proc' = "leaving" /\ UNCHANGED <<platform, renderers, wire, orders, directory>>
    BY <1>1 DEF WindowCloses, Stop, Running
  <2>2. Phase \in {"running", "ready", "broken"} /\ Phase' = "leaving" /\ (Kinds(wire))' = Kinds(wire) /\ (Kinds(orders))' = Kinds(orders)
    BY <2>1, Measured, KindsNext
  <2> QED BY <2>1, <2>2 DEF Contract!WindowNext, Contract!Shuts
<1>2. ASSUME Exits PROVE Phase' = "gone" /\ (Kinds(orders))' = <<>>
  BY <1>2, Measured, KindsNext DEF Exits, Kinds
<1>3. CASE RemovesOwn
  <2>1. Phase = "removing" /\ (Kinds(wire))' = Kinds(wire)
    BY <1>3, Measured, KindsNext DEF RemovesOwn
  <2> QED BY <1>2, <1>3, <2>1 DEF RemovesOwn, Contract!WindowNext, Contract!RemovesOwn, Contract!Exits
<1>4. CASE WindowCrashes
  <2>1. Phase \in Contract!Alive /\ (Kinds(wire))' = Kinds(wire)
    BY <1>4, Measured, KindsNext DEF WindowCrashes, Contract!Alive
  <2> QED BY <1>2, <1>4, <2>1 DEF WindowCrashes, Contract!WindowNext, Contract!Crashes, Contract!Exits
<1> QED BY <1>1, <1>3, <1>4

\* The broker does what the contract lets it do.
LEMMA ContractBroker ==
  ASSUME WInv, WInv', Broker
  PROVE  Contract!ClientNext
<1>1. CASE BrokerStarts
  <2>1. Phase = "none" /\ Phase' = "starting" /\ (Kinds(wire))' = Kinds(wire) /\ (Kinds(orders))' = Kinds(orders)
    BY <1>1, Measured, KindsNext DEF BrokerStarts
  <2> QED BY <1>1, <2>1 DEF BrokerStarts, Contract!ClientNext, Contract!Starts
<1>2. ASSUME UNCHANGED <<proc, view>> PROVE Phase' = Phase
  BY <1>2, Measured
<1>3. CASE BrokerOrders
  <2>1. /\ Message("Open", 0) \in Orders /\ Message("Open", 0).kind = "Open"
        /\ Message("Close", 0) \in Orders /\ Message("Close", 0).kind = "Close"
    BY DEF Message, Orders
  <2>2. proc \in {"hello", "open", "running", "leaving", "removing"} /\ UNCHANGED <<platform, proc, view, renderers, wire, directory>>
    BY <1>3 DEF BrokerOrders
  <2>3. Phase \in {"hello", "open", "running", "ready", "broken", "leaving", "removing"} /\ Phase' = Phase /\ (Kinds(wire))' = Kinds(wire)
    BY <1>2, <2>2, Measured, KindsNext
  <2>4. <<Message("Open", 0)>> = Append(<<>>, Message("Open", 0))
    OBVIOUS
  <2>5. orders' \in {Append(orders, Message("Open", 0)), Append(orders, Message("Close", 0))}
    BY <1>3, <2>4 DEF BrokerOrders
  <2>6. (Kinds(orders))' \in {Append(Kinds(orders), "Open"), Append(Kinds(orders), "Close")}
    <3>1. ASSUME NEW m \in Orders, orders' = Append(orders, m) PROVE (Kinds(orders))' = Append(Kinds(orders), m.kind)
      BY <3>1, Measured, KindsNext, KindsFollow
    <3> QED BY <2>1, <2>5, <3>1
  <2> QED BY <2>2, <2>3, <2>6 DEF Contract!ClientNext, Contract!Orders
<1>4. CASE BrokerHears
  <2>1. wire # <<>> /\ wire' = Tail(wire) /\ UNCHANGED <<platform, proc, renderers, view, directory>>
    BY <1>4 DEF BrokerHears
  <2>2. Kinds(wire) # <<>> /\ Head(Kinds(wire)) = Head(wire).kind /\ (Kinds(wire))' = Tail(Kinds(wire)) /\ Phase' = Phase
        /\ Head(wire) \in Messages
    BY <1>2, <2>1, Measured, KindsNext, KindsFollow, Rest
  <2>3. CASE UNCHANGED orders
    <3>1. (Kinds(orders))' = Kinds(orders)
      BY <2>3, KindsNext
    <3> QED BY <2>1, <2>2, <3>1 DEF Contract!ClientNext, Contract!Hears
  <2>4. ASSUME NEW kind \in {"Accept", "Reject"}, Head(wire).kind = "Certificate",
               orders' = Append(orders, Message(kind, Head(wire).id))
        PROVE  Contract!ClientNext
    <3>1. Message(kind, Head(wire).id) \in Orders /\ Message(kind, Head(wire).id).kind = kind
      BY <2>2, <2>4 DEF Message, Messages, Texts, PageSet, Orders
    <3>2. (Kinds(orders))' = Append(Kinds(orders), kind)
      BY <2>4, <3>1, Measured, KindsNext, KindsFollow
    <3> QED BY <2>1, <2>2, <2>4, <3>2 DEF Contract!ClientNext, Contract!Hears
  <2> QED BY <1>4, <2>3, <2>4 DEF BrokerHears
<1> QED BY <1>1, <1>3, <1>4 DEF Broker

\* The window before it is started is that of the contract.
LEMMA ContractStarts == Init => Contract!WindowInit
<1> SUFFICES ASSUME Init PROVE Contract!WindowInit
  OBVIOUS
<1>1. Kinds(wire) = <<>> /\ Kinds(orders) = <<>> /\ Phase = "none"
  BY DEF Init, Kinds, Phase
<1> QED BY <1>1 DEF Init, Contract!WindowInit

\* The window with its adapters and its web engine implements SignOnWindow, on
\* which the proofs about the client's transactions rest: no page and no question
\* before Ready, nothing but failures of a window that could not be attached,
\* nothing after the last word, and the profile is there before the view is and as
\* long as the view (auth_window.rs run, write_messages).
THEOREM WindowKeepsContract == Spec => KeepsContract
<1>1. WInv /\ WInv' /\ [Next]_vars => [Contract!WindowNext \/ Contract!ClientNext]_(Contract!windowVars)
  <2> SUFFICES ASSUME WInv, WInv', [Next]_vars
               PROVE  [Contract!WindowNext \/ Contract!ClientNext]_(Contract!windowVars)
    OBVIOUS
  <2>1. CASE WebEngine \/ HandlerFails \/ Polls \/ Runs \/ Answers
    BY <2>1, CallbacksKeep, Unseen DEF Moved, engineOthers
  <2>2. CASE UNCHANGED vars
    <3>1. Adds(view, view')
      BY <2>2 DEF vars, Adds
    <3> QED BY <2>2, <3>1, Unseen DEF vars
  <2> QED BY <2>1, <2>2, ContractBroker, ContractOpens, ContractWrites, ContractLeaves, ContractReads, ContractEnds
      DEF Next, Window
<1> QED BY ContractStarts, WindowInvariant, <1>1, PTL DEF Spec, KeepsContract, Contract!WindowSpec

=============================================================================
