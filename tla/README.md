# NetSurf for the reMarkable: specification, model checking and proofs

This directory models the program that runs on the tablet: the reMarkable
surface of `libnsfb` (event queue, input decoder, e-paper refresh), the
framebuffer front end of NetSurf (main loop, scheduler, browser widget), and the
core above it: the fetch layer, the two caches, the loading of HTML documents
and the browser window with its history. The TLA+ is translated from the C;
where a comment, a header or a document disagrees with the code, the model
follows the code and the disagreement is described under *Findings*.

Run everything from this directory, for instance

    tlc -workers 2 -config MCRingBuf.cfg MCRingBuf
    tlapm RmThreadsProofs.tla

`PROJECT.json` lists the components, the runs, the source lines behind every
definition, the hazards and the theorems.

## 1. The system

Three threads share state: NetSurf's **main thread**, the **input thread**
(`input_async_handler`) and the **redraw thread** (`fb_async_redraw`).

    touch/pen/key devices
          | libevdev
    input thread --write--> event queue --timed wait--> main thread
                                                         |  framebuffer_run
                         scheduler <--callbacks/handlers-+-> fbtk redraw
                             |                                 |
                       fetcher_poll                      browser widget
                             |                                 | plotters
                       fetch queue/curl                  claim .. update
                             | callbacks                       |
                       low-level cache                  redraw thread --> e-paper
                             | events
                       high-level cache, contents
                             | messages
                 HTML documents <--> browser window, history <-- user

Everything else in NetSurf runs in the main thread, but not sequentially in the
ordinary sense: layers call each other back in the middle of an operation, and
handlers change the structures their callers are walking.

### Inventory

| Component | State | Operations | Talks to | Hard | What makes it correct |
| --- | --- | --- | --- | --- | --- |
| Event queue, `remarkable/ringbuf.c` | array, capacity, head, tail, used; mutex; condition | init, write (grows), timed wait, free | input thread writes, main thread waits | wake-up against deadline, growth while wrapped, refusal | it is a FIFO queue; nothing is overwritten or lost; waits return |
| Input decoder, `remarkable/input.c` | per-slot contacts, owner of the touch, gesture and drag flags, pen, last pointer | start-up, touch/pen/key event, resynchronisation, shutdown | libevdev in, event queue out | dropped kernel events, refused writes, finger against pen, reused slots | one well-formed mouse: presses and releases alternate, none is stuck, taps stay put |
| Screen refresh, `remarkable/screen.c` | pending box, mutex, run flag, descriptor | initialise, claim, update, redraw thread, finalise | plotters above, e-paper controller below | start-up order, exclusion, rotation, ioctl failure | whatever is drawn is refreshed; never refreshed while drawn |
| Surface glue, `remarkable/remarkable.c` | none | call-through | libnsfb | - | - |
| Plotters, `libnsfb/src/plot` | clip, cursor | fills, lines, bitmaps, glyphs, copy | claim and update | rotation of coordinates, overlapping copies | a pixel is written where the refresh says it is |
| Main loop and scheduler, `framebuffer/gui.c`, `schedule.c` | list of callbacks, clock sample, walk position | schedule, remove, run, wait | every layer schedules | list changed while walked, callbacks without delay, stale clock | timers fire, once, not starving input |
| Browser widget, `framebuffer/gui.c` | scroll, pending pan, pending area | scroll, invalidate, redraw, pan | toolkit, core, plotters | order of pan and damage, document changed meanwhile | the window shows the document |
| Toolkit and on-screen keyboard, `framebuffer/fbtk` | widget tree, focus, grab, redraw flags | create, map, destroy, click, key, redraw | main loop, gui.c | callbacks that destroy or unmap what is walked | no request lost, no dangling focus or grab |
| Fetch queue, `content/fetch.c` | queue ring, fetch ring, flags of a fetch | start, dispatch, abort, poll, free, message | cache above, fetchers below | starts and aborts inside callbacks, limits | every fetch ends, its owner is told |
| Curl fetcher, `content/fetchers/curl.c` | per-fetch flags, interlock | start, stop, abort, poll, callbacks, done | libcurl, fetch queue | deferred aborts, late results, failed polls | no message after the end; nothing freed under curl |
| Other fetchers, `fetchers/data.c`, `file`, `about`, `resource` | ring of their own | setup, start, poll, abort | fetch queue | removal while walked | as above |
| Low-level cache, `content/llcache.c` | objects, users, candidates, fetch state | retrieve, release, fetch events, catch-up, clean, persist | fetch queue, disc cache | users removed in callbacks, object replaced by its candidate | nobody is forgotten, ahead of its object or told a part is the whole; candidates are kept |
| High-level cache and content, `hlcache.c`, `content.c` | handles, retrieval contexts, status, users | retrieve, migrate, catch up, abort, release, broadcast, clean | low-level cache, windows, documents | a shared content that one user aborts, users that come late, cleaning | a content is shared when it may be; users told each thing once and in order; nobody loses data by another's abort |
| HTML documents, `handlers/html/html.c`, `object.c`, `css.c` | status, count of what is awaited, sheets, objects, nested documents | process, convert, begin, boxes done, object events, refresh, stop, close | high-level cache below and above, scheduler | nested documents stopped while their page goes through them, everything arriving in any order | the count is what is awaited; a document ends; only laid-out documents are shown |
| Disc cache, `fs_backing_store.c` | entries, block files, totals | store, fetch, release, invalidate, evict | low-level cache | restart, partial writes, eviction of what is in use | what is read is what was stored |
| Image cache, `handlers/image/image_cache.c` | list of entries, sizes | add, find, age, remove | scheduler, images | limits, content removed while drawn | totals match the list |
| URL database, `urldb.c` | hosts, paths, cookies | add, find, save, load | browser | none concurrent | tree bookkeeping |
| Browser window and history, `desktop/browser_window.c`, `browser_history.c` | loading and current content, their parameters, history entries, busy indicator, refresh | navigate, stop, reload, back, forward, query pages, content events | high-level cache, user, scheduler | navigation during load, query pages, late refreshes | the callback's assertions hold; parameters, refresh and busy indicator belong to what is shown |
| HTML layout, CSS and image decoding, JavaScript, other front ends | - | - | - | - | see *Not modelled* |

## 2. Modules

| Module | Models | Depends on |
| --- | --- | --- |
| `EventQueue` | abstract: what the event queue promises | |
| `RingBuf` | `ringbuf.c` | refines `EventQueue` |
| `RmInput` | `input.c`, with libevdev and the kernel as environment | the queue as a write that is kept or refused |
| `RmInputProofs` | theorems about `RmInput` | `RmInput`, TLAPS |
| `RmScreen` | `screen.c`, with the plotters as drawing somewhere in a claimed box | |
| `RmThreadsProofs` | theorems about the two background threads: `RingBuf` and `RmScreen` | both, TLAPS |
| `Timers` | abstract: one-shot timers | |
| `MainLoop` | `schedule.c`, `framebuffer_run` | refines `Timers` |
| `FbWindow` | scrolling, invalidation and redraw in `gui.c` | |
| `FrontEndProofs` | theorems about the front end: `FbWindow` and `MainLoop` | both, TLAPS |
| `Fetch` | `fetch.c`, the control of `curl.c`, the fetch callback of `llcache.c` | |
| `FetchProofs` | theorems about `Fetch` | `Fetch`, TLAPS |
| `LlCache` | `llcache.c`: objects, users, candidates, catch-up | |
| `LlCacheProofs` | theorems about `LlCache` | `LlCache`, TLAPS |
| `ContentUser` | abstract: what the user of a handle is promised | |
| `HlCache` | `hlcache.c` and the status of `content.c` | refines `ContentUser`; `LlCache` reduced to what contexts and contents see of it |
| `HlCacheProofs` | theorems about `HlCache`, its refinement of `ContentUser` too | `HlCache`, TLAPS |
| `HtmlLoad` | loading in `html.c`, `object.c`, `css.c` | contents as `HlCache` has them |
| `HtmlLoadProofs` | theorems about `HtmlLoad` | `HtmlLoad`, TLAPS |
| `BrowserWindow` | `browser_window.c`, `browser_history.c` | its handles do what `ContentUser` promises |
| `BrowserWindowProofs` | theorems about `BrowserWindow` | `BrowserWindow`, TLAPS |
| `MC*` | an instance of each for TLC | |

How they compose: `RingBuf` implements `EventQueue`, which is the queue that
`RmInput` writes to, one write at a time; `MainLoop` implements `Timers`, on
which `Fetch`, `HtmlLoad` and `BrowserWindow` rely for what they schedule; and
`HlCache` implements `ContentUser`, whose `Beginnings` are exactly the messages
that the handles of `BrowserWindow` may give. A window is therefore checked
against every cache that keeps the promise, and the cache is shown to be one.

Each module declares its parameters as CONSTANTS with a named ASSUME. Operators
marked `\* MUTANT:` are alternatives, each a plausible slip in the definition
below it: putting one in the place of the definition makes TLC report the
property that guards it. They are in no specification.

### RingBuf
A call is a thread moving through labels: lock, check (and grow), store, signal
and unlock for a write; lock, check, sleep, wake or expire, relock, take or give
up for a wait. `ready` is the set of sleepers of the condition variable,
`mutex` its owner. Growth copies the unread events to the front of an array of
twice the size (`Grown`), is refused where the size in bytes would wrap
`SIZE_MAX`, and may fail at any time (`malloc`). Spurious wake-ups are allowed
as POSIX does. `EventQueue` is linearizability: a write or a wait takes effect
at one instant between call and return. The refinement mapping reads the unread
slots from `tail` on as a sequence.

### RmInput
Slots, owner, gesture, drag and pen are the fields of the two state structs. An
event is a record; its X and Y are one position, since the code never decides
between the axes except in the drag threshold, which is a distance either way.
The environment sends frames: fingers land, slide, lift and are replaced in the
same slot, the pen touches and leaves, and the kernel's buffer of either device
overflows, which leaves SYN_DROPPED in the place of what was unread. After an
overflow libevdev replays the difference: of the touch screen in one frame or in
two (`SyncEvents`), of the pen as one (`PenSyncEvents`). A read may fail instead
(`rc < 0`), and the thread goes on with the other device (`TouchFails`,
`PenFails`). The queue may refuse any write; `kept` is the subset it accepted.
The stream as its reader sees it (`depth`, `shown`) is compared to the decoder's
own idea. Two events that must not be torn apart in the code are one action: a
frame is decoded whole, as `input_touch_frame` does.

### RmScreen
The panel is a grid of cells. A cell is stale from when it is drawn until a
refresh that covers it is sent. `Physical` is `get_xy_loc` of the 16-bit plotter
and `UpdateRect` the rectangle handed to the controller, in both orientations;
that they agree is a lemma (`RefreshIsTouched`). The four steps of start-up are
separate actions because the redraw thread starts before the last three, and
`pthread_mutex_init` may hit a mutex the thread already holds (`broken`).
`close`, `munmap` and the ioctl may fail.

### MainLoop
One action per iteration of the walk of `schedule_run`; while a callback or an
event handler runs it may schedule, reschedule or cancel anything, and the
clock may tick before any step. `Timers` maps the list to a function from
callbacks to times (`due`) and says who is being called (`client`): a callback,
the handler of an event, or nobody. A timer goes without a call only while the
callback or the handler that clears it is being called, and a callback is called
only when it is overdue and was not cleared; so an early call, a second one, one
after a clear, or a timer that is dropped, is no step of `Timers`. A timer is set
for the clock of that moment or later; `AsRequested` adds that `schedule` sets it
for exactly as much later as was asked. The clock is `gettimeofday` that never
goes back.

### FbWindow
One action per handler. A cell is stale while it does not show the document at
the present scroll position; `Copied` moves staleness as `nsfb_plot_copy` moves
pixels. `Redraw` is `fb_browser_window_redraw` with `fb_pan` and `fb_redraw` in
one: nothing else runs in between. With the on-screen keyboard up the pan
redraws everything. `moved` records that a pan moved pixels while damage was
pending, the one case in which damage is lost (see *Findings*).

### Fetch
A poll is a walk over labels: dispatch, `perform` (libcurl works and calls
back), `results` (each finished transfer goes through `fetch_curl_done`). In a
callback the cache may start and abort any fetch; while `inside_curl` is set a
start is refused and put back in the queue, and an abort only marks the
transfer. Dispatch is a function of queue and ring (`DispatchedUpTo`), with the
one start that may fail chosen freely. libcurl is the environment: headers
before data, a result when it likes, a write error once a callback has refused.
Of a message, only what it makes of the fetch counts: more to come, the end, or
an end by which the cache itself aborts (redirect, not modified,
authentication). A retry after a timeout is `llcache_fetch_timeout`.
Two steps end in `pc = "crashed"`, where the code calls `fetch_abort` or
`fetch_http_code` for no fetch or for one that has left its ring: the
properties say explicitly that they stop there.

### LlCache
Every handler of the cache is an action: what clients may call (retrieve,
release, abort, clone, force stream, invalidate), what a fetcher sends, cleaning
and the passage of time. Clients are called back in the middle of a pass, and
"can do whatever they like from within their callback handlers"; so a pass of
`llcache_catch_up_all_users`, or of an event sent to the users of one object, is
a walk with one step for each callback, and client calls are enabled between
walks and inside a callback. `walk.seen` is the state the code read before the
callback, `walk.doomed` is `queued_for_delete`, and `Tomb` stands for the record
that stays in a list when its handle moves to a snapshot. Visits with nothing to
tell change nothing and are skipped. An object's cache control data are four
values, since the code only asks whether it has any, whether there is a
lifetime left, and whether it must be validated. Progress and certificates are
passed on without a change and are left out; clients answer the events that are
sent, rather than caught up, with OK.

The walk depends on the lists it is in: an object that `force_stream` moves to
the uncached list takes the walk with it, past the rest of the cached objects,
and a callback that fails ends the walk through the users of its object. The
users that are left out wait for whatever schedules the next pass. `cut` records
that, and `NobodyForgotten` says that nothing else makes a pass miss a user.

### HlCache
A handle is free, waits in a retrieval context, has a content, or has neither
after an abort. `Migrate` is `hlcache_migrate_ctx` with `hlcache_find_content`:
it joins a suitable content and catches up with its status, or makes a new one.
A content is an image (converted at once), a sheet (may wait for imports), a
page (never shared) or unknown. The low-level cache appears as objects that are
fetched, complete, stale, or cut short by an abort; `Snapshots` and `Alone` are
the two ways in which `llcache_handle_abort` treats an object. Users release
their handle inside the callback that reports an error or a download, and at any
other time between two events. `told` is what a user was told since it retrieved
its handle, which is what `ContentUser` speaks of. A page whose conversion fails
gets the status ERROR, or, where the caller of `html_begin_conversion` or of
`html_css_process_link` ignores the failure, only its users are told
(`ErrorIgnored`): they go, and once its source has come the content is `lost`, a
ghost for LOADING and locked for ever. `UnusedGo` excepts those by name. They
would use up the contents of the instance, so a handle is not retrieved and a
page not lost when that would leave no content for the rest (`Room`).

### HtmlLoad
A step is one event (a source, sheet, object or slice of boxes ends; the window
stops, leaves or destroys the page; a refresh comes due) together with all the
callbacks it sets off up the tree of documents, since nothing else runs in
between. `active` is `base.active`; `objs` is what became of each object;
`stage` is what the document waits for next. `<style>` elements that grow while
their first part is being fetched are `modified`. The sheet of documents in
quirks mode is asked for when the source is there, a linked one when the parser
finds it (`Has` says which sheets a document may have). A link that cannot be
fetched, or a document that cannot be converted when its last sheet comes, is
told as an error and sets no status (`Finds`, `Began`); `html_convert` sets it
for its own call (`Failed`). A document without a root element fails after its
boxes without letting go of its objects (the second outcome of `BoxConvertDone`);
all other failures there let go of them. Two constants keep cases out
of the run in which the code's own bookkeeping fails, see *Findings*: `Prompt`
(a refresh that comes before the boxes are made) and `Empty` (a modified
`<style>` without text).

### BrowserWindow
`handles`, `bw` and `history` are the structures of `browser_private.h`; a
function from window to window stands for each C function, and an action is one
call by the user, the scheduler or a content. Query pages ("about:query/...")
are contents like others, except that they do not fail. A ghost field of a
handle remembers `internal_nav` as it was when it was retrieved. A handle has the
URL that was `asked` for, which is in the fetch parameters, and its `url`, which
a redirect changes (`hlcache_handle_get_url`, CONTENT_MSG_REDIRECT; `Redirect`),
and which is what the history and the next reload take. The user acts at any
time. In one case the code loses a handle: Back while a query page is on its way,
or while the page shown still waits for its objects behind one, retrieves without
stopping. The step is in the model; the ghost `barged` records it, nothing is
followed after it, and the properties that do not survive it name it. `forgot`
records that Back gave up the parameters of the page that is shown. Memory does
not run out, so the login handler's failures before it asks for its query page
(browser_window.c:1168-1173, two allocations) are not in the model.

## 3. Runs

Times are for two workers. Every run explores its whole state space.

| Run | Question | Bounds | Result |
| --- | --- | --- | --- |
| `ringbuf` | is the buffer a FIFO queue whose waits return? | one writer, one waiter, as in the program; 2 slots that may double once (`SizeMax` 8, `ElemSize` 2), 2 items | holds |
| `rminput` | does the stream describe one mouse? | 2 slots, 3 tracking ids, 3 places (two within the drag threshold, one beyond), 3 reports, overflows and failed reads together | holds |
| `rmscreen` | is everything drawn refreshed, and never while being drawn? | panel 2 by 3 in landscape, 3 boxes that overlap, touch and cover; ioctl may fail | holds |
| `mainloop` | does the list implement timers? | 2 callbacks, delays negative, 0 and 1 ms, 2 ticks per ms, 4 ticks, polls of 2 ms at most | holds |
| `fbwindow` | is all damage in the pending area? | window 2 by 3, documents 2 by 3 and 3 by 5, row and page scrolls | holds |
| `fetch` | do rings, handles and the cache's pointers stay in step, and does every fetch end? | 3 fetches, two of one host, 2 objects; 2 fetchers, 1 per host | holds |
| `llcache` | do clients see each object whole and in order, whatever they do in their callbacks? | 2 clients, 2 objects at a time, 1 URL, 1 chunk of data, 1 object per candidate, 4 calls by clients, 1 attempt (the default), 1 redirect in a row | holds |
| `hlcache` | do handles and contents agree, is what may be shared shared, and does an abort harm others? | 3 handles, 2 contents and 2 objects at a time (symmetric), 6 requests: an image welcome or not, a page, a sheet in two modes, something unknown; 909 855 states, 2 minutes | holds |
| `hlcache_user` | are users told what they are promised, and do unused contents go? | 2 handles, pages and sheets, no symmetry; 287 998 states, 2.5 minutes | holds |
| `html` | does a page count what it waits for, end, and stop when told? | a page with a speculative and a plain image and a document in it that refreshes itself once and has an image of its own; the page has a default sheet, a linked one and a `<style>`, the document the default one and that of quirks mode; 276 136 states, 2 minutes | holds |
| `browser` | do the callback's assertions hold, and are parameters, refresh and busy indicator those of what is shown? | 4 URLs (one refreshes itself, one goes to another and may be redirected, one is launched, about:blank), 3 handles, 2 history entries; 438 716 states, 1 minute | holds |
| `browser_history` | does an entry keep what was seen of its own page? | as above, without redirects, safety only | violated |

Why the bounds are enough to be interesting:

* `ringbuf`: two slots fill and wrap, growth happens with `tail` at 0 and at 1,
  and the second doubling is refused, so every branch of `ring_buf_write` runs
  with another thread in every label of `ring_buf_wait`. Two items tell order
  apart. Larger buffers and more threads are covered by the proofs.
* `rminput`: two slots are needed for a second finger; ids are given to slots
  in turn, so that a slot sees a second contact; three reports are enough for
  land, replace, lift, and for one of them to be an overflow of either device or
  a failed read, which are counted among them. After a refused write one more
  frame is explored.
* `rmscreen`: the panel is not square and its corners are distinct, so a
  mirrored or transposed rectangle is told from the right one. Other sizes, the
  portrait orientation and other boxes are covered by the proofs.
* `mainloop`: two callbacks are enough to cancel each other and to change the
  list on either side of the walk; sub-millisecond ticks make the rounding of
  the timeout visible. The clock stops at `MaxTime`; the deadline of a wait
  counts as reached there, so that the loop goes on.
* `fbwindow`: pans shorter than, equal to and longer than the window; the state
  space is finite without a bound on the number of steps.
* `llcache`: two clients and two objects are enough for a shared object, a
  candidate and the object that relies on it, a redirect to an object in use and
  a snapshot; four calls let both clients retrieve and then interfere twice, or
  one of them start over. With one URL every retrieval meets the others. Clients
  that answer with an error as well add 0.5 million states and change nothing.
* `hlcache`: with three users two may share a content while the third joins,
  aborts or starts over; two contents and two objects give a clone beside its
  origin and a fresh object beside a stale one. Handles, contents and objects
  are symmetric, which is sound for the invariants that this run checks. Lost
  pages take up contents, and `Room` bounds how many there may be.
* `hlcache_user`: liveness needs the graph without symmetry; pages and sheets
  are the contents that are LOADING, READY and DONE at different times, and two
  users are enough for one to come late and for one to be told by the other's
  content.
* `html`: three levels, so that a message passes through a document that is
  itself awaited; every kind of object and sheet once, since they are counted
  and not compared; each document has some of the sheets, and the proofs cover
  all of them in every document. `MaxRefresh` bounds refreshes by one.
* `browser`: two entries give Back and Forward and a branch; two handles are
  what the window can own (loading and current), and a third one is what Back
  retrieves over them. A page that refreshes itself
  and one that goes elsewhere are both needed: only the first is added to the
  history.
* `fetch`: one host is at its limit while another is not, and two fetches reach
  the overall limit; a fetch of each object can be in every label while the
  other is started, aborted or finished. `NumFetches` bounds starts and retries.

`CHECK_DEADLOCK FALSE` is set where the program stops for good: after the join
or a failed `close` (`rmscreen`), after the input thread has gone (`rminput`),
after quitting (`mainloop`), and where an idle system with its bound used up has
nothing to do (`fbwindow`, `fetch`, `html`, whose next move is the user's).

### What the properties say

* **RingBuf** - `NoLostWakeup` (nobody sleeps beside an event without another
  waiter under way), `ImplementsQueue`, `EveryWaitReturns`.
* **RmInput** - `InputInv` (types, one owner of the button, and `PointerIsShown`:
  a refused move is tried again), `ButtonsAlternate`, `TapStaysPut`,
  `NeverPromoted` (a second finger of a gesture, one with another tracking id in
  the same slot too, never becomes the one that clicks),
  `NoStuckButton`.
* **RmScreen** - `Exclusion`, `DamageCovered`, `ShownOnceStarted`, `JoinReturns`.
* **MainLoop** - `OncePerPass`, `LateByCallbacks` (how late the wait may end),
  `ImplementsTimers` (no callback early, twice, after it was cleared or for a time
  that was not asked for; none dropped, and each that is due called).
* **FbWindow** - `WindowInv` (nothing is queued that no redraw will do),
  `DamageBoxed`, `BroughtUpToDate`.
* **Fetch** - `FetchInv` (the rings, the flags and the handles agree;
  `InHandIsLive`: what curl works on is not freed; `HeldWhileGoing`: an object
  holds exactly its unfinished fetch), `EndsOnce` (an end is told before the
  fetch is freed, and hardly anything after it), `EveryFetchEnds`.
* **LlCache** - `LlCacheInv` (lists and users agree; `CandidatesLive`: a
  candidate is neither freed nor undercounted; `StreamAlone`: data thrown away
  once told have one reader), `NobodyForgotten` (no client that waits lacks an
  event unless a pass is coming), `WholeBody` (a client is told an object is
  done only when it has all of it), `NobodyAhead` (no client is handed to, or
  left with, an object that is behind what it was told). They make an exception
  for an object that was found good as a candidate (`lent`), see *Findings*.
* **HlCache** - `HlCacheInv` (handle and content agree on who uses whom),
  `ConvertedOnce` (what may be shared is not kept twice), `WholeForOthers` (an
  abort takes nothing from another user), `UnusedGo` (an unused content is
  destroyed or used again, unless it is `lost`), `ToldAsPromised` (it implements `ContentUser`).
* **HtmlLoad** - `ReadyIsLaidOut`, `ActiveCounts` (the count is what is awaited,
  no more and no less), `AwaitedIsAlive` (what is awaited will say so),
  `StopsAtOnce`, `Settles` (a page ends as DONE or with an error).
* **BrowserWindow** - `CallbackAsserts` (the assertions of
  `browser_window_callback`, for every handle that may still call it),
  `RefreshIsOwn`, `BusyIsShown`, `ParamsInStep` (the parameters have the URL that
  was asked for, redirected or not), `Rests` (the window does not stay busy,
  unless the user keeps acting). `CallbackAsserts`, `ParamsInStep` and `Rests`
  except what Back does while a query page is on its way (`barged`), see
  *Findings*: that hazard is in the code and the run passes with it. The other
  two hold after it as well.

### Fairness

Every thread that can run does (weak fairness on the steps inside a call). Each
further assumption is named where it is made:

* A mutex that is free again and again is obtained (strong fairness on `Lock`,
  `WaitLock`, `WriteLock`): both background threads sleep between rounds (10 ms
  and 200 ms), so none of them can hold the others off.
* A timed wait ends at its deadline (`WaitExpire`): it is absolute.
* The input thread finds a device empty again and again: it reads faster than a
  digitiser reports.
* Callbacks and handlers return, and time passes (`MainLoop`); the main loop
  redraws when a redraw is pending (`FbWindow`: `framebuffer_run` calls
  `fbtk_redraw` in every turn) and calls `fetcher_poll` when it is scheduled
  (`Fetch`: `MainLoop`'s `ImplementsTimers` says so).
* libcurl ends every transfer: the fetcher sets a connect timeout and a low
  speed limit on every handle (curl.c:1755-1758). `curl_multi_perform` may fail, but not for
  ever (strong fairness on `PerformReturns` and on completion).

* A retrieval context whose type is known again and again is served (strong
  fairness on `Migrate`, since other users may change its object in between):
  `hlcache_llcache_callback` serves it in the event that makes it known.
  Cleaning is scheduled by itself (`hlcache_clean` reschedules) and is always
  enabled; contents go on to READY and DONE or fail.
* Sources, sheets, objects and boxes of a document end (`HtmlLoad`): the first
  three because `HlCache` keeps its promise, the last because the slices are
  scheduled with no delay. Of the sheets of a document, and of the images, the
  module assumes only that some one of those that are going ends.
* The handles of the window tell their story to its end (`BrowserWindow`: this is
  `ContentUser`), and a refresh that is scheduled comes due.

Nothing is assumed of fingers, pens or users: they may always stop, and the one
liveness property of the window excuses a user that never does.

## 4. Proofs

The eight `*Proofs` modules prove, for every value of the constants that
satisfies the assumptions stated in the modules:

| Theorem | States |
| --- | --- |
| `RmThreadsProofs!Safety` | `Spec => []RingInv` |
| `RmThreadsProofs!UnreadKept` | `Spec => []NoOverwrite` |
| `RmThreadsProofs!NoSleeperForgotten` | `Spec => []NoLostWakeup` |
| `RmThreadsProofs!Refinement` | `Spec => ImplementsQueue` |
| `RmThreadsProofs!ScreenSafety` | `ScreenSpec => []ScreenInv` |
| `RmThreadsProofs!ScreenExclusion` | `ScreenSpec => []Exclusion` |
| `RmThreadsProofs!NoDamageForgotten` | `ScreenSpec => []DamageCovered` |
| `RmInputProofs!OneButton` | `Spec => []ButtonsAlternate` |
| `RmInputProofs!OneMouse` | `Spec => []InputInv` |
| `RmInputProofs!TapsStayPut` | `Spec => []TapStaysPut` |
| `RmInputProofs!SecondFingerNeverClicks` | `Spec => NeverPromoted` |
| `RmInputProofs!PressesAndReleases` | `Spec => PressAndRelease` |
| `FrontEndProofs!LoopSafety` | `LoopSpec => []LoopInv` |
| `FrontEndProofs!CallsOnce` | `LoopSpec => OncePerPass` |
| `FrontEndProofs!LateByNoMore` | `LoopSpec => LateByCallbacks` |
| `FrontEndProofs!RefinesTimers` | `LoopSpec => Abs!TimersOrder /\ AsRequested`, the safety part of `ImplementsTimers` |
| `FrontEndProofs!WindowSafety` | `Spec => []WindowInv` |
| `FrontEndProofs!NoDamageLost` | `Spec => []DamageBoxed` |
| `FrontEndProofs!ScrollsEndWithin` | `Spec => WithinDocument` |
| `FrontEndProofs!TopIsTheLimit` | `DocumentsFill => (Spec => []NotOffTop)` |
| `FetchProofs!InductiveInvariant` | `Spec => []IInv` |
| `FetchProofs!FetchesInStep` | `Spec => []FetchInv` |
| `FetchProofs!FetchEndsOnce` | `Spec => EndsOnce` |
| `LlCacheProofs!InductiveInvariant` | `FetchAttempts = 1`: `Spec => []IInv` |
| `LlCacheProofs!CacheIsSound` | `FetchAttempts = 1`: `Spec => []LlCacheInv` |
| `LlCacheProofs!DoneIsWhole` | `FetchAttempts = 1`: `Spec => []WholeBody` |
| `LlCacheProofs!NobodyIsAhead` | `FetchAttempts = 1`: `Spec => []NobodyAhead` |
| `LlCacheProofs!NobodyIsForgotten` | `FetchAttempts = 1`: `Spec => []NobodyForgotten` |
| `HlCacheProofs!InductiveInvariant` | `Spec => []IInv` |
| `HlCacheProofs!TwoSidesAgree` | `Spec => []HlCacheInv` |
| `HlCacheProofs!Shared` | `Spec => []ConvertedOnce` |
| `HlCacheProofs!NothingTaken` | `Spec => []WholeForOthers` |
| `HlCacheProofs!RefinesContentUser` | `Spec => User!Order`, the safety part of `ToldAsPromised` |
| `HtmlLoadProofs!InductiveInvariant` | `Shallow`: `Spec => []IInv` |
| `HtmlLoadProofs!StagesAgree` | `Shallow`: `Spec => []ReadyIsLaidOut` |
| `HtmlLoadProofs!ActiveIsRight` | `Shallow`: `Spec => []ActiveCounts` |
| `HtmlLoadProofs!NoneIsAwaitedInVain` | `Shallow`: `Spec => []AwaitedIsAlive` |
| `HtmlLoadProofs!StopIsAtOnce` | `Shallow`: `Spec => StopsAtOnce` |
| `BrowserWindowProofs!InductiveInvariant` | `Spec => []IInv` |
| `BrowserWindowProofs!CallerIsKnown` | `Spec => []CallbackAsserts` |
| `BrowserWindowProofs!RefreshBelongs` | `Spec => []RefreshIsOwn` |
| `BrowserWindowProofs!BusyAsShown` | `Spec => []BusyIsShown` |
| `BrowserWindowProofs!ParametersFollow` | `Spec => []ParamsInStep` |

*Ring buffer.* The assumptions are those `ring_buf_init` enforces
(`SizeAssumption`) and that thread names are distinct. `NoOverwrite` is not
inductive: that the slot at `head` is free needs `head = (tail + used) %
capacity` and that a writer past its check still has room, which in turn needs
that only the owner of the mutex is between a lock and an unlock. `RingInv` is
that conjunction. `GrowInv`, `StoreInv` and `TakeInv` are the three actions
that change the array; the modular arithmetic is in `ModOnce` and `AfterIs`.
For the refinement, `GrowQueue`, `StoreQueue` and `TakeQueue` say what the
three do to the sequence of unread events (nothing, append, tail), and
`WriterRefines` and `WaiterRefines` map every step to a step of `EventQueue` or
a stutter. `NoSleeperForgotten` counts: while a thread sleeps, there are no
more events than waiters on their way to one, plus one if a writer has stored
and not yet signalled (`WakeInv`). A waiter that leaves without an event finds
the buffer empty, so it takes nothing from the balance. Counting waiters needs
them to be finite in number (`ThreadAssumption`).

*Screen.* The assumptions are a panel with at least one cell, boxes inside it
and `IntMax`, `IntMin` outside. `Exclusion` needs the mutex to be locked
exactly while a thread is in its critical section, and that nothing happened
before the mutex was initialised; `DamageCovered` needs `Exclusion` (the region
is emptied after the ioctl, so a cell drawn in between would be forgotten) and
that the pending region, when not empty, is a box on the panel (`RegionBox`),
so that what the controller refreshes is what drawing touched
(`RefreshIsTouched`, both orientations) and a union covers both its parts
(`UnionCovers`). `ScreenInv` is the conjunction.

*Input.* The assumptions are that slots are numbered from 0 and positions are
numbers. `ButtonsAlternate` is not inductive: a press is well placed only if
nobody owns the button, which the code decides from two different things, the
gesture flag for a finger and `mouse_down` for the pen. `ButtonInv` ties them
together: the button is down in the stream exactly if a finger or the pen owns
it, a finger owns it only within a gesture and never beside the pen, and a
gesture is on exactly as long as the last frame had a finger. Nothing in the
proof uses where the events come from, so it covers devices that report
nonsense. `NeverPromoted` compares the owner, slot and tracking id, before and
after a step, and `seen`, the contacts of the last frame: the button gets another
owner, whether by slot or by id, only if that frame was empty. `TouchSends` and `PenSends` list what a frame may
write; `SendPress`,
`SendRelease` and `SendQuiet` say what a reader makes of it. `OneMouse`
adds the types and the position of the pointer (`IInv`): for these it matters
what libevdev hands over, so the queued events are typed as well, and
`FirstSlots` shows that the events of all slots, which `Difference` collects by
recursion, are such events.

*Main loop.* The assumptions are delays that are natural or -1, a positive
number of ticks and that `None` is no time. The refinement reads the list as a
function of the callback, which needs that no callback is in it twice (`Keyed`),
and that what leaves the list is what the code means to remove: `OthersFacts`
for `schedule_remove`, a walk written as a recursive function whose value is
found by taking the first entry at which it would go wrong, and `Unlinked` for
the entry that is called. The mapping also shows who is being called, so every
entry that leaves the list outside a callback or handler must be a call of that
entry. A pass calls nothing twice because whatever it has
called and is back in the list is not due by the sample of the clock (`Later`);
the wait is short enough because the walk has passed every entry, none of them
due, since it last started over (`Walking`), so what `schedule_run` returns is
neither negative, which would mean no event at all, nor past any entry
(`Returned`).

*Browser widget.* The assumptions are a window with at least one cell and
documents, scrolls and areas made of integers. `DamageBoxed` needs from
`WindowInv` that an area that is not required is the empty box, so that the
first strip a pan queues is not stretched. `QueueKeeps` says that
`fb_queue_redraw` forgets neither what was pending nor what is new, though it
clips and may cancel; `PanQueuesStrips` that the cells a pan leaves stale are
within the strips it queues. `TopIsTheLimit` is the positive side of the
finding about short documents: with every document at least as large as the
window, no scroll leads before its start.

*Fetch layer.* The assumptions are a number of fetches, limits of at least one,
and that `Null` is no fetch. `FetchInv` is not inductive. That the fetch in hand
survives what the cache does inside a callback needs two reasons: it still has
its handle, and the interlock (`Interlock`: `inside_curl` is set whenever a poll
is under way) defers its abort. That no fetch is aborted once it has ended needs
that no object holds one (`Holding`), and this that a message tells an end only
once: a fetch has been aborted or stopped exactly if its end has been told or is
just being told (`Fated`), and a verdict is open exactly as long as the end is
still to come (`Hand`). `IInv` is the conjunction; nothing but types, rings and
interlock is claimed after a step to `crashed`. `DispatchKeeps` says that a
dispatch, whichever start fails, neither loses nor doubles a fetch. The loop is
a recursive function; that it has a value and what each turn keeps is proved by
taking the first turn at which it would go wrong (`Turns`, `TurnsFollow`),
without the induction theorems of the library. `Without` is written as the two
parts around the element that `RING_REMOVE` unlinks, which the prover can take
apart. `EndsOnce` follows from `IInv` step by step.

*Low-level cache.* The hypothesis is one attempt for each fetch, the default of
`max_retried_fetches` (options.h:210). It is needed: with two attempts TLC finds
a violation of `LlCacheInv`, `WholeBody` and `NobodyAhead`, since the retry of
`llcache_fetch_timeout` takes an object back to INIT after its users were told
of its data. `IInv` has three parts. `TwoLists`: an object is in one list, once.
`Base`: what is kept may be shared (`Sound`), a handle is at one object
(`Handed`), a candidate is there and counts at least those that rely on it
(`Relied`), and each user has been told no more than its object has got, and all
of it if it was told the end (`Told`). `Walks`: the walk is at a user that is
still there or at its tombstone, the user it has just called was told what the
walk reports (`Notifying`), and an object that is being redirected is over and
has told its users nothing (`Following`); that is why they can be handed to the
object of the next URL. Each thing the code does to objects is a lemma that
keeps `Base`, for any lists and objects and not just the present ones (`Begin`,
`Replace`, `Tell`, `MoveOut`, `Relinquish`, `TakeCandidate`, `HandOver`,
`Purge`), since most handlers do several of them; `GoesOn` says what a client may
do to the cache without disturbing the walk that called it. The delicate steps
are an abort by one of several users, whose snapshot takes the handle and leaves
a tombstone in the list being walked (`Snapshotting`, `AbortApartStep`), and a
304, which moves all users to a candidate that may be truncated
(`FetchNotModifiedStep`; the exception is `lent`, see *Findings*). Cleaning is a
recursive function over a list; `PurgedWalk` takes the first turn at which
it would go wrong.

`NobodyForgotten` needs a second invariant, `Remembered`, inductive together with
`IInv`. As long as no new pass is scheduled and none has been cut short, every
user that lacks something is the one being called or has its visit ahead of the
walk (`ToCome`), and the state that the walk saw when it called a waiting user
is still its object's (`SeenAsItIs`), so that the call repeats until there is
nothing left to tell. `Onward` is the step of the walk: the next visit is the
earliest of those ahead in which something is due (`EarliestIsOne`), so the
others are ahead of it too. Between two callbacks the order must survive what
clients do: `InOrder` says that a list of users keeps its order when one is put
at its head, unlinked or replaced by its tombstone (`PrependOrder`,
`WithoutOrder`, `ExchangeOrder`), and `StaysAhead` that the lists of objects do
when a snapshot is put at the head of the uncached ones. `ForceStreamRemembers`
is where the exception `cut` comes from: the object that moves goes behind all
the cached ones, and nobody is passed over only if it was the last of them.

*High-level cache.* The assumptions are finite sets of handles and contents
(`Cardinality` counts users), kept apart. `HlCacheInv`, `ConvertedOnce` and
`WholeForOthers` all follow from `Good`: handle and content agree on who uses
whom (`Paired`), what is held is there (`Held`), what was cut short by an abort
is neither usable nor held by a user that did not abort (`CutAlone`, `Whole`),
each user has been told how far its content has come (`Told`), and no two
contents do the same work (`Once`). The last is the delicate one: an abort by
one of several users clones the content (`CloneLinked`), and for a moment two
contents of one kind share an object; so `Once` is kept for all contents but the
clone until `CutOffContent` has either given it an object of its own (the
snapshot of `llcache_handle_abort`) or ended a fetch that nobody else holds.
`Told` is what makes the refinement go through: what a
user is told next continues what it has heard (`RefinesContentUser`).

*Documents.* The assumptions are that the documents form a tree and that sheets
are no objects. The hypothesis `Shallow` is that a refresh comes after the boxes
(`~Prompt`) and that only documents directly in the page refresh themselves; both
are needed, and TLC shows why (*Findings*). Each of the three invariants needs
the others: what a document counts is right only if its stage is (a READY page
waits for no sheet) and if what it waits for is alive, which in turn ends only
because its own count is right. `IInv` joins them (`Staged`, `Counts`, `Linked`)
with what holds of timers and of the window. One event passes through several
documents, which disagree until it has reached them all. So the lemmas are about
any record of documents and not the present one, and `SoundBut` lets one of them
have ended without its page knowing; `Settled`, `Done` and `Fail` mend it. What
goes up the tree is `Done`: the documents that end with d are those for which
every document on the way (`Between`) was waiting for one thing alone. What goes
down is `Stopped`: how many objects a document is left with depends on how many
its documents are left with, a recursive function, whose existence and values
follow from the depth in the tree, by taking a deepest document at which they
would be wrong. That is also why nothing is left of a stopped page.

*Browser window.* The assumptions are that a handle is to be had beside the two
that a window can own, that what a server redirects to can be fetched, and that
about:blank is not redirected and does not refresh. `Good` says which handles
the window owns (at most two, and if it owns two the shown one is DONE), how far
each has come, and what the window kept for each: `Loads` and `Shows` tie
`internal_nav`, the parameters, in which the URL is the one that was asked for,
and the wish for a refresh to the loading and to the shown content, `Asks` says
that a query page which has been answered is still there, `Throbs` and `Waits`
when the indicator turns and a refresh is due. There is no hypothesis about what
the user does. The step after which `Good` is false is Back while something is
on its way behind a query page, and `IInv` says that it is the only one: either
`Good` holds (`Settled`), or Back has barged in, and then what is busy is still
shown and no refresh is due. The theorems hold of every behaviour, with the
exceptions that the properties name.

Every invariant that a passing run checks is the subject of a theorem. Only
model-checked: every liveness property (`EveryWaitReturns`, `NoStuckButton`,
`ShownOnceStarted`, `JoinReturns`, the fairness part of `ImplementsTimers`,
`BroughtUpToDate`, `EveryFetchEnds`, `UnusedGo`, the end of a story in
`ToldAsPromised`, `Settles`, `Rests`), since TLAPS does not reason about
fairness. TLC also finds that `NobodyForgotten` holds with two attempts for a
fetch, where the theorem's `IInv` does not. Only proved: `RingInv` and
`NoOverwrite`, `PressAndRelease`, `ScreenInv`, `WithinDocument` and `NotOffTop`,
and the inductive invariants `IInv` and `Remembered`; TLC agrees with all of them on the
instances above, `NotOffTop` on documents that fill the window.

## 5. Findings

The run `browser_history` shows the code doing something other than what is
written about it: an entry of the history takes the title, thumbnail and scroll
offsets of another page. Going back makes the other entry current first
(browser_history.c:646) and then stops the page that is shown; if that was only
READY, `html_stop` makes it DONE, and `browser_window_content_done` updates the
entry that is current by now (browser_window.c:973). So does a second Back before
the first page has come.

Other disagreements. Each is a state of the models or an exception that a
property names; removing the exception makes TLC show the trace.

* `RmScreen`: `fb_initialize` starts the redraw thread before it sets
  `redraw_active` (screen.c:193, 203); the thread may test it first and return
  (`gone` in `ShownOnceStarted`), and nothing is ever shown. The mutex is
  initialised after that as well (screen.c:207; `broken`).
* `FbWindow`: `fb_pan` moves pixels but not the pending redraw area
  (gui.c:320), so an invalidation and a scroll in the same turn of the main
  loop leave old pixels on the screen (`moved`).
* `FbWindow`: the limit at the bottom undoes "dont pan off the top"
  (gui.c:186-192) in a document shorter than the window (`DocumentsFill` in
  `TopIsTheLimit`).
* `Fetch`: a transfer that was aborted inside curl and ends as a partial file
  still has its headers reported (curl.c:1289), against "fetch was aborted: no
  callback" (curl.c:1318; the last line of `EndsOnce`).
* `LlCache`: the only user of an object aborts it while another object relies on
  it as its candidate (llcache.c:4136); when the server then answers that one
  with 304, its users are moved to the truncated object, which is given a
  lifetime again (llcache.c:2443-2471), and are told that it is done (`lent`).
* `HtmlLoad`: `html_object_refresh` asserts that its object has an HTML content
  (object.c:580) before it allows for "refresh URL has gone (may happen if fetch
  errored)" (object.c:584): an object that asked for a refresh and whose fetch
  then failed (object.c:227) or was stopped (object.c:644) leaves the refresh
  scheduled, and the assertion fails. `RefreshObject` has no step for it.
* `HtmlLoad`: `html_replace_object` counts the new object in every page above
  (object.c:562), also in one that is waiting for that document already, and
  makes a page READY that has no boxes yet, if the refresh is sooner than they
  are (`Prompt`). With a document two levels down that refreshes itself TLC
  finds `ActiveCounts` and `Settles` violated: the page counts one that it does
  not wait for, and is never DONE.
* `HtmlLoad`: a `<style>` element that is modified and has no text left is never
  fetched and the document waits for it for ever (css.c:278; `Empty`).
* `HtmlLoad`: when a document cannot be converted once its last sheet has come,
  `html_convert_css_callback` ignores the result (css.c:138): its user is told
  of an error, and the content stays LOADING and locked, so that cleaning passes
  it over for ever (`lost` in `HlCache`, the exception of `UnusedGo`). When a
  linked sheet cannot be fetched (css.c:486) the user is told of an error as
  well, for a page that goes on loading (dom_event.c:168).
* `BrowserWindow`: Back is pressed while a query page is being fetched.
  `browser_window__reload_current_parameters` retrieves without stopping
  (browser_window.c:4684), the handle that `loading_content` held is lost, and
  its next message fails the assertion of `browser_window_callback`. Without
  `barged` in `CallbackAsserts` TLC shows it.
* `BrowserWindow`: Back, pressed after a query page was stopped, hands the
  parameters of the page shown to the reload and empties them
  (browser_window.c:4685): if that is stopped too, they are gone while the page
  is still shown (`forgot`).
* `BrowserWindow`: the answers of a query page use `loading_parameters`
  (browser_window.c:3797), which a navigation in between may have replaced.
* `BrowserWindow`: a refresh to another URL is not added to the history
  (browser_window.c:653), so the new page's title overwrites the entry of the
  old one; going forward from a query page writes the query page into the entry.
* `browser_history.c:372`, not modelled: fragments of one page share an entry.
* `schedule_run` returns the time to the next event relative to a clock it
  sampled before it ran the callbacks (schedule.c:186); schedule.h:38 promises
  the time until the next event. `LateByCallbacks` bounds the difference.
* An object whose fetch finishes without data, or that is aborted, keeps its
  candidate, and `llcache_object_destroy` does not give it up: the candidate's
  count never returns to 0 and cleaning passes it over for ever.
* "The candidate count of uncacheable objects is always 0" (llcache.c:3740) does
  not hold after `force_stream` of a candidate; the code tests the count anyway.
* With `max_retried_fetches` above 1, a timeout in the middle of a body starts
  over without resetting `source_len`: the second response is appended to the
  first. The model has the retry, and with it TLC finds `LlCacheInv`, `WholeBody` and
  `NobodyAhead` violated; `FetchAttempts = 1`, the default, has none, and the
  three are proved for it.

## 6. Not modelled, and why

* The wall clock set back while the loop runs; `pthread` calls that fail; memory
  exhaustion other than in `ring_buf_write` and where a fetch is started, which
  is also how a login fails before its query page is asked for
  (browser_window.c:1168-1173) and would leave the busy indicator on.
* What a page under whose boxes something failed does when a refresh of one of
  the objects that it keeps comes due (html.c:250): refreshes come after the
  boxes in the run and in the proofs (`Prompt`, `Shallow`).
* Pixels and glyphs: the plotters' clipping, fills and copy are geometry without
  state. The other fetchers answer in one poll. Widgets, focus, grabs and the
  keyboard's modifiers (`fbtk`) are the largest part of the front end that is left.
* In `gui.c`: toolbar, start-up, translation of input, URL bar. In `curl.c`:
  certificates, options, the cache of handles. In `fetch.c`: registration of
  fetchers, `fetch_fdset` (not called by this front end), multipart data.
* In `llcache.c`: the backing store (the framebuffer front end registers none,
  gui_factory.c:811), header and date parsing, HSTS, POST data, changing a
  handle's callback, finalisation.
* In `hlcache.c` and `content.c`: finalisation, messages about presentation
  (redraw, reformat, status text). In `html`: scripts, forms, frames' geometry,
  favicons, the DOM itself. In `desktop`: frames, fragments, cloning and closing
  of windows, favicons, mouse and drawing.
* The disc cache, `fs_backing_store.c`: this front end registers none
  (gui_factory.c:811). The image cache and the URL database are sequential
  tables that nothing interleaves with.
* HTML layout, CSS selection and image decoding: large transformations of
  data with little state to explore; JavaScript is switched off in this build
  (`scripts/build.sh`). Other front ends and surfaces are not built.
* The libraries the Dockerfile fetches (libcss, libdom, libcurl, libevdev ...)
  are not in the repository; libcurl and libevdev appear as environments.

## 7. Plan

Done: the surface's three parts, the main loop, the browser widget, the fetch
layer, both caches, the loading of documents, the window and its history. Left:

1. `FbToolkit`: redraw requests raised while the tree is walked, focus and grab
   when widgets are destroyed, the keyboard's modifiers; composed with
   `FbWindow` through its request for a redraw.
2. `LlCache` shown to implement what `HlCache` assumes of its objects.
3. `RmGeometry`: `input_scale` against `get_xy_loc` in the two orientations, and
   `copy` in landscape (generic.c), as operators checked against a reference;
   the nested claim of generic.c:576.
