------------------------------ MODULE PosixCalls ------------------------------
(* The native calls of the ALSA, JACK and test-host backends outside the   *)
(* life of a stream: the queries of alsa_stub.c and jack_stub.c, and the   *)
(* builds of streams with every failure branch (the test host's in both    *)
(* halves of its file).  A stream that was built is the state in which     *)
(* AlsaStream, JackStream and NullStream begin.                            *)
EXTENDS CallSteps, TLC

-----------------------------------------------------------------------------
(* alsa_stub.c.  A line that finds no memory is dropped: "buf" is there    *)
(* once some line was appended.                                            *)
AppendLine(next) ==
  [append |-> Test("buf", next, "grow"),
   grow   |-> Get("buf", {}, next, next)]

AppendHintNames == Fn({}, {}, {"buf"}, {{}}, AppendLine("freeIoid") @@
  [start    |-> Get("hints", {}, "next", "ok"),
   next     |-> Use({"hints"}, "name", "free"),
   name     |-> Get("name", {"hints"}, "named", "next"),
   named    |-> Use({"name"}, "ioid", "freeName"),
   ioid     |-> Get("ioid", {"hints"}, "desc", "desc"),
   desc     |-> Get("desc", {"hints"}, "append", "append"),
   freeIoid |-> Put(<<"ioid", "desc">>, "freeName"),
   freeName |-> Drop(<<"name">>, "next"),
   free     |-> Drop(<<"hints">>, "ok")])

(* Each card's control is closed before the next card's is opened.         *)
AppendPhysicalDevices == Fn({}, {}, {"buf"}, {{}}, AppendLine("device") @@
  [start  |-> Use({}, "card", "ok"),
   card   |-> Get("ctl", {}, "device", "start"),
   device |-> Use({"ctl"}, "info", "close"),
   info   |-> Use({"ctl"}, "append", "device"),
   close  |-> Drop(<<"ctl">>, "start")])

AppendProcPcm == Fn({}, {}, {"buf"}, {{}}, AppendLine("line") @@
  [start |-> Get("file", {}, "line", "ok"),
   line  |-> Use({"file"}, "parse", "close"),
   parse |-> Use({}, "append", "line"),
   close |-> Drop(<<"file">>, "ok")])

(* /proc/asound/pcm is read only when the cards added nothing.             *)
AlsaDevices == Fn({}, {}, {}, {{"bytes"}, {}}, AppendLine("hints") @@ AnswerBuffer @@
  [start    |-> Use({}, "append", Never),
   hints    |-> Call("append_hint_names", "physical", Never),
   physical |-> Call("append_physical_devices", "added", Never),
   added    |-> Use({}, "empty", "proc"),
   proc     |-> Call("append_proc_pcm", "empty", Never)])

StatusOnly == Fn({}, {}, {}, {{"bytes"}, {}},
  [start |-> Get("bytes", {}, "ok", "none"),
   none  |-> Get("bytes", {}, "ok", "ok")])

AlsaSupportedConfigs == Fn({"id"}, {}, {}, {{"bytes"}, {}},
  [start    |-> Drop(<<"id">>, "open"),
   open     |-> Get("pcm", {}, "malloc", "status"),
   malloc   |-> Get("hw", {"pcm"}, "any", "close"),
   close    |-> Drop(<<"pcm">>, "status"),
   any      |-> Use({"pcm", "hw"}, "formats", "giveUp"),
   formats  |-> Use({"pcm", "hw"}, "rates", "giveUp"),
   rates    |-> Use({"pcm", "hw"}, "channels", "giveUp"),
   channels |-> Use({"pcm", "hw"}, "sizes", "giveUp"),
   sizes    |-> Use({"hw"}, "done", "giveUp"),
   giveUp   |-> Drop(<<"hw", "pcm">>, "status"),
   done     |-> Drop(<<"hw", "pcm">>, "records"),
   records  |-> Use({}, "bytes", "status"),
   bytes    |-> Get("bytes", {}, "ok", "none"),
   none     |-> Get("bytes", {}, "ok", "ok"),
   status   |-> Call("status_only", "ok", Never)])

-----------------------------------------------------------------------------
(* The builds.  A build takes the callbacks over: it drops them when it    *)
(* fails and gives them to the stream when it succeeds.                    *)
Callbacks == {"dataCallback", "errorCallback"}
DropCallbacks == Drop(<<"dataCallback", "errorCallback">>, "failed")

(* invoke_error calls the callback that the stream holds. *)
InvokeError(next) == Use({"stream", "errorCallback"}, next, Never)

(* What every worker thread uses until it is joined. *)
Shared == {"stream", "mutex", "buffer"} \cup Callbacks

(* Hardware parameters, set one by one before they are applied; a default  *)
(* buffer is applied once as the device likes it, then again with twice    *)
(* its period.                                                             *)
ConfigurePcm == Fn({}, {"pcm"}, {}, {{}},
  [start   |-> Use({"pcm"}, "fixed", "failed"),
   fixed   |-> Use({}, "period", "apply"),
   apply   |-> Use({"pcm"}, "current", "failed"),
   current |-> Use({"pcm"}, "again", "prepare"),
   again   |-> Use({"pcm"}, "period", "failed"),
   period  |-> Use({"pcm"}, "buffer", "failed"),
   buffer  |-> Use({"pcm"}, "params", "failed"),
   params  |-> Use({"pcm"}, "prepare", "failed"),
   prepare |-> Use({"pcm"}, "ok", "failed")])

(* Parameters that are refused are tried again with a monotonic clock.     *)
ConfigureSwParams == Fn({}, {"pcm"}, {}, {{}},
  [start     |-> Use({"pcm"}, "threshold", "failed"),
   threshold |-> Use({"pcm"}, "avail", "failed"),
   avail     |-> Use({"pcm"}, "params", "failed"),
   params    |-> Use({"pcm"}, "ok", "clock"),
   clock     |-> Use({"pcm"}, "ok", "failed")])

AlsaDestroy ==
  [destroy |-> Use({"stream", "mutex"}, "join", Never),
   join    |-> Put(<<"thread", "pcm", "dataCallback", "errorCallback", "buffer">>, "free"),
   free    |-> Drop(<<"mutex", "stream">>, "failed")]

AlsaStreamNew == Fn(Callbacks, {}, {}, {Shared \cup {"pcm", "thread"}}, AlsaDestroy @@
  [start     |-> Use({}, "alloc", "decref"),
   alloc     |-> Get("stream", {}, "mutex", "decref"),
   decref    |-> DropCallbacks,
   mutex     |-> Get("mutex", {"stream"}, "open", Never),
   open      |-> Get("pcm", {"stream"}, "configure", "report"),
   configure |-> Call("configure_pcm", "software", "report"),
   software  |-> Call("configure_sw_params", "size", "report"),
   size      |-> Use({}, "buffer", "report"),
   buffer    |-> Get("buffer", {"stream"}, "thread", "destroy"),
   thread    |-> Get("thread", Shared \cup {"pcm"}, "ok", "report"),
   report    |-> InvokeError("destroy")])

(* The wrappers, for playback and for capture, copy the id and drop it.    *)
AlsaStreamBuild == Fn({"id"} \cup Callbacks, {}, {}, {Shared \cup {"pcm", "thread"}},
  [start |-> Drop(<<"id">>, "new"),
   new   |-> Call("alsa_stream_new", "ok", "failed")])

(* Deviation: the rings are freed before the client is deactivated. *)
JackDestroyRingsFirst ==
  [destroy |-> Use({"stream", "mutex"}, "join", Never),
   join    |-> Put(<<"thread", "ring1", "ring2", "rings", "active", "client", "ports">>, "free"),
   free    |-> Drop(<<"mutex", "dataCallback", "errorCallback">>, "last"),
   last    |-> Put(<<"buffer">>, "stream"),
   stream  |-> Drop(<<"stream">>, "failed")]

JackDestroy ==
  [destroy |-> Use({"stream", "mutex"}, "join", Never),
   join    |-> Put(<<"thread", "active", "client", "ring1", "ring2", "rings", "ports">>, "free"),
   free    |-> Drop(<<"mutex", "dataCallback", "errorCallback">>, "last"),
   last    |-> Put(<<"buffer">>, "stream"),
   stream  |-> Drop(<<"stream">>, "failed")]

(* "connections" are the names of the physical ports. *)
TryAutoconnect == Fn({}, {"client", "ports"}, {}, {{}},
  [start   |-> Get("connections", {"client"}, "connect", "ok"),
   connect |-> Use({"client", "ports", "connections"}, "connect", "free"),
   free    |-> Drop(<<"connections">>, "ok")])

(* Two channels, so a build can fail with some rings created.  "active" is *)
(* the server's right to call process.  A pthread_create that fails leaves *)
(* the thread handle of the stream unspecified: destroy joins it, unless   *)
(* it is still 0.                                                          *)
JackStreamNew ==
  Fn(Callbacks, {}, {},
     {Shared \cup {"client", "ports", "rings", "ring1", "ring2", "active", "thread"}},
     JackDestroy @@
  [start    |-> Get("stream", {}, "mutex", "decref"),
   decref   |-> DropCallbacks,
   mutex    |-> Get("mutex", {"stream"}, "open", Never),
   open     |-> Get("client", {"stream"}, "notify", "report"),
   notify   |-> Use({"client", "stream"}, "buffer", Never),
   buffer   |-> Get("buffer", {"stream"}, "process", "destroy"),
   process  |-> Use({"client", "stream"}, "ports", "report"),
   ports    |-> Get("ports", {"stream"}, "register", "report"),
   register |-> Use({"client", "ports"}, "rings", "report"),
   rings    |-> Get("rings", {"stream"}, "ring1", "destroy"),
   ring1    |-> Get("ring1", {"rings"}, "ring2", "destroy"),
   ring2    |-> Get("ring2", {"rings"}, "activate", "destroy"),
   activate |-> Get("active", {"client", "ports", "ring1", "ring2"}, "connect", "report"),
   connect  |-> Call("try_autoconnect", "thread", Never),
   thread   |-> Get("thread", Shared \cup {"ring1", "ring2"}, "ok", "noThread"),
   report   |-> InvokeError("destroy"),
   noThread |-> InvokeError("handle"),
   handle   |-> Use({}, "joinNone", "destroy"),
   joinNone |-> Use({"thread"}, "destroy", Never)])

JackStreamBuild ==
  Fn({"id"} \cup Callbacks, {}, {}, JackStreamNew.yields,
  [start |-> Drop(<<"id">>, "new"),
   new   |-> Call("jack_stream_new", "ok", "failed")])

(* jack_stub.c: the client is closed before its answers are looked at.     *)
JackDefaultConfig == Fn({}, {}, {}, {{"bytes"}, {}},
  [start |-> Get("client", {}, "rate", "none"),
   rate  |-> Use({"client"}, "close", Never),
   close |-> Drop(<<"client">>, "known"),
   known |-> Use({}, "bytes", "none"),
   bytes |-> Get("bytes", {}, "ok", "none"),
   none  |-> Get("bytes", {}, "ok", "ok")])

NullDestroy ==
  [destroy |-> Use({"stream", "mutex"}, "join", Never),
   join    |-> Put(<<"thread">>, "mutexes"),
   mutexes |-> Drop(<<"mutex">>, "free"),
   free    |-> Put(<<"dataCallback", "errorCallback", "buffer">>, "stream"),
   stream  |-> Drop(<<"stream">>, "failed")]

(* The one build that reports no failure to the error callback. *)
NullStreamNew == Fn(Callbacks, {}, {}, {Shared \cup {"thread"}}, NullDestroy @@
  [start  |-> Use({}, "size", "decref"),
   size   |-> Use({}, "alloc", "decref"),
   alloc  |-> Get("stream", {}, "mutex", "decref"),
   decref |-> DropCallbacks,
   mutex  |-> Get("mutex", {"stream"}, "buffer", Never),
   buffer |-> Get("buffer", {"stream"}, "thread", "destroy"),
   thread |-> Get("thread", Shared, "ok", "destroy")])

(* The Windows half of the test host has an event in place of the mutex.   *)
WinShared == {"stream", "event", "buffer"} \cup Callbacks

WinNullDestroy ==
  [destroy |-> Use({"stream"}, "join", Never),
   join    |-> Put(<<"thread", "event", "dataCallback", "errorCallback", "buffer">>, "stream"),
   stream  |-> Drop(<<"stream">>, "failed")]

WinNullStreamNew == Fn(Callbacks, {}, {}, {WinShared \cup {"thread"}}, WinNullDestroy @@
  [start  |-> Use({}, "size", "decref"),
   size   |-> Use({}, "alloc", "decref"),
   alloc  |-> Get("stream", {}, "buffer", "decref"),
   decref |-> DropCallbacks,
   buffer |-> Get("buffer", {"stream"}, "event", "destroy"),
   event  |-> Get("event", {"stream"}, "thread", "destroy"),
   thread |-> Get("thread", WinShared, "ok", "destroy")])

PosixFns ==
  [append_hint_names       |-> AppendHintNames,
   append_physical_devices |-> AppendPhysicalDevices,
   append_proc_pcm         |-> AppendProcPcm,
   alsa_devices            |-> AlsaDevices,
   status_only             |-> StatusOnly,
   alsa_supported_configs  |-> AlsaSupportedConfigs,
   configure_pcm           |-> ConfigurePcm,
   configure_sw_params     |-> ConfigureSwParams,
   alsa_stream_new         |-> AlsaStreamNew,
   alsa_stream_build       |-> AlsaStreamBuild,
   try_autoconnect         |-> TryAutoconnect,
   jack_default_config     |-> JackDefaultConfig,
   jack_stream_new         |-> JackStreamNew,
   jack_stream_build       |-> JackStreamBuild,
   null_stream_new         |-> NullStreamNew,
   win_null_stream_new     |-> WinNullStreamNew]
=============================================================================
