----------------------------- MODULE WasapiCalls -----------------------------
(* The Windows half of wasapi_stub.c: queries of devices, their names and  *)
(* formats.  Resources: "com", an initialisation of COM this call made and *)
(* has to undo; the COM interfaces; memory of the C heap, of COM's task    *)
(* allocator and of MoonBit; "id", the argument a call has to drop.        *)
EXTENDS CallSteps, TLC

(* S_OK, or another apartment model that is not ours to undo, or an error. *)
ComInit == Fn({}, {}, {}, {{"com"}, {}},
  [start   |-> Get("com", {}, "ok", "changed"),
   changed |-> Use({}, "ok", "failed")])

(* NULL for no id, for "default", and for whatever fails. *)
Utf8BytesToWide == Fn({}, {"id"}, {}, {{"wide"}},
  [start    |-> Use({"id"}, "copy", "failed"),
   copy     |-> Get("tmp", {"id"}, "named", "failed"),
   named    |-> Use({"tmp"}, "size", "free"),
   size     |-> Use({"tmp"}, "alloc", "free"),
   alloc    |-> Get("wide", {"tmp"}, "convert", "free"),
   convert  |-> Use({"tmp", "wide"}, "done", "freeBoth"),
   done     |-> Drop(<<"tmp">>, "ok"),
   free     |-> Drop(<<"tmp">>, "failed"),
   freeBoth |-> Drop(<<"tmp", "wide">>, "failed")])

Utf8ToWideAlloc == Fn({}, {}, {}, {{"wide"}},
  [start   |-> Use({}, "alloc", "failed"),
   alloc   |-> Get("wide", {}, "convert", "failed"),
   convert |-> Use({"wide"}, "ok", "free"),
   free    |-> Drop(<<"wide">>, "failed")])

(* Without IAudioClient2, or when it refuses, the range is unbounded.      *)
BufferSizeRange == Fn({}, {"client", "mix"}, {}, {{}},
  [start  |-> Get("client2", {"client"}, "limits", "ok"),
   limits |-> Use({"client2", "mix"}, "done", "done"),
   done   |-> Drop(<<"client2">>, "ok")])

DeviceDataFlowTag == Query({"id"},
  [start      |-> Call("utf8_bytes_to_wide", "decref", "refused"),
   refused    |-> Drop(<<"id">>, "ok"),
   decref     |-> Drop(<<"id">>, "com"),
   com        |-> Call("com_init", "enumerator", "noCom"),
   noCom      |-> Drop(<<"wide">>, "ok"),
   enumerator |-> Get("enumerator", {}, "device", "done"),
   device     |-> Get("device", {"enumerator", "wide"}, "endpoint", "done"),
   endpoint   |-> Get("endpoint", {"device"}, "flow", "done"),
   flow       |-> Use({"endpoint"}, "done", "done"),
   done       |-> Put(<<"endpoint", "device", "enumerator">>, "free"),
   free       |-> Drop(<<"wide">>, "uninit"),
   uninit     |-> Put(<<"com">>, "ok")])

(* What the three configuration queries share: the id, COM, the device, or *)
(* the default one for want of it, its client and mix format, and the      *)
(* cleanup.                                                                *)
MixFormat ==
  [start      |-> Call("utf8_bytes_to_wide", "decref", "decref"),
   decref     |-> Drop(<<"id">>, "com"),
   com        |-> Call("com_init", "enumerator", "noCom"),
   noCom      |-> Put(<<"wide">>, "failed"),
   enumerator |-> Get("enumerator", {}, "which", "done"),
   which      |-> Test("wide", "byId", "byDefault"),
   byId       |-> Get("device", {"enumerator", "wide"}, "activate", "byDefault"),
   byDefault  |-> Get("device", {"enumerator"}, "activate", "done"),
   activate   |-> Get("client", {"device"}, "mix", "done"),
   mix        |-> Get("mix", {"client"}, "format", "done"),
   done       |-> Put(<<"mix", "client", "device", "enumerator", "wide", "com">>, "ok")]

DefaultConfig == Query({"id"}, MixFormat @@
  [format |-> Use({"mix"}, "done", "done")])

DefaultConfigEx == Query({"id"}, MixFormat @@
  [format |-> Use({"mix"}, "sizes", "done"),
   sizes  |-> Call("buffer_size_range", "done", "done")])

SupportedConfigs == Query({"id"}, MixFormat @@
  [format |-> Use({"client", "mix"}, "sizes", "done"),
   sizes  |-> Call("buffer_size_range", "probe", "probe"),
   probe  |-> Use({"client"}, "probe", "done")])

(* Every device of the collection is released before the next is taken.    *)
EnumDevices == Fn({}, {}, {"buf"}, {{}},
  [start        |-> Call("com_init", "enumerator", "failed"),
   enumerator   |-> Get("enumerator", {}, "collection", "uninit"),
   collection   |-> Get("collection", {"enumerator"}, "count", "noCollection"),
   noCollection |-> Drop(<<"enumerator">>, "uninit"),
   uninit       |-> Put(<<"com">>, "failed"),
   count        |-> Use({"collection"}, "another", "noCount"),
   noCount      |-> Drop(<<"collection", "enumerator">>, "uninit"),
   another      |-> Use({}, "device", "close"),
   device       |-> Get("device", {"collection"}, "id", "another"),
   id           |-> Get("idw", {"device"}, "utf8", "release"),
   utf8         |-> Get("tmp", {"idw"}, "append", "freeId"),
   append       |-> Test("buf", "freeTmp", "grow"),
   grow         |-> Get("buf", {"tmp"}, "freeTmp", "freeTmp"),
   freeTmp      |-> Drop(<<"tmp">>, "freeId"),
   freeId       |-> Drop(<<"idw">>, "release"),
   release      |-> Drop(<<"device">>, "another"),
   close        |-> Drop(<<"collection", "enumerator">>, "closeCom"),
   closeCom     |-> Put(<<"com">>, "ok")])

(* A property of the store "props", as a string of the C heap.             *)
PropertyString(ok) ==
  [value    |-> Get("variant", {"props"}, "utf8", "clear"),
   utf8     |-> Get("string", {"variant"}, "convert", "clear"),
   convert  |-> Use({"string", "variant"}, "clear", "noString"),
   noString |-> Drop(<<"string">>, "clear"),
   clear    |-> Put(<<"variant">>, ok),
   result   |-> Test("string", "ok", "failed")]

LookupFriendlyName == Fn({}, {}, {}, {{"string"}}, PropertyString("close") @@
  [start      |-> Call("utf8_to_wide_alloc", "com", "failed"),
   com        |-> Call("com_init", "enumerator", "freeId"),
   freeId     |-> Drop(<<"wide">>, "failed"),
   enumerator |-> Get("enumerator", {}, "device", "noEnum"),
   noEnum     |-> Put(<<"com">>, "freeId"),
   device     |-> Get("device", {"enumerator", "wide"}, "freeWide", "noDevice"),
   noDevice   |-> Drop(<<"wide", "enumerator">>, "uninit"),
   freeWide   |-> Drop(<<"wide">>, "props"),
   props      |-> Get("props", {"device"}, "value", "noProps"),
   noProps    |-> Drop(<<"device", "enumerator">>, "uninit"),
   uninit     |-> Put(<<"com">>, "failed"),
   close      |-> Drop(<<"props", "device", "enumerator">>, "closeCom"),
   closeCom   |-> Put(<<"com">>, "result")])

(* The store stays open, with COM, until close_property_store.             *)
OpenPropertyStore == Fn({}, {}, {}, {{"enumerator", "device", "props", "com"},
                                     {"enumerator", "device", "props"}},
  [start      |-> Call("utf8_to_wide_alloc", "com", "failed"),
   com        |-> Call("com_init", "enumerator", "noCom"),
   noCom      |-> Drop(<<"wide">>, "failed"),
   enumerator |-> Get("enumerator", {}, "device", "fail"),
   device     |-> Get("device", {"enumerator", "wide"}, "props", "fail"),
   props      |-> Get("props", {"device"}, "done", "fail"),
   done       |-> Drop(<<"wide">>, "ok"),
   fail       |-> Put(<<"props", "device", "enumerator">>, "noId"),
   noId       |-> Drop(<<"wide">>, "uninit"),
   uninit     |-> Put(<<"com">>, "failed")])

(* Deviation: the device is not released. *)
ClosePropertyStoreKeepsDevice(ok) == Put(<<"props", "enumerator", "com">>, ok)

ClosePropertyStore(ok) == Put(<<"props", "device", "enumerator", "com">>, ok)

GetPropertyString == Fn({}, {}, {}, {{"string"}}, PropertyString("close") @@
  [start |-> Call("open_property_store", "value", "failed"),
   close |-> ClosePropertyStore("result")])

GetPropertyU32 == Query({},
  [start |-> Call("open_property_store", "value", "failed"),
   value |-> Get("variant", {"props"}, "clear", "clear"),
   clear |-> Put(<<"variant">>, "close"),
   close |-> ClosePropertyStore("ok")])

WasapiDevices == Fn({}, {}, {}, {{"bytes"}, {}}, AnswerBuffer @@
  [start |-> Call("enum_devices", "empty", "empty")])

DefaultDeviceId == Fn({}, {}, {}, {{"bytes"}, {}},
  [start      |-> Call("com_init", "enumerator", "none"),
   enumerator |-> Get("enumerator", {}, "device", "done"),
   device     |-> Get("device", {"enumerator"}, "id", "done"),
   id         |-> Get("idw", {"device"}, "bytes", "done"),
   bytes      |-> Get("bytes", {"idw"}, "convert", "done"),
   convert    |-> Use({"idw", "bytes"}, "done", "decref"),
   decref     |-> Drop(<<"bytes">>, "done"),
   done       |-> Put(<<"idw", "device", "enumerator", "com">>, "answer"),
   answer     |-> Test("bytes", "ok", "none"),
   none       |-> Get("bytes", {}, "ok", "ok")])

DeviceFormFactor == Query({"id"},
  [start |-> Drop(<<"id">>, "get"),
   get   |-> Call("get_property_u32", "ok", "failed")])

(* A property, or its length; an unknown property tag, or a string longer  *)
(* than the caller's buffer, ends the call early.                          *)
DevicePropertyLen == Query({"id"},
  [start |-> Drop(<<"id">>, "key"),
   key   |-> Use({}, "get", "failed"),
   get   |-> Call("get_property_string", "free", "failed"),
   free  |-> Drop(<<"string">>, "ok")])

DeviceProperty == Query({"id"},
  [start |-> Drop(<<"id">>, "key"),
   key   |-> Use({}, "get", "failed"),
   get   |-> Call("get_property_string", "copy", "failed"),
   copy  |-> Use({"string"}, "free", "free"),
   free  |-> Drop(<<"string">>, "ok")])

(* Without a friendly name the id, which was copied, is the name.          *)
DeviceNameLen == Query({"id"},
  [start  |-> Drop(<<"id">>, "lookup"),
   lookup |-> Call("lookup_friendly_name", "free", "ok"),
   free   |-> Drop(<<"string">>, "ok")])

DeviceName == Query({"id"},
  [start  |-> Drop(<<"id">>, "lookup"),
   lookup |-> Call("lookup_friendly_name", "copy", "copy"),
   copy   |-> Use({}, "free", "free"),
   free   |-> Put(<<"string">>, "ok")])

WasapiFns ==
  [com_init              |-> ComInit,
   utf8_bytes_to_wide    |-> Utf8BytesToWide,
   utf8_to_wide_alloc    |-> Utf8ToWideAlloc,
   buffer_size_range     |-> BufferSizeRange,
   device_data_flow_tag  |-> DeviceDataFlowTag,
   default_config        |-> DefaultConfig,
   default_config_ex     |-> DefaultConfigEx,
   supported_configs     |-> SupportedConfigs,
   enum_devices          |-> EnumDevices,
   lookup_friendly_name  |-> LookupFriendlyName,
   open_property_store   |-> OpenPropertyStore,
   get_property_string   |-> GetPropertyString,
   get_property_u32      |-> GetPropertyU32,
   wasapi_devices        |-> WasapiDevices,
   default_device_id     |-> DefaultDeviceId,
   device_form_factor    |-> DeviceFormFactor,
   device_property_len   |-> DevicePropertyLen,
   device_property       |-> DeviceProperty,
   device_name_len       |-> DeviceNameLen,
   device_name           |-> DeviceName]
=============================================================================
