---------------------------- MODULE CoreAudioCalls ----------------------------
(* The queries of coreaudio_stub.c that hold memory or a reference while   *)
(* they ask the hardware layer.  The strings of names and manufacturers    *)
(* are no resource here: the code uses them as CoreAudio's own.            *)
EXTENDS CallSteps

(* Size, memory, data: what can change between the first and the last of   *)
(* them is only how much of the memory is filled.                          *)
Listing == Query({},
  [start |-> Use({}, "alloc", "failed"),
   alloc |-> Get("list", {}, "data", "failed"),
   data  |-> Use({"list"}, "copy", "free"),
   free  |-> Drop(<<"list">>, "failed"),
   copy  |-> Drop(<<"list">>, "ok")])

GetDevices == Listing

(* No buffers, no channels. *)
StreamChannelCount == Query({},
  [start  |-> Use({}, "empty", "failed"),
   empty  |-> Use({}, "alloc", "ok"),
   alloc  |-> Get("list", {}, "data", "failed"),
   data   |-> Use({"list"}, "count", "free"),
   free   |-> Drop(<<"list">>, "failed"),
   count  |-> Use({"list"}, "copy", "copy"),
   copy   |-> Drop(<<"list">>, "ok")])

SampleRateRanges == Query({},
  [start  |-> Use({}, "empty", "failed"),
   empty  |-> Use({}, "alloc", "ok"),
   alloc  |-> Get("list", {}, "data", "failed"),
   data   |-> Use({"list"}, "copy", "free"),
   free   |-> Drop(<<"list">>, "failed"),
   copy   |-> Drop(<<"list">>, "ok")])

(* The uid is retained for the caller; a device may have none.             *)
CopyDeviceUid == Fn({}, {}, {}, {{"uid"}, {}},
  [start  |-> Use({}, "retain", "failed"),
   retain |-> Get("uid", {}, "ok", "ok")])

DeviceUidLen == Query({},
  [start   |-> Call("copy_device_uid", "some", "failed"),
   some    |-> Test("uid", "length", "failed"),
   length  |-> Use({"uid"}, "release", Never),
   release |-> Drop(<<"uid">>, "ok")])

(* When the buffer is too small the uid is fetched again for its length.   *)
DeviceUid == Query({},
  [start   |-> Call("copy_device_uid", "some", "failed"),
   some    |-> Test("uid", "bytes", "failed"),
   bytes   |-> Use({"uid"}, "release", "need"),
   need    |-> Call("device_uid_len", "release", "release"),
   release |-> Drop(<<"uid">>, "ok")])

SetupQueueDevice == Fn({}, {"queue"}, {}, {{}},
  [start   |-> Call("copy_device_uid", "set", "failed"),
   set     |-> Use({"queue"}, "release", "refused"),
   release |-> Put(<<"uid">>, "ok"),
   refused |-> Put(<<"uid">>, "failed")])

(* The ranges are freed before the rate is set and waited for, which is    *)
(* CoreAudioStream's.                                                      *)
SetNominalSampleRate == Query({},
  [start   |-> Use({}, "same", "failed"),
   same    |-> Use({}, "ok", "size"),
   size    |-> Use({}, "alloc", "failed"),
   alloc   |-> Get("list", {}, "data", "failed"),
   data    |-> Use({"list"}, "search", "free"),
   free    |-> Drop(<<"list">>, "failed"),
   search  |-> Use({"list"}, "found", "free"),
   found   |-> Drop(<<"list">>, "set"),
   set     |-> Use({}, "poll", "failed"),
   poll    |-> Use({}, "ok", "failed")])

CoreAudioFns ==
  [get_devices             |-> GetDevices,
   stream_channel_count    |-> StreamChannelCount,
   sample_rate_ranges      |-> SampleRateRanges,
   copy_device_uid         |-> CopyDeviceUid,
   device_uid_len          |-> DeviceUidLen,
   device_uid              |-> DeviceUid,
   setup_queue_device      |-> SetupQueueDevice,
   set_nominal_sample_rate |-> SetNominalSampleRate]
=============================================================================
