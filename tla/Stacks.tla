---- MODULE Stacks ----
(***************************************************************************)
(* bench/stacks: how the five benchmarked stacks scan, connect, disconnect *)
(* and subscribe, as the steps of module Coroutine.                        *)
(*                                                                         *)
(* The resources are what outlives a call: mgmt, a mgmt socket; discovery  *)
(* and session, the discovery asked of the kernel or of BlueZ; channel, an *)
(* L2CAP socket connected to the target, whose ATT channel there is one of *)
(* (bench/fixtures/bluetoothd.py:5); bluez, the same held by BlueZ; peer,  *)
(* the target being there; cccd, its notifications being on; handler, our  *)
(* callback for them; and signals, added, match, props, the listeners that *)
(* raw_dbus puts on its cached bus. Adverts and values are left out; a     *)
(* discovery that the controller refuses is one that has ended already.    *)
(***************************************************************************)
EXTENDS Coroutine

\* The window in which events are collected ends by its deadline.
Collect == Wait("collect")

Request(name) == Needing({"channel"}, Await(name))
Asked(name) == Needing({"bluez"}, Await(name))

-----------------------------------------------------------------------------
(* MgmtSocket.                                                             *)

StartDiscovery(name) == Late(Getting({"discovery"}, Await(name)))

\* A slip: only a timeout is expected.
StopDiscoveryRaises(name) == Late(Freeing({"discovery"}, Await(name)))

\* Its own timeout and OSError are swallowed.
StopDiscovery(name) == Soft(Late(Freeing({"discovery"}, Await(name))))

CloseMgmt == Freeing({"mgmt"}, Sync("mgmt.close"))

StopAndClose(name) == <<Finally(<<StopDiscovery(name)>>, <<CloseMgmt>>)>>

\* The attempts of module Connect. A socket that fails to connect is closed.
Connecting ==
  Needing({"peer"}, BarredBy({"channel", "bluez"}, Getting({"channel"}, Await("connect"))))

-----------------------------------------------------------------------------
(* raw_l2cap: bluek's own sockets.                                         *)

RawScan ==
  << Getting({"mgmt"}, Opening("mgmt.open")),
     StartDiscovery("start_discovery"),
     Finally(<<Collect>>, StopAndClose("stop_discovery")) >>

RawSetup ==
  << Getting({"mgmt"}, Opening("mgmt.open")),
     Finally(<<StartDiscovery("prescan"), Wait("seen")>>, StopAndClose("end_prescan")),
     Connecting,
     Request("exchange_mtu"),
     Request("discover") >>

RawTeardown == Freeing({"channel", "cccd", "handler"}, Sync("att.close"))

RawSampling == Request("sampling")

RawNotify ==
  << Opening("resolve"),
     Getting({"handler"}, Sync("set_notify_handler")),
     Late(Getting({"cccd"}, Request("notify_on"))),
     Finally(<<Collect>>,
             << Soft(Late(Freeing({"cccd"}, Request("notify_off")))),
                Freeing({"handler"}, Sync("remove_notify_handler")) >>) >>

-----------------------------------------------------------------------------
(* lib_bluek: BleakScanner and BleakClient of bluek.                       *)

BluekScan ==
  << Opening("BleakScanner"),
     Getting({"mgmt"}, Opening("mgmt.open")),
     StartDiscovery("start_discovery"),
     Finally(<<Collect>>, StopAndClose("stop_discovery")) >>

BluekTeardown == Freeing({"channel", "cccd", "handler"}, Sync("disconnect"))

\* A slip: connect leaves its socket to the garbage collector.
BluekConnectKeeps ==
  << Connecting,
     Request("connect_mtu"), Request("connect_discover") >>

\* BleakClient.connect; without a mgmt socket it goes on without the prescan.
BluekConnect ==
  << Maybe(<< Getting({"mgmt"}, Sync("mgmt.open")),
              Finally(<<StartDiscovery("prescan"), Wait("seen")>>, StopAndClose("end_prescan")) >>),
     Connecting,
     Undo(<<Request("connect_mtu"), Request("connect_discover")>>, <<BluekTeardown>>) >>

BluekSetup == <<Opening("BleakClient")>> \o BluekConnect

BluekSampling == Request("sampling")

\* BleakClient.start_notify sets the handler before it writes the CCCD.
BluekStartNotify ==
  << Late(Getting({"handler"}, Needing({"channel"}, Opening("start_notify")))),
     Late(Getting({"cccd"}, Request("start_write"))) >>

\* stop_notify raises if the loss of the link is known by then. Of its write, a
\* BleakError is swallowed, also the "disconnected" of a loss during the write,
\* and anything else (a timeout, an OSError) raised, with the handler left.
BluekStopWrite ==
  << Soft(Late(Freeing({"cccd"}, Request("stop_write")))),
     Freeing({"handler"}, Opening("stop_notify")) >>

\* A slip: a client that is not connected is no error.
BluekNotifyLenient ==
  BluekStartNotify \o
  << Finally(<<Collect>>, <<Soft(Needing({"channel"}, Sync("stop_notify")))>> \o BluekStopWrite) >>

BluekNotify ==
  BluekStartNotify \o
  << Finally(<<Collect>>, <<Needing({"channel"}, Sync("stop_notify"))>> \o BluekStopWrite) >>

-----------------------------------------------------------------------------
(* lib_bleak: the same calls on bleak, which goes through BlueZ.           *)

BleakScan ==
  << Getting({"session"}, Await("scanner.start")),
     Finally(<<Collect>>, <<Late(Freeing({"session"}, Await("scanner.stop")))>>) >>

BleakSetup ==
  <<Needing({"peer"}, BarredBy({"channel"}, Getting({"bluez"}, Await("client.connect"))))>>

BleakTeardown == Late(Freeing({"bluez", "cccd"}, Await("client.disconnect")))

BleakSampling == Asked("sampling")

BleakNotify ==
  << Late(Getting({"cccd"}, Asked("bleak.start_notify"))),
     Finally(<<Collect>>, <<Late(Freeing({"cccd"}, Asked("bleak.stop_notify")))>>) >>

-----------------------------------------------------------------------------
(* raw_dbus: calls to BlueZ on a bus connected at the first use.           *)

BusHandle == Once(Getting({"bus"}, Await("bus")))

DbusScan ==
  << BusHandle,
     Await("root_proxy"),
     Getting({"added"}, Sync("on_interfaces_added")),
     Getting({"match"}, Await("AddMatch")),
     Getting({"signals"}, Sync("add_message_handler")),
     Await("adapter_iface"),
     Soft(Await("SetDiscoveryFilter")),
     Late(Getting({"session"}, Await("StartDiscovery"))),
     Finally(<<Collect>>,
             << Soft(Late(Freeing({"session"}, Await("StopDiscovery")))),
                Freeing({"signals"}, Sync("remove_message_handler")) >>) >>

\* A device that is connected already is taken as it is.
DbusConnect ==
  Once(Late(Needing({"peer"}, BarredBy({"channel"}, Getting({"bluez"}, Await("Connect"))))))

\* A device that BlueZ does not know is discovered. ServicesResolved is
\* awaited in a bounded loop.
DbusSetup ==
  << BusHandle,
     Await("GetManagedObjects"),
     Maybe(<< Await("setup_adapter_iface"),
              Finally(<<Late(Getting({"session"}, Await("find"))), Await("appears")>>,
                      <<Soft(Late(Freeing({"session"}, Await("end_find"))))>>) >>),
     Await("device_proxy"),
     Await("Connected"),
     DbusConnect,
     Await("ServicesResolved"),
     Await("walk") >>

DbusTeardown == Soft(Late(Freeing({"bluez", "cccd"}, Await("Disconnect"))))

DbusSampling == Asked("sampling")

DbusNotify ==
  << BusHandle,
     Await("char_iface"),
     Await("char_proxy"),
     Getting({"props"}, Sync("on_properties_changed")),
     Late(Getting({"cccd"}, Asked("StartNotify"))),
     Finally(<<Collect>>, <<Soft(Late(Freeing({"cccd"}, Asked("StopNotify"))))>>) >>

-----------------------------------------------------------------------------
(* micro_fake: ATTClient on a FakePeripheral, which answers every request. *)

MicroScan == <<Collect>>

MicroSetup ==
  << Wait("exchange_mtu"), Wait("discover"),
     Getting({"pump"}, Sync("start_notify_pump")) >>

MicroTeardown == Freeing({"pump", "cccd"}, Sync("peripheral.close"))

MicroSampling == Wait("sampling")

MicroNotify ==
  << Getting({"handler"}, Sync("set_notify_handler")),
     Getting({"cccd"}, Wait("notify_on")),
     Finally(<<Collect>>,
             << Soft(Late(Freeing({"cccd"}, Wait("notify_off")))),
                Freeing({"handler"}, Sync("remove_notify_handler")) >>) >>

-----------------------------------------------------------------------------
\* base.Stack: what a stack offers to the scenarios.
Stack ==
  [ raw_l2cap  |-> [scan |-> RawScan, setup |-> RawSetup, teardown |-> RawTeardown,
                    sampling |-> RawSampling, notify |-> RawNotify],
    lib_bluek  |-> [scan |-> BluekScan, setup |-> BluekSetup, teardown |-> BluekTeardown,
                    sampling |-> BluekSampling, notify |-> BluekNotify],
    lib_bleak  |-> [scan |-> BleakScan, setup |-> BleakSetup, teardown |-> BleakTeardown,
                    sampling |-> BleakSampling, notify |-> BleakNotify],
    raw_dbus   |-> [scan |-> DbusScan, setup |-> DbusSetup, teardown |-> DbusTeardown,
                    sampling |-> DbusSampling, notify |-> DbusNotify],
    micro_fake |-> [scan |-> MicroScan, setup |-> MicroSetup, teardown |-> MicroTeardown,
                    sampling |-> MicroSampling, notify |-> MicroNotify] ]

\* What a stack keeps from one scenario to the next.
Kept(stack) == IF stack = "raw_dbus" THEN {"bus", "added", "match", "props"} ELSE {}
====
