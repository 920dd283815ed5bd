------------------------------- MODULE ApiInOut -------------------------------
(***************************************************************************)
(* DSR_ROBOT2.py, L5684-L6535: inputs and outputs, the modbus, tools, tool *)
(* center points and scripts.  None of these functions looks for its       *)
(* service.                                                                *)
(***************************************************************************)
EXTENDS ApiControl

CONSTANTS
  Outputs,      \* the integers tried as values of an output
  ChannelArgs   \* the values tried as channels of analog outputs

Channels == 1 .. 2
IndexArgs == {0 - 17, 0 - 7, 0 - 1, 0, 1, 7, 17, Junk}
CURRENT == 0
VOLTAGE == 1
Modes == {CURRENT, VOLTAGE}
InRange(mode, v) == \/ mode = CURRENT /\ 4 <= v /\ v <= 20
                    \/ mode = VOLTAGE /\ 0 <= v /\ v <= 10

GetInput(t, last) == \E i \in IndexArgs :
  Begin(t, CheckIn(i, 1 .. last, Post(Plain)))

get_digital_input(t)       == GetInput(t, 16)
get_tool_digital_input(t)  == GetInput(t, 6)
get_digital_output(t)      == GetInput(t, 16)
get_tool_digital_output(t) == GetInput(t, 6)
get_analog_input(t)        == GetInput(t, 2)

(* Without a value the sign of the index tells on from off.                *)
SetOutput(t, last) == \E i \in IndexArgs, v \in {None, 0, 1, 2, Junk} :
  Begin(t, CheckInt(i,
           IF v = None
           THEN Check(i \in (0 - last) .. last /\ i # 0, "VALUE", Post(Plain))
           ELSE CheckInt(v, Check(i \in 1 .. last, "VALUE",
                Check(v \in {0, 1}, "VALUE", Post(Plain))))))

set_digital_output(t)      == SetOutput(t, 16)
set_tool_digital_output(t) == SetOutput(t, 6)

(* Mutant: a value is not checked.                                         *)
set_any_analog_output(t) ==
  \E ch \in ChannelArgs \cup {Junk}, v \in Outputs \cup {Junk} :
    Begin(t, CheckInt(ch, CheckInt(v, Check(ch \in Channels, "VALUE",
                   Post(SetAnalog(ch, v))))))

(* The value is checked against the mode this program last asked for.      *)
set_analog_output(t) ==
  \E ch \in ChannelArgs \cup {Junk}, v \in Outputs \cup {Junk} :
    Begin(t, CheckInt(ch, CheckInt(v, Check(ch \in Channels, "VALUE",
             Check(InRange(aomode[ch], v), "VALUE",
                   Post(SetAnalog(ch, v)))))))

ModeArgs == {0, 1, 2, Junk}
CheckMode(ch, m, rest) ==
  CheckInt(ch, CheckInt(m, Check(ch \in Channels, "VALUE",
           Check(m \in Modes, "VALUE", rest))))
set_mode_analog_output(t) == \E ch \in ChannelArgs \cup {Junk}, m \in ModeArgs :
  Begin(t, CheckMode(ch, m, Post(SetMode(ch, m))))
set_mode_analog_input(t) == \E ch \in ChannelArgs \cup {Junk}, m \in ModeArgs :
  Begin(t, CheckMode(ch, m, Post(Plain)))

(* The index and the value have the bounds of sixteen bits; the register   *)
(* type is one of four.  The arguments are tried one at a time.            *)
Words == {0 - 1, 0, 1, 65535, 65536, Junk}
Word  == 0 .. 65535
Signal == [ip |-> "name", port |-> 1, name |-> "name", type |-> 0, index |-> 0,
           value |-> 0, slave |-> 255]
Signals ==
  {[Signal EXCEPT !.ip = Junk], [Signal EXCEPT !.name = Junk]}
  \cup {[Signal EXCEPT !.port = x] : x \in Words}
  \cup {[Signal EXCEPT !.type = x] : x \in {0 - 1, 0, 3, 4, Junk}}
  \cup {[Signal EXCEPT !.index = x] : x \in Words}
  \cup {[Signal EXCEPT !.value = x] : x \in Words}
  \cup {[Signal EXCEPT !.slave = x] : x \in {0 - 1, 0, 248, 255, 256, Junk}}

add_modbus_signal(t) == \E s \in Signals :
  Begin(t, CheckName(s.ip, CheckIn(s.port, Word \ {0}, CheckName(s.name,
           CheckIn(s.type, 0 .. 3, CheckIn(s.index, Word,
           CheckIn(s.value, Word,
           CheckIn(s.slave, (0 .. 247) \cup {255}, Post(Plain)))))))))
del_modbus_signal(t) == \E n \in Named : Begin(t, CheckName(n, Post(Plain)))
set_modbus_output(t) == \E n \in Named, v \in IntArgs :
  Begin(t, CheckName(n, CheckInt(v, Post(Plain))))
get_modbus_input(t) == \E n \in Named : Begin(t, CheckName(n, Post(Plain)))

InOut(t) ==
  \/ get_digital_input(t) \/ get_tool_digital_input(t)
  \/ get_digital_output(t) \/ get_tool_digital_output(t)
  \/ get_analog_input(t) \/ set_digital_output(t)
  \/ set_tool_digital_output(t)
  \/ add_modbus_signal(t) \/ del_modbus_signal(t) \/ set_modbus_output(t)
  \/ get_modbus_input(t)

(* Those that the modes of the analog channels matter to.                  *)
Analog(t) ==
  \/ set_analog_output(t) \/ set_mode_analog_output(t)
  \/ set_mode_analog_input(t)

-----------------------------------------------------------------------------
(* Tools and scripts.  Lists of numbers are only met by float().           *)
ByName(t) == \E n \in Named : Begin(t, CheckName(n, Post(Plain)))
ByNameAndNumbers(t) == \E n \in Named, p \in {"list", "tail"} :
  Begin(t, CheckName(n, Filled(p, Post(Plain))))

set_tcp(t) == ByName(t)
get_tcp(t) == Ask(t)
set_tool(t) == ByName(t)
get_tool(t) == Ask(t)
set_tool_shape(t) == ByName(t)
add_tcp(t) == ByNameAndNumbers(t)
del_tcp(t) == ByName(t)
add_tool(t) == ByNameAndNumbers(t)
del_tool(t) == ByName(t)
drl_script_run(t) == \E system \in {"int", "tail"}, code \in Named :
  Begin(t, CheckName(code, Filled(system, Post(Plain))))
drl_script_stop(t) == \E mode \in IntArgs : Begin(t, CheckInt(mode, Post(Plain)))
drl_script_pause(t) == Ask(t)
drl_script_resume(t) == Ask(t)
get_drl_state(t) == Ask(t)

Program(t) ==
  \/ set_tcp(t) \/ get_tcp(t) \/ set_tool(t) \/ get_tool(t)
  \/ set_tool_shape(t) \/ add_tcp(t) \/ del_tcp(t) \/ add_tool(t)
  \/ del_tool(t) \/ drl_script_run(t) \/ drl_script_stop(t)
  \/ drl_script_pause(t) \/ drl_script_resume(t) \/ get_drl_state(t)

=============================================================================
