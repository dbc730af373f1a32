CONSTANT EnumTicks = 3
SPECIFICATION Spec
PROPERTY SwitchesToHost
