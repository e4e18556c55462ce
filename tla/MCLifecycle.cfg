\* The gateway and the device share three connections made.
SPECIFICATION LiveSpec
CONSTANTS
    gateway = gateway
    device = device
    c1 = c1
    c2 = c2
    Owners <- MCOwners
    Children <- MCChildren
    GatewayOf <- MCGatewayOf
    MaxClients = 3
INVARIANT ClientsOwned
PROPERTIES ChildrenComeBack ImplementsHolding
