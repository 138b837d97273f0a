CONSTANTS
    r1 = r1
    r2 = r2
    r3 = r3
    r4 = r4
    r5 = r5
    NoRouter = NoRouter
    Router = {r1, r2, r3, r4, r5}
    Links <- TopoLinks
SPECIFICATION Spec
PROPERTY EveryNetworkRouted
